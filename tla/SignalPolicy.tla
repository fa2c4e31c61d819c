----------------------------- MODULE SignalPolicy -----------------------------
(***************************************************************************)
(* Which interest signals may exist: evaluateRecommendationPublicSignal-   *)
(* Policy, applied to every signal that is made or read back.  A signal    *)
(* carries the context of the source item it came from and the evaluation  *)
(* of consent for it, which agree on visibility, basis and flags.          *)
(***************************************************************************)

FilterActions == {"dismiss", "hide", "block", "mute"}

SignalEffect(signal) ==
  IF \/ signal.action \in FilterActions /\ signal.polarity = "negative"
     \/ signal.target = "moderation_label" /\ signal.polarity # "positive"
  THEN "filtering" ELSE "affinity"

UserControlled(context, trust) ==
  /\ context.protocol = "activitypods"
  /\ context.visibility = "acl_controlled"
  /\ context.basis = "solid_acl_control"
  /\ trust = "user_owned"

(* resolvedStorageAuthority, for a signal that names none.                  *)
SignalAuthority(signal, context, trust) ==
  CASE signal.boundary = "server_allowed" /\ UserControlled(context, trust) -> "user_owned"
    [] signal.boundary = "local_only" -> "device_owned"
    [] signal.boundary = "aggregate_only" -> "shared_operator"
    [] OTHER -> "provider_owned"

ExplicitPublic(context) ==
  ~context.containsPrivate /\ context.visibility = "public" /\ context.basis = "public_web"

AtprotoPublicRepository(context) ==
  /\ ~context.containsPrivate
  /\ context.protocol = "atproto"
  /\ context.visibility = "atproto_public_repo" /\ context.basis = "atproto_public_repo"

LocalOwnerEvidence(signal, context, trust) ==
  /\ context.protocol = "app_local"
  /\ context.visibility = "local_only" /\ context.basis = "owner" /\ trust = "user_owned"
  /\ signal.boundary = "local_only" /\ ~context.serverSide
  /\ signal.use \in {"local_personalization", "ranking"}

UserControlledRemoteEvidence(signal, context, trust) ==
  /\ UserControlled(context, trust)
  /\ SignalAuthority(signal, context, trust) = "user_owned"
  /\ context.containsPrivate /\ ~context.thirdParty /\ context.serverSide
  /\ signal.use \in {"local_personalization", "ranking"}

LocalPrivateFilter(signal, context, trust) ==
  /\ context.protocol # "app_local"
  /\ context.containsPrivate /\ SignalEffect(signal) = "filtering"
  /\ SignalAuthority(signal, context, trust) = "device_owned" /\ ~context.serverSide

SignalAllowed(signal, context, trust) ==
  \/ ExplicitPublic(context)
  \/ AtprotoPublicRepository(context)
  \/ LocalOwnerEvidence(signal, context, trust)
  \/ UserControlledRemoteEvidence(signal, context, trust)
  \/ LocalPrivateFilter(signal, context, trust)
=============================================================================
