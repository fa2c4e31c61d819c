---------------------------- MODULE SourceContext ----------------------------
(***************************************************************************)
(* What the engine takes a piece of source data to be: who may see it, on  *)
(* what basis it was read, and whether it is private, of a third party or  *)
(* processed on a server.  The context comes from the data itself, from    *)
(* the evidence of the authorization to read it, or from both.             *)
(***************************************************************************)
EXTENDS Consent

AccessBases == {"public_web", "follower_relationship", "mutual_relationship",
                "mentioned_recipient", "provider_policy", "authenticated_api",
                "oauth_scope", "solid_acl_read", "solid_acl_control", "owner",
                "atproto_public_repo", "unknown"}

Visibilities == OpenVisibilities \cup PrivateVisibilities \cup {"unknown"}

(* Authorization evidence: a kind fixes the protocol and bounds the rest.  *)
(* The first of each list is the default.                                  *)
Kind(protocol, visibilities, bases, private, thirdParty, server) ==
  [protocol |-> protocol, visibilities |-> visibilities, bases |-> bases,
   private |-> private, thirdParty |-> thirdParty, server |-> server]

OwnerVisibilities ==
  <<"acl_controlled", "public", "unlisted", "followers_only", "mentioned_only",
    "mutuals_only", "local_only">>

EvidenceKind(kind) ==
  CASE kind = "activitypub.public_web" ->
         Kind("activitypub", <<"public", "unlisted">>, <<"public_web">>, FALSE, TRUE, FALSE)
    [] kind = "activitypub.authenticated_api" ->
         Kind("activitypub", <<"public", "unlisted">>, <<"authenticated_api">>, FALSE, TRUE, TRUE)
    [] kind = "activitypub.follower_relationship" ->
         Kind("activitypub", <<"followers_only">>,
              <<"follower_relationship", "mutual_relationship", "owner">>, TRUE, TRUE, TRUE)
    [] kind = "activitypub.mentioned_recipient" ->
         Kind("activitypub", <<"mentioned_only">>, <<"mentioned_recipient", "owner">>, TRUE, TRUE, TRUE)
    [] kind = "activitypub.mutual_relationship" ->
         Kind("activitypub", <<"mutuals_only", "followers_only">>,
              <<"mutual_relationship", "owner">>, TRUE, TRUE, TRUE)
    [] kind = "activitypub.provider_policy" ->
         Kind("activitypub", <<"local_only">>, <<"provider_policy">>, FALSE, TRUE, TRUE)
    [] kind = "activitypods.solid_acl_read" ->
         Kind("activitypods", <<"acl_controlled">>,
              <<"solid_acl_read", "solid_acl_control", "owner">>, TRUE, FALSE, TRUE)
    [] kind = "activitypods.solid_acl_control" ->
         Kind("activitypods", <<"acl_controlled">>, <<"solid_acl_control", "owner">>, TRUE, FALSE, TRUE)
    [] kind = "activitypods.owner" ->
         Kind("activitypods", OwnerVisibilities, <<"owner">>, FALSE, FALSE, TRUE)
    [] kind = "atproto.public_repo" ->
         Kind("atproto", <<"atproto_public_repo">>, <<"atproto_public_repo">>, FALSE, TRUE, FALSE)
    [] kind = "atproto.oauth_scope" ->
         Kind("atproto", <<"atproto_public_repo">>, <<"oauth_scope", "atproto_public_repo">>,
              FALSE, TRUE, TRUE)

(* normalizeRecommendationProtocolSourceAuthorizationEvidence: visibility   *)
(* and basis must be of the kind's; the flags can only be raised.           *)
EvidenceValid(kind, visibility, basis) ==
  /\ \E i \in DOMAIN EvidenceKind(kind).visibilities : EvidenceKind(kind).visibilities[i] = visibility
  /\ \E i \in DOMAIN EvidenceKind(kind).bases : EvidenceKind(kind).bases[i] = basis

FromEvidence(subject, kind, visibility, basis, raised, providerAllows) ==
  [subject |-> subject,
   visibility |-> visibility,
   basis |-> basis,
   containsPrivate |-> EvidenceKind(kind).private \/ visibility \in PrivateVisibilities
                         \/ "private" \in raised,
   thirdParty |-> EvidenceKind(kind).thirdParty \/ "thirdParty" \in raised,
   serverSide |-> EvidenceKind(kind).server \/ "serverSide" \in raised,
   providerAllows |-> providerAllows]

(* createActivityPodsSourceContext: the basis of a pod's resource.          *)
PodBasis(scope, mode, isOwner) ==
  CASE isOwner -> "owner"
    [] ~isOwner /\ scope \in {"public", "unlisted"} -> "public_web"
    [] ~isOwner /\ scope = "local_only" -> "provider_policy"
    [] ~isOwner /\ scope = "acl_controlled" /\ mode = "control" -> "solid_acl_control"
    [] ~isOwner /\ scope = "acl_controlled" /\ mode = "read" -> "solid_acl_read"
    [] OTHER -> "unknown"

(* A canonical event's scope in a pod, unless the event carries one: what    *)
(* only some may see is under access control.                               *)
PodScope(e) ==
  CASE e.scope # "none" -> e.scope
    [] e.scope = "none" /\ e.visibility \in {"followers", "direct"} -> "acl_controlled"
    [] OTHER -> e.visibility

(* canonicalVisibilityToSourceVisibility                                    *)
SourceVisibility(protocol, visibility) ==
  CASE protocol = "atproto" /\ visibility \in {"public", "unlisted"} -> "atproto_public_repo"
    [] visibility = "followers" -> "followers_only"
    [] visibility = "direct" -> "mentioned_only"
    [] OTHER -> visibility

(* defaultCanonicalAccessBasis                                              *)
DefaultBasis(sourceVisibility) ==
  CASE sourceVisibility = "atproto_public_repo" -> "atproto_public_repo"
    [] sourceVisibility \in {"public", "unlisted"} -> "public_web"
    [] sourceVisibility = "followers_only" -> "follower_relationship"
    [] sourceVisibility = "mentioned_only" -> "mentioned_recipient"
    [] sourceVisibility = "local_only" -> "provider_policy"
    [] OTHER -> "unknown"

Context(protocol, visibility, basis, flags) ==
  [protocol |-> protocol, visibility |-> visibility, basis |-> basis,
   containsPrivate |-> visibility \in PrivateVisibilities,
   thirdParty |-> flags.thirdParty, serverSide |-> flags.serverSide,
   providerAllows |-> flags.providerAllows]

(* createCanonicalRecommendationSourceContext: a pod's event carries its     *)
(* scope and the mode of access; any other event only its visibility.       *)
CanonicalContext(e) ==
  IF e.protocol = "activitypods"
  THEN Context(e.protocol, PodScope(e), PodBasis(PodScope(e), e.mode, e.isOwner), e.flags)
  ELSE Context(e.protocol, SourceVisibility(e.protocol, e.visibility),
               DefaultBasis(SourceVisibility(e.protocol, e.visibility)), e.flags)

(* An item or an authorization that is about private data.                  *)
RequiresPrivateRead(c) == c.containsPrivate \/ c.visibility \in PrivateVisibilities

\* Mutant of Covers: any authorization covers any item.
CoversAnything(auth, capabilities, context) == auth.subject = auth.subject

(* requireAuthorizationCoversSourceItem, requireCapabilitiesForSourceItem    *)
Covers(auth, capabilities, context) ==
  RequiresPrivateRead(context) =>
    RequiresPrivateRead(auth) /\ "read_private_with_authorization" \in capabilities

(* sourceContextWithAuthorization: visibility and basis are the             *)
(* authorization's, whatever the item's were; the flags add up.             *)
WithAuthorization(context, auth) ==
  [context EXCEPT
     !.visibility = auth.visibility,
     !.basis = auth.basis,
     !.containsPrivate = RequiresPrivateRead(context) \/ RequiresPrivateRead(auth),
     !.thirdParty = @ \/ auth.thirdParty,
     !.serverSide = @ \/ auth.serverSide,
     !.providerAllows = @ /\ auth.providerAllows]

(* createConsentRequestFromNormalizedSource                                 *)
ConsentRequest(subject, use, context) ==
  [subject |-> subject, use |-> use, protocol |-> context.protocol,
   visibility |-> context.visibility, basis |-> context.basis,
   containsPrivate |-> context.containsPrivate, thirdParty |-> context.thirdParty,
   serverSide |-> context.serverSide, providerAllows |-> context.providerAllows]
=============================================================================
