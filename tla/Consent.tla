-------------------------------- MODULE Consent --------------------------------
(***************************************************************************)
(* evaluateRecommendationConsent: a request to use data of a subject is    *)
(* allowed when no ground for a denial applies.  The code reports the      *)
(* first ground in a fixed order; which one it is makes no difference to   *)
(* any caller, so the grounds are a set.                                   *)
(***************************************************************************)
EXTENDS Naturals

CONSTANT NoPolicy

DataUses == {"ranking", "embeddings", "local_personalization",
             "server_personalization", "analytics"}

OpenVisibilities == {"public", "unlisted", "atproto_public_repo"}

PrivateVisibilities ==
  {"followers_only", "mentioned_only", "mutuals_only", "local_only", "acl_controlled"}

(* visibilityAllowsAccess: the bases that open a private visibility.       *)
BasesFor(visibility) ==
  CASE visibility = "followers_only" -> {"follower_relationship", "mutual_relationship", "owner"}
    [] visibility = "mentioned_only" -> {"mentioned_recipient", "owner"}
    [] visibility = "mutuals_only" -> {"mutual_relationship", "owner"}
    [] visibility = "local_only" -> {"provider_policy", "owner"}
    [] visibility = "acl_controlled" -> {"solid_acl_read", "solid_acl_control", "owner"}
    [] OTHER -> {}

AccessAllowed(visibility, basis) ==
  /\ basis # "unknown"
  /\ visibility \in OpenVisibilities \/ basis \in BasesFor(visibility)

(* deriveEffectivePrivateData                                              *)
EffectivelyPrivate(request) ==
  request.containsPrivate \/ request.visibility \in PrivateVisibilities

(* What a policy has no say in: the request's own scope.                   *)
ScopeDenied(request) ==
  \/ request.protocol = "unknown"
  \/ ~request.providerAllows
  \/ ~AccessAllowed(request.visibility, request.basis)

(* What the policy must grant for the request's use.                       *)
PolicyDenies(policy, request) ==
  \/ policy.subject # request.subject
  \/ policy.revoked
  \/ policy.deletionRequested
  \/ request.use \notin policy.allowed
  \/ request.serverSide /\ request.use \notin policy.server
  \/ EffectivelyPrivate(request) /\ request.use \notin policy.private
  \/ EffectivelyPrivate(request) /\ request.thirdParty /\ request.use \notin policy.thirdParty

(* The default is to deny: no policy, no use.                              *)
ConsentAllows(policy, request) ==
  ~ScopeDenied(request) /\ policy # NoPolicy /\ ~PolicyDenies(policy, request)
=============================================================================
