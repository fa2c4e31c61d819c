---------------------------- MODULE StatePlacement ----------------------------
(***************************************************************************)
(* Where state about a subject may be kept: the storage authority rules    *)
(* and the placement policy a storage adapter's manifest is held to.       *)
(***************************************************************************)
EXTENDS Naturals

Domains == {"interest_profile", "seen_history", "dismissal_history", "feedback_history",
            "bandit_state", "label_evidence", "profile_embedding", "candidate_cache",
            "explanation_cache", "aggregate_statistics"}

SubjectLevel(domain) == domain # "aggregate_statistics"

Rebuildable(domain) ==
  domain \in {"profile_embedding", "candidate_cache", "explanation_cache", "aggregate_statistics"}

UserPreference(domain) == ~Rebuildable(domain)

(* evaluateRecommendationStorageAuthority                                  *)
AuthorityAllows(authority, boundary, subjectLevel) ==
  \/ boundary = "local_only" /\ authority = "device_owned"
  \/ boundary = "server_allowed" /\ authority = "user_owned"
  \/ boundary = "aggregate_only" /\ authority = "shared_operator" /\ ~subjectLevel

(* evaluateRecommendationStatePlacement                                    *)
PlacementAllows(manifest, domain) ==
  /\ AuthorityAllows(manifest.authority, manifest.boundary, SubjectLevel(domain))
  /\ domain = "aggregate_statistics" =>
       manifest.authority = "shared_operator" /\ manifest.boundary = "aggregate_only"
  /\ domain # "aggregate_statistics" =>
       /\ manifest.authority = "device_owned" => ~manifest.requiresNetwork /\ manifest.supportsOffline
       /\ manifest.persistent => manifest.userDeletable
       /\ manifest.persistent /\ UserPreference(domain) => manifest.userExportable

(* assertRecommendationStateStorageManifest: every declared domain.        *)
ManifestAllowed(manifest) ==
  manifest.domains # {} /\ \A d \in manifest.domains : PlacementAllows(manifest, d)
=============================================================================
