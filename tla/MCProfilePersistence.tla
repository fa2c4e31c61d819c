------------------------- MODULE MCProfilePersistence -------------------------
(* Two devices; the Pod, the device's own store and an adapter the         *)
(* placement policy refuses; writes that differ in consent, boundary,      *)
(* verification and expiry; grants that are full, lapse, or are revoked.   *)
EXTENDS ProfilePersistence

PodManifest ==
  [authority |-> "user_owned", boundary |-> "server_allowed", domains |-> {"interest_profile"},
   persistent |-> TRUE, requiresNetwork |-> TRUE, supportsOffline |-> FALSE,
   userExportable |-> TRUE, userDeletable |-> TRUE]
DeviceManifest ==
  [PodManifest EXCEPT !.authority = "device_owned", !.boundary = "local_only",
     !.requiresNetwork = FALSE, !.supportsOffline = TRUE]
HostedManifest == [PodManifest EXCEPT !.authority = "provider_owned"]

Policy ==
  [subject |-> "subject", revoked |-> FALSE, deletionRequested |-> FALSE,
   allowed |-> {"local_personalization"}, server |-> {"local_personalization"},
   private |-> {"local_personalization"}, thirdParty |-> {}]

PodWrite ==
  [plain |-> FALSE, target |-> "user_pod", boundary |-> "server_allowed",
   use |-> "local_personalization", policy |-> Policy, boundaries |-> {"server_allowed"},
   verify |-> TRUE, strong |-> TRUE, cleanup |-> TRUE, expires |-> Never]
DeviceWrite ==
  [PodWrite EXCEPT !.target = "local_app", !.boundary = "local_only", !.policy = NoPolicy,
     !.boundaries = {"local_only"}]

MCManifests == {PodManifest, DeviceManifest, HostedManifest}
MCWrites ==
  {PodWrite, DeviceWrite,
   [PodWrite EXCEPT !.verify = FALSE, !.expires = 1],
   [PodWrite EXCEPT !.policy = NoPolicy],
   [PodWrite EXCEPT !.plain = TRUE, !.policy = NoPolicy],
   [PodWrite EXCEPT !.policy.revoked = TRUE],
   [DeviceWrite EXCEPT !.boundaries = {"local_only", "aggregate_only"}]}

Full ==
  [owner |-> FALSE, resource |-> {"read", "write"}, container |-> {"write"}, checked |-> 0,
   expires |-> Never, revoked |-> FALSE, providerAllows |-> TRUE, matches |-> TRUE]
MCGrants == {Full, [Full EXCEPT !.expires = 1], [Full EXCEPT !.revoked = TRUE],
             [Full EXCEPT !.container = {"read"}]}
=============================================================================
