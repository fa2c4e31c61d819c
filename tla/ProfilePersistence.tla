-------------------------- MODULE ProfilePersistence --------------------------
(***************************************************************************)
(* The persisted profile of one subject: the hardened and the plain write, *)
(* read and delete operations, over an adapter that is either the          *)
(* device's own store or a resource in the user's ActivityPods Pod.  The   *)
(* Pod adapter asks for a grant, reads the entity tag and makes its change *)
(* conditional on it, each across an await, so the calls of several        *)
(* devices interleave; transport requests may fail with or without having  *)
(* taken effect, the transport may garble what it stores, and the grant    *)
(* may change at any time.                                                 *)
(*                                                                         *)
(* A record is the write that made it, the privacy boundaries its profile  *)
(* mentions and its expiry.  Device store, transport and grants are        *)
(* supplied by the application: they are modelled by their interfaces.     *)
(***************************************************************************)
EXTENDS Consent, StatePlacement, FiniteSets

CONSTANTS Clients,
          Manifests,  \* the storage manifests an adapter may declare
          Writes,     \* the inputs of write calls
          Grants,     \* the grant evidence the authorizer may return
          MaxWrites,  \* bound on write calls
          MaxTime,    \* bound on the clock
          MaxFailures,\* bound on failed or garbled requests and changed grants
          Never, NoDoc, NoTag, Garbled, Idle

ASSUME PersistenceAssumption ==
  /\ MaxWrites \in Nat /\ MaxTime \in Nat /\ MaxFailures \in Nat
  /\ Never \in Nat /\ Never > MaxTime
  /\ \A w \in Writes : w.expires \in 0 .. Never
  /\ \A g \in Grants : g.expires \in Nat
  /\ NoTag \notin Nat
  /\ \A w \in Writes, n \in 1 .. MaxWrites :
       Garbled # [id |-> n, boundaries |-> w.boundaries, expires |-> w.expires]

VARIABLES manifest,  \* adapter.storageManifest
          doc,       \* what the store holds: NoDoc or [record, tag, id, input]
          calls,     \* the call each client has in flight, or Idle
          grant,     \* the evidence the authorizer returns now
          writes,    \* write calls begun, and the source of record ids
          tags,      \* entity tags handed out
          clock, failures,
          intact,    \* history: the writes whose record the store has held ungarbled
          verified,  \* history: the writes that returned with verified = true
          uncleaned, \* history: the writes that asked for a cleanup and ended in
                     \* write_verification_failed
          late       \* history: changes a client made since the grant lapsed

vars == <<manifest, doc, calls, grant, writes, tags, clock, failures, intact, verified, uncleaned, late>>
environment == <<manifest, grant, clock>>
history == <<intact, verified, uncleaned, late>>

OnPod == manifest.authority = "user_owned"

Modes == {"read", "append", "write", "control"}
-----------------------------------------------------------------------------
(* requireRecommendationActivityPodsResourceOperation                       *)
ReadMode(modes) == modes \cap {"read", "control"} # {}
WriteMode(modes) == modes \cap {"write", "control"} # {}

\* Mutant of GrantCurrent: expiry is checked against the time of the grant only.
GrantCurrentAtIssue(g) == ~g.revoked /\ g.checked <= clock /\ g.expires > g.checked

(* validateTimes                                                           *)
GrantCurrent(g) ==
  ~g.revoked /\ g.checked <= clock /\ g.expires > g.checked /\ g.expires > clock

GrantUsable(g) ==
  g.owner \/ ReadMode(g.resource) \/ WriteMode(g.resource) \/ WriteMode(g.container)

GrantAllows(g, operation) ==
  /\ GrantCurrent(g) /\ GrantUsable(g) /\ g.matches /\ g.providerAllows
  /\ \/ g.owner
     \/ operation = "read" /\ ReadMode(g.resource)
     \/ /\ operation \in {"write", "delete"}
        /\ ReadMode(g.resource) /\ WriteMode(g.resource) /\ WriteMode(g.container)

(* assertManifestMatchesTarget                                             *)
TargetMatches(target) ==
  \/ target = "local_app" /\ manifest.authority = "device_owned" /\ manifest.boundary = "local_only"
  \/ target = "user_pod" /\ manifest.authority = "user_owned" /\ manifest.boundary = "server_allowed"

AdapterAccepted == ManifestAllowed(manifest) /\ "interest_profile" \in manifest.domains

ServerSide(w) == w.target = "user_pod" \/ w.boundary = "server_allowed"

(* The request enforceWriteConsent makes of the policy.                    *)
WriteRequest(w) ==
  [subject |-> "subject", use |-> w.use, protocol |-> "app_local", visibility |-> "local_only",
   basis |-> "owner", containsPrivate |-> TRUE, thirdParty |-> FALSE,
   serverSide |-> ServerSide(w), providerAllows |-> TRUE]

\* Mutant of WriteConsented: consent is asked for on the way to a Pod only.
WriteConsentedOnPodOnly(w) ==
  /\ w.target # "ephemeral_session" /\ w.boundary # "aggregate_only"
  /\ "aggregate_only" \notin w.boundaries
  /\ IF w.target = "user_pod" /\ w.policy # NoPolicy
     THEN ConsentAllows(w.policy, WriteRequest(w)) ELSE TRUE

(* enforceWriteConsent                                                     *)
WriteConsented(w) ==
  /\ w.target # "ephemeral_session" /\ w.boundary # "aggregate_only"
  /\ "aggregate_only" \notin w.boundaries
  /\ IF w.policy = NoPolicy THEN ~ServerSide(w)
     ELSE ConsentAllows(w.policy, WriteRequest(w))

(* What must hold before a write reaches the adapter.                      *)
WriteAllowed(w) ==
  /\ AdapterAccepted
  /\ w.plain => AuthorityAllows(manifest.authority, manifest.boundary, TRUE)
  /\ ~w.plain => WriteConsented(w) /\ TargetMatches(w.target)

Verifies(w) == ~w.plain /\ w.verify

Cleans(w) == w.cleanup /\ w.strong
-----------------------------------------------------------------------------
(* The adapter operation a call is in: a write is followed by the read     *)
(* that verifies it and perhaps by the delete that cleans up, a read by    *)
(* the delete of an expired record.                                        *)
Operation(k) == CASE k.stage = "main" -> k.op
                  [] k.stage = "verify" -> "read"
                  [] OTHER -> "delete"

(* The device store answers in one step; the Pod is first authorized.      *)
At(k, stage) ==
  [k EXCEPT !.stage = stage, !.tag = NoTag,
     !.phase = IF OnPod THEN "authorize"
               ELSE IF Operation([k EXCEPT !.stage = stage]) = "read" THEN "fetch" ELSE "store"]

NewCall(op, record, input) ==
  At([op |-> op, stage |-> "main", phase |-> "", record |-> record, tag |-> NoTag,
      seen |-> NoDoc, input |-> input], "main")

Init ==
  /\ manifest \in Manifests
  /\ doc = NoDoc /\ calls = [c \in Clients |-> Idle] /\ grant \in Grants
  /\ writes = 0 /\ tags = 0 /\ clock = 0 /\ failures = 0
  /\ intact = {} /\ verified = {} /\ uncleaned = {} /\ late = [c \in Clients |-> 0]

Starts(c, k) ==
  /\ calls[c] = Idle
  /\ calls' = [calls EXCEPT ![c] = k]
  /\ UNCHANGED <<environment, doc, tags, failures, history>>

(* A write: everything up to the adapter is checked before any I/O.  *)
BeginWrite(c, w) ==
  /\ writes < MaxWrites /\ WriteAllowed(w)
  /\ writes' = writes + 1
  /\ Starts(c, NewCall("write", [id |-> writes', boundaries |-> w.boundaries, expires |-> w.expires], w))

WriteDenied(c, w) == calls[c] = Idle /\ ~WriteAllowed(w) /\ UNCHANGED vars

(* The target named by a read or a delete must match the manifest, as for  *)
(* a write; a call that names another throws before any I/O.               *)
BeginRead(c, deleteExpired) ==
  /\ AdapterAccepted /\ UNCHANGED writes
  /\ Starts(c, NewCall("read", Garbled, [deleteExpired |-> deleteExpired]))

BeginDelete(c) ==
  /\ AdapterAccepted /\ UNCHANGED writes
  /\ Starts(c, NewCall("delete", Garbled, [deleteExpired |-> FALSE]))

InPhase(c, p) == calls[c] # Idle /\ calls[c].phase = p

Continues(c, k) == calls' = [calls EXCEPT ![c] = k] /\ UNCHANGED <<verified, uncleaned>>

Ends(c) == calls' = [calls EXCEPT ![c] = Idle]

Returns(c) == Ends(c) /\ UNCHANGED <<verified, uncleaned>>

ReturnsVerified(c) ==
  Ends(c) /\ verified' = verified \cup {calls[c].record.id} /\ UNCHANGED uncleaned

(* The error write_verification_failed, with or without a cleanup.         *)
VerificationFailed(c) ==
  /\ Ends(c) /\ UNCHANGED verified
  /\ uncleaned' = IF Cleans(calls[c].input) THEN uncleaned \cup {calls[c].record.id} ELSE uncleaned

(* The adapter operation rejected: the call throws, whatever its stage.    *)
AdapterFails(c) == IF calls[c].stage = "verify" THEN VerificationFailed(c) ELSE Returns(c)

(* The adapter operation succeeded, a read apart.                          *)
AdapterDone(c) ==
  LET k == calls[c]
  IN  CASE k.stage = "main" /\ k.op = "write" /\ Verifies(k.input) -> Continues(c, At(k, "verify"))
        [] k.stage = "cleanup" -> VerificationFailed(c)
        [] OTHER -> Returns(c)

MayFail == failures < MaxFailures /\ failures' = failures + 1

(* The grant has run out or been withdrawn.                                *)
Lapsed(g) == g.revoked \/ g.expires <= clock

Changes(c, d) ==
  /\ doc' = d
  /\ late' = IF OnPod /\ Lapsed(grant) THEN [late EXCEPT ![c] = @ + 1] ELSE late
-----------------------------------------------------------------------------
Authorize(c) ==
  /\ InPhase(c, "authorize")
  /\ IF GrantAllows(grant, Operation(calls[c]))
     THEN Continues(c, [calls[c] EXCEPT !.phase = "fetch"])
     ELSE AdapterFails(c)
  /\ UNCHANGED <<environment, doc, writes, tags, failures, intact, late>>

\* Mutant of Verify: any readable record will do.
VerifyPresence(c, raw) ==
  IF raw # NoDoc /\ raw.record # Garbled THEN ReturnsVerified(c) ELSE VerificationFailed(c)

(* verifyWrittenRecord: what came back is compared with what was written.  *)
Verify(c, raw) ==
  IF raw # NoDoc /\ raw.record = calls[c].record THEN ReturnsVerified(c)
  ELSE IF Cleans(calls[c].input) THEN Continues(c, At(calls[c], "cleanup"))
  ELSE VerificationFailed(c)

Expired(raw) == raw # NoDoc /\ raw.record # Garbled /\ raw.record.expires <= clock

(* The Pod adapter decodes and checks the document it read, and throws     *)
(* when it is garbled; the device store hands out what it has.             *)
FetchRead(c) ==
  /\ InPhase(c, "fetch") /\ Operation(calls[c]) = "read"
  /\ IF OnPod /\ doc # NoDoc /\ doc.record = Garbled THEN AdapterFails(c)
     ELSE IF calls[c].stage = "verify" THEN Verify(c, doc)
     ELSE IF Expired(doc) /\ calls[c].input.deleteExpired THEN Continues(c, At(calls[c], "expire"))
     ELSE Returns(c)
  /\ UNCHANGED <<environment, doc, writes, tags, failures, intact, late>>

(* The entity tag the change will be conditional on.                       *)
FetchTag(c) ==
  /\ InPhase(c, "fetch") /\ Operation(calls[c]) # "read"
  /\ IF doc = NoDoc /\ Operation(calls[c]) = "delete" THEN AdapterDone(c)
     ELSE Continues(c, [calls[c] EXCEPT !.phase = "store", !.seen = doc,
                          !.tag = IF doc = NoDoc THEN NoTag ELSE doc.tag])
  /\ UNCHANGED <<environment, doc, writes, tags, failures, intact, late>>

\* Mutant of Precondition: a missing document satisfies every condition.
PreconditionLoose(k) == ~OnPod \/ k.tag = NoTag \/ (doc # NoDoc /\ doc.tag = k.tag)

(* if_none_match "*" or if_match the tag; the device store has neither.    *)
Precondition(k) ==
  \/ ~OnPod
  \/ k.tag = NoTag /\ doc = NoDoc
  \/ k.tag # NoTag /\ doc # NoDoc /\ doc.tag = k.tag

Stored(k, garbled) ==
  [record |-> IF garbled THEN Garbled ELSE k.record, tag |-> tags + 1,
   id |-> k.record.id, input |-> k.input]

StoreWrite(c) ==
  /\ InPhase(c, "store") /\ Operation(calls[c]) = "write"
  /\ Precondition(calls[c])
  /\ \E garbled \in BOOLEAN :
       /\ IF garbled THEN MayFail ELSE UNCHANGED failures
       /\ Changes(c, Stored(calls[c], garbled))
       /\ intact' = IF garbled THEN intact ELSE intact \cup {calls[c].record.id}
  /\ tags' = tags + 1
  /\ AdapterDone(c)
  /\ UNCHANGED <<environment, writes>>

StoreDelete(c) ==
  /\ InPhase(c, "store") /\ Operation(calls[c]) = "delete"
  /\ Precondition(calls[c])
  /\ Changes(c, NoDoc)
  /\ AdapterDone(c)
  /\ UNCHANGED <<environment, writes, tags, failures, intact>>

(* precondition_failed; a delete of what is gone may also report not_found.*)
StoreConflicts(c) ==
  /\ InPhase(c, "store") /\ ~Precondition(calls[c])
  /\ \/ AdapterFails(c)
     \/ doc = NoDoc /\ Operation(calls[c]) = "delete" /\ AdapterDone(c)
  /\ UNCHANGED <<environment, doc, writes, tags, failures, intact, late>>

(* A request, the codec or a weak entity tag makes the adapter reject; a   *)
(* change may have been made all the same.                                 *)
Rejects(c) ==
  /\ calls[c] # Idle /\ MayFail
  /\ AdapterFails(c)
  /\ \/ UNCHANGED <<doc, tags, intact, late>>
     \/ /\ calls[c].phase = "store" /\ Precondition(calls[c])
        /\ IF Operation(calls[c]) = "write"
           THEN /\ Changes(c, Stored(calls[c], FALSE)) /\ tags' = tags + 1
                /\ intact' = intact \cup {calls[c].record.id}
           ELSE Changes(c, NoDoc) /\ UNCHANGED <<tags, intact>>
  /\ UNCHANGED <<environment, writes>>

(* The owner changes or revokes the grant.                                 *)
GrantChanges ==
  /\ MayFail /\ OnPod
  /\ grant' \in Grants \ {grant}
  /\ late' = IF ~Lapsed(grant') THEN [c \in Clients |-> 0] ELSE late
  /\ UNCHANGED <<manifest, clock, doc, calls, writes, tags, intact, verified, uncleaned>>

Tick ==
  /\ clock < MaxTime /\ clock' = clock + 1
  /\ UNCHANGED <<manifest, grant, doc, calls, writes, tags, failures, history>>

Step(c) ==
  Authorize(c) \/ FetchRead(c) \/ FetchTag(c) \/ StoreWrite(c) \/ StoreDelete(c) \/ StoreConflicts(c)

Request(c) ==
  \/ \E w \in Writes : BeginWrite(c, w) \/ WriteDenied(c, w)
  \/ \E deleteExpired \in BOOLEAN : BeginRead(c, deleteExpired)
  \/ BeginDelete(c)

Next == \/ \E c \in Clients : Request(c) \/ Step(c) \/ Rejects(c)
        \/ GrantChanges \/ Tick

Spec == Init /\ [][Next]_vars
-----------------------------------------------------------------------------
TypeOK ==
  /\ manifest \in Manifests /\ grant \in Grants
  /\ writes \in 0 .. MaxWrites /\ clock \in 0 .. MaxTime /\ failures \in 0 .. MaxFailures
  /\ doc = NoDoc \/ doc.tag \in 1 .. tags
  /\ verified \cup uncleaned \cup intact \subseteq 1 .. writes

(* A record that is stored by the hardened write is one its subject agreed *)
(* to: nothing derived for aggregates only, in a place the placement policy*)
(* allows, and on the way to a server only under a live policy that grants *)
(* server-side and private use.                                            *)
StoredWithinPolicy ==
  doc # NoDoc /\ ~doc.input.plain =>
    LET w == doc.input
    IN  /\ ManifestAllowed(manifest) /\ "aggregate_only" \notin w.boundaries
        /\ (OnPod \/ w.boundary = "server_allowed") =>
             /\ w.policy # NoPolicy /\ ~w.policy.revoked /\ ~w.policy.deletionRequested
             /\ w.use \in w.policy.server \cap w.policy.private

(* No device changes a Pod document it has not seen: whatever is replaced  *)
(* or deleted is the document the same call read before, however the calls *)
(* interleave and whichever requests fail.                                 *)
NoBlindOverwrite ==
  [][doc' # doc /\ OnPod =>
       \E c \in Clients : InPhase(c, "store") /\ calls'[c] # calls[c] /\ calls[c].seen = doc]_vars

(* A write that reports itself verified was in the store as it was written,*)
(* also when the transport garbles what it is given and another device     *)
(* writes in between.                                                      *)
VerifiedMeansStored == verified \subseteq intact

(* Once the grant has lapsed or been revoked, each device makes at most    *)
(* the one change it had been authorized for: every adapter operation of a *)
(* call, the cleanup of a failed write included, asks again.               *)
RevocationStopsChanges == \A c \in Clients : late[c] <= 1

(* "cleans up corrupted writes": a write that asked for the cleanup and    *)
(* ended in a verification failure leaves no garbled record of its own.    *)
CorruptedWritesAreCleanedUp ==
  doc # NoDoc /\ doc.record = Garbled => doc.id \notin uncleaned
=============================================================================
