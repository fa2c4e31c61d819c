------------------------------ MODULE LiveOutbox ------------------------------
(***************************************************************************)
(* watchRecommendationActivityPodsOutbox: notifications of a pod's outbox  *)
(* reach the host as mutations, each after the grant to read the outbox    *)
(* was checked again.  A notification is a hint: the host reads the outbox *)
(* again for what was added, and takes out what was removed.               *)
(*                                                                         *)
(* The pod, its grants, its stream, which may repeat a frame or deliver it *)
(* late, and what the host does with a mutation are external.              *)
(***************************************************************************)
EXTENDS Naturals, Sequences, FiniteSets

CONSTANTS Resources,     \* what the outbox may list
          MaxFrames,     \* frames of a watch
          MaxMutations,  \* mutations of a watch
          MaxWatches, MaxChanges, MaxLiveFaults

VARIABLES outbox,     \* the public activities the pod lists
          stream,     \* frames on their way, [id, type, resource]
          notices,    \* frames sent so far
          grant,      \* the pod's grant: [id, rights, revoked, expired]
          watch,      \* the watch: [pc, grant, frame, stale, seen, read, frames, mutations]
          mirror,     \* what the host holds of the outbox
          removed,    \* resources the host was told are removed, and that still are
          delivered,  \* mutations handed over by the watch: [id, stale]
          watches, changes, liveFaults

liveVars == <<outbox, stream, notices, grant, watch, mirror, removed, delivered,
              watches, changes, liveFaults>>

NoFrame == [id |-> 0, type |-> "none", resource |-> "none"]
NotWatching == [pc |-> "off", grant |-> 0, frame |-> NoFrame, stale |-> FALSE, seen |-> {},
                read |-> {}, frames |-> 0, mutations |-> 0]

LiveInit ==
  /\ outbox = Resources /\ stream = <<>> /\ notices = 0
  /\ grant = [id |-> 1, readOutbox |-> TRUE, revoked |-> FALSE, expired |-> FALSE]
  /\ watch = NotWatching /\ mirror = {} /\ removed = {} /\ delivered = {}
  /\ watches = 0 /\ changes = 0 /\ liveFaults = 0

-----------------------------------------------------------------------------
(* normalizeRecommendationActivityPodsOutboxGrant                           *)
GrantHolds(g) == g.readOutbox /\ ~g.revoked /\ ~g.expired

\* Mutant of StillGranted: the grant of the subscription is not checked again.
GrantedOnce(g) == watch.grant # 0

(* assertGrantBinding, sameGrantIdentity: the grant checked for a frame is   *)
(* good, and is the one the subscription was made under.                    *)
StillGranted(g) == GrantHolds(g) /\ g.id = watch.grant

\* Mutant of MutationAction: what was added is taken from the notification.
ActionTrustingTheNotice(type) ==
  CASE type = "Add" -> "apply"
    [] type = "Remove" -> "retract"
    [] type = "Delete" -> "disable_source"
    [] type \in {"Create", "Update"} -> "invalidate_snapshot"

(* normalizeNotificationMutation                                            *)
MutationAction(type) ==
  CASE type = "Add" -> "public_refetch_required"
    [] type = "Remove" -> "retract"
    [] type = "Delete" -> "disable_source"
    [] type \in {"Create", "Update"} -> "invalidate_snapshot"

(* What the host does with a mutation of each kind.                         *)
Applied(action, resource) ==
  CASE action = "public_refetch_required" -> watch.read
    [] action = "retract" -> mirror \ {resource}
    [] action = "apply" -> mirror \cup {resource}
    [] action \in {"disable_source", "invalidate_snapshot"} -> {}

-----------------------------------------------------------------------------
(* The first check of the grant, before the subscription.                   *)
Subscribe ==
  /\ watch.pc = "off" /\ watches < MaxWatches /\ watches' = watches + 1
  /\ watch' = IF GrantHolds(grant) THEN [NotWatching EXCEPT !.pc = "waiting", !.grant = grant.id]
              ELSE NotWatching
  /\ stream' = <<>>
  /\ delivered' = {}
  /\ UNCHANGED <<outbox, notices, grant, mirror, removed, changes, liveFaults>>

(* A frame is pulled; the authorizer is asked.                              *)
Pull ==
  /\ watch.pc = "waiting" /\ stream # <<>>
  /\ watch' = [watch EXCEPT !.pc = "checking", !.frame = Head(stream),
                            !.stale = ~GrantHolds(grant) \/ grant.id # watch.grant]
  /\ stream' = Tail(stream)
  /\ UNCHANGED <<outbox, notices, grant, mirror, removed, delivered, watches, changes, liveFaults>>

AtLimit(w) == w.frames >= MaxFrames \/ w.mutations >= MaxMutations

(* The authorizer answers: the watch ends on a grant that no longer holds.   *)
(* A frame seen before is only counted.                                     *)
Checked ==
  /\ watch.pc = "checking"
  /\ LET counted == [watch EXCEPT !.frames = @ + 1, !.frame = NoFrame, !.stale = FALSE]
     IN  IF ~StillGranted(grant)
         THEN watch' = NotWatching /\ UNCHANGED delivered
         ELSE IF watch.frame.id \in watch.seen
         THEN /\ watch' = IF counted.frames >= MaxFrames THEN NotWatching
                          ELSE [counted EXCEPT !.pc = "waiting"]
              /\ UNCHANGED delivered
         ELSE /\ watch' = [watch EXCEPT !.pc = "delivering", !.frames = @ + 1,
                                        !.mutations = @ + 1, !.seen = @ \cup {watch.frame.id}]
              /\ delivered' = delivered \cup {[id |-> watch.frame.id, stale |-> watch.stale]}
  /\ UNCHANGED <<outbox, stream, notices, grant, mirror, removed, watches, changes, liveFaults>>

(* onMutation is awaited.  The host reads the outbox again first, and what it *)
(* read may be old when it is applied.                                      *)
Refetches ==
  /\ watch.pc = "delivering"
  /\ watch' = [watch EXCEPT !.pc = "applying", !.read = outbox]
  /\ UNCHANGED <<outbox, stream, notices, grant, mirror, removed, delivered, watches, changes,
                 liveFaults>>

Handled ==
  /\ watch.pc = "applying"
  /\ mirror' = Applied(MutationAction(watch.frame.type), watch.frame.resource)
  /\ removed' = IF watch.frame.type = "Remove" THEN removed \cup ({watch.frame.resource} \ outbox)
               ELSE removed
  /\ watch' = IF AtLimit(watch) THEN NotWatching
              ELSE [watch EXCEPT !.pc = "waiting", !.frame = NoFrame, !.stale = FALSE, !.read = {}]
  /\ UNCHANGED <<outbox, stream, notices, grant, delivered, watches, changes, liveFaults>>

(* The stream breaks, the authorizer or onMutation rejects, the signal is    *)
(* aborted, a frame is not one of this outbox: the watch ends.              *)
WatchEnds ==
  /\ watch.pc # "off" /\ liveFaults < MaxLiveFaults /\ liveFaults' = liveFaults + 1
  /\ watch' = NotWatching
  /\ UNCHANGED <<outbox, stream, notices, grant, mirror, removed, delivered, watches, changes>>

-----------------------------------------------------------------------------
(* The pod.  It notifies whoever is subscribed.                             *)
Sent(type, resource) ==
  /\ changes < MaxChanges /\ changes' = changes + 1
  /\ notices' = notices + 1
  /\ stream' = IF watch.pc = "off" THEN stream
               ELSE Append(stream, [id |-> notices + 1, type |-> type, resource |-> resource])
  /\ UNCHANGED <<grant, watch, mirror, delivered, watches, liveFaults>>

Added ==
  \E r \in Resources \ outbox :
    /\ outbox' = outbox \cup {r} /\ removed' = removed \ {r}
    /\ Sent("Add", r)

Removed ==
  \E r \in outbox : outbox' = outbox \ {r} /\ UNCHANGED removed /\ Sent("Remove", r)

Rewritten ==
  \E type \in {"Create", "Update", "Delete"} :
    UNCHANGED <<outbox, removed>> /\ Sent(type, "none")

(* A frame arrives once more, or after those that were sent later.          *)
Repeated ==
  /\ stream # <<>> /\ liveFaults < MaxLiveFaults /\ liveFaults' = liveFaults + 1
  /\ stream' \in {Append(stream, Head(stream)), Append(Tail(stream), Head(stream))}
  /\ UNCHANGED <<outbox, notices, grant, watch, mirror, removed, delivered, watches, changes>>

(* The subject revokes the grant, it expires, another one takes its place.   *)
GrantChanges ==
  /\ changes < MaxChanges /\ changes' = changes + 1
  /\ grant' \in {[grant EXCEPT !.revoked = TRUE], [grant EXCEPT !.expired = TRUE],
                 [grant EXCEPT !.readOutbox = FALSE],
                 [id |-> grant.id + 1, readOutbox |-> TRUE, revoked |-> FALSE, expired |-> FALSE]}
  /\ UNCHANGED <<outbox, stream, notices, watch, mirror, removed, delivered, watches, liveFaults>>

LiveNext ==
  \/ Subscribe \/ Pull \/ Checked \/ Refetches \/ Handled \/ WatchEnds
  \/ Added \/ Removed \/ Rewritten \/ Repeated \/ GrantChanges

LiveSpec == LiveInit /\ [][LiveNext]_liveVars

-----------------------------------------------------------------------------
(* A frame that arrived when the grant of the subscription no longer held is  *)
(* not handed over, whatever the grant was when the watch began.            *)
NothingAfterRevocation == \A d \in delivered : ~d.stale

(* What the host was told is removed stays out of its mirror until the pod    *)
(* adds it again, though an earlier addition is repeated or arrives late.   *)
RemovedStaysOut == mirror \cap removed = {}
=============================================================================
