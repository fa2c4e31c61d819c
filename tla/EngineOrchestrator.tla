-------------------------- MODULE EngineOrchestrator --------------------------
(***************************************************************************)
(* createRecommendationEngineOrchestrator for one subject.  The durable    *)
(* state store holds the log of accepted events; the engine caches it with *)
(* a ledger built from it and keeps the profile store equal to the active  *)
(* signals.  Calls for a subject are serialized (SubjectSerializer), so at *)
(* most one is in flight; between two of its awaits the process may crash, *)
(* and every await may reject, with or without having taken effect.        *)
(*                                                                         *)
(* A profile is the set of signals it aggregates.  The state store and the *)
(* profile store are interfaces: a crash loses the engine's own maps and   *)
(* may lose the profile (the repository's replacement store is in memory). *)
(***************************************************************************)
EXTENDS LedgerOps, SequencesExt

CONSTANTS Batches,      \* the event sequences process is called with
          Disallowed,   \* sources whose privacy boundary the profile store refuses
          AllowEmptySubjectInitialization,
          ProfileMayBeLost, \* the profile store does not survive a crash
          MaxTime,      \* bound on the clock
          MaxFailures,  \* bound on crashes and rejected awaits
          NoState, NoLedger, Idle

ASSUME EngineAssumption ==
  /\ \A b \in Batches : b \in Seq(Events)
  /\ AllowEmptySubjectInitialization \in BOOLEAN /\ ProfileMayBeLost \in BOOLEAN
  /\ MaxTime \in Nat /\ MaxFailures \in Nat

VARIABLES durable,    \* what stateStore.load returns
          cached,     \* states.get(id)
          ledger,     \* ledgers.get(id)
          profile,    \* the signals in the profile store
          call,       \* the call in flight, or Idle
          clock,
          failures,   \* crashes and rejections so far
          acked,      \* history: events of process calls that returned
          ackedDelete \* history: deleteSubject has returned

vars == <<durable, cached, ledger, profile, call, clock, failures, acked, ackedDelete>>
stores == <<durable, cached, ledger, profile>>
history == <<acked, ackedDelete>>

EmptyState == [events |-> <<>>, deleted |-> FALSE]
Barrier == [events |-> <<>>, deleted |-> TRUE]

ASSUME SentinelAssumption == NoState \notin [events : Seq(Events), deleted : BOOLEAN]

(* buildLedger                                                             *)
Replay(events) == IngestBatch(EmptyLedger, events)

NewCall(op, phase, b, now) ==
  [op |-> op, phase |-> phase, batch |-> b, now |-> now,
   next |-> NoState, ledger |-> NoLedger]

Init ==
  /\ durable \in {NoState, EmptyState}
  /\ cached = NoState /\ ledger = NoLedger /\ profile = {}
  /\ call = Idle /\ clock = 0 /\ failures = 0
  /\ acked = {} /\ ackedDelete = FALSE
-----------------------------------------------------------------------------
(* A call is made.  Its "now" is resolved before it waits for its turn, or *)
(* given by the caller: it may lie behind the clock when the work begins.  *)
Begin(c) ==
  /\ call = Idle
  /\ call' = c
  /\ UNCHANGED <<stores, clock, failures, history>>

BeginProcess(b, now) == Begin(NewCall("process", "loading", b, now))
BeginSynchronize(now) == Begin(NewCall("synchronize", "loading", <<>>, now))
BeginLedgerSnapshot == Begin(NewCall("snapshot", "loading", <<>>, clock))
BeginRead == Begin(NewCall("read", "reading", <<>>, clock))
BeginDelete ==
  Begin([NewCall("delete", "saving", <<>>, clock) EXCEPT !.next = Barrier])

Return ==
  /\ call' = Idle
  /\ acked' = IF call.op = "process" THEN acked \cup ToSet(call.batch) ELSE acked
  /\ ackedDelete' = (ackedDelete \/ call.op = "delete")

Throws == call' = Idle /\ UNCHANGED history

InPhase(p) == call # Idle /\ call.phase = p

MayFail == failures < MaxFailures /\ failures' = failures + 1
-----------------------------------------------------------------------------
(* loadState throws for a subject that has no state.                       *)
Missing == cached = NoState /\ durable = NoState /\ ~AllowEmptySubjectInitialization

\* Mutant of LoadedState: a restart begins with an empty log.
LoadedStateIgnoringStore ==
  IF cached # NoState THEN cached ELSE EmptyState

(* The cached state, or else the stored one, or else an empty one.         *)
LoadedState ==
  IF cached # NoState THEN cached
  ELSE IF durable # NoState THEN durable
  ELSE EmptyState

LoadedLedger == IF cached # NoState THEN ledger ELSE Replay(LoadedState.events).ledger

(* A state that cannot be replayed is not cached: buildLedger throws.      *)
Loads ==
  /\ InPhase("loading") /\ ~Missing
  /\ cached = NoState => ~Replay(LoadedState.events).refused
  /\ cached' = LoadedState

LoadThrows ==
  /\ InPhase("loading")
  /\ Missing \/ (cached = NoState /\ Replay(LoadedState.events).refused)
  /\ Throws
  /\ UNCHANGED <<stores, clock, failures>>

LoadRejects ==
  /\ InPhase("loading") /\ cached = NoState /\ MayFail
  /\ Throws
  /\ UNCHANGED <<stores, clock>>

(* requireActiveState: the deletion replay barrier stops the call.         *)
Barred ==
  /\ Loads /\ LoadedState.deleted
  /\ ledger' = LoadedLedger
  /\ Throws
  /\ UNCHANGED <<durable, profile, clock, failures>>

\* Mutant of Candidate: the batch is ingested without the history.
CandidateWithoutHistory == IngestBatch(EmptyLedger, call.batch)

(* The whole batch is validated on a candidate built from the log.         *)
Candidate == IngestBatch(Replay(LoadedState.events).ledger, call.batch)

BatchRefused ==
  /\ Loads /\ ~LoadedState.deleted /\ call.op = "process"
  /\ Candidate.refused
  /\ ledger' = LoadedLedger
  /\ Throws
  /\ UNCHANGED <<durable, profile, clock, failures>>

BatchAccepted ==
  /\ Loads /\ ~LoadedState.deleted /\ call.op = "process"
  /\ ~Candidate.refused
  /\ ledger' = LoadedLedger
  /\ call' = [call EXCEPT !.phase = "saving", !.ledger = Candidate.ledger,
                !.next = [events |-> LoadedState.events \o Candidate.fresh, deleted |-> FALSE]]
  /\ UNCHANGED <<durable, profile, clock, failures, history>>

(* synchronize and readLedgerSnapshot use the cached ledger.               *)
CurrentLedger ==
  IF LoadedLedger # NoLedger THEN LoadedLedger ELSE Replay(LoadedState.events).ledger

SynchronizeLoaded ==
  /\ Loads /\ ~LoadedState.deleted /\ call.op = "synchronize"
  /\ ledger' = CurrentLedger
  /\ call' = [call EXCEPT !.phase = "applying", !.ledger = CurrentLedger]
  /\ UNCHANGED <<durable, profile, clock, failures, history>>

SnapshotLoaded ==
  /\ Loads /\ ~LoadedState.deleted /\ call.op = "snapshot"
  /\ ledger' = CurrentLedger
  /\ Return
  /\ UNCHANGED <<durable, profile, clock, failures>>
-----------------------------------------------------------------------------
\* Mutant of AfterSave: the ledger of the old log stays in the map.
AfterSaveWithOldLedger ==
  /\ cached' = call.next
  /\ ledger' = IF call.op = "delete" THEN NoLedger ELSE ledger
  /\ call' = [call EXCEPT !.phase = IF call.op = "delete" THEN "erasing" ELSE "applying"]

\* Mutant of AfterSave: a deletion leaves the engine's own maps as they were.
AfterSaveKeepingCache ==
  IF call.op = "delete"
  THEN UNCHANGED <<cached, ledger>> /\ call' = [call EXCEPT !.phase = "erasing"]
  ELSE /\ cached' = call.next /\ ledger' = call.ledger
       /\ call' = [call EXCEPT !.phase = "applying"]

(* What follows stateStore.save: the maps are updated and the profile is   *)
(* brought in line.                                                        *)
AfterSave ==
  /\ cached' = call.next
  /\ ledger' = IF call.op = "delete" THEN NoLedger ELSE call.ledger
  /\ call' = [call EXCEPT !.phase = IF call.op = "delete" THEN "erasing" ELSE "applying"]

Save ==
  /\ InPhase("saving")
  /\ durable' = call.next
  /\ AfterSave
  /\ UNCHANGED <<profile, clock, failures, history>>

(* save rejects; the store may have been written all the same.             *)
SaveRejects ==
  /\ InPhase("saving") /\ MayFail
  /\ durable' \in {durable, call.next}
  /\ Throws
  /\ UNCHANGED <<cached, ledger, profile, clock>>

(* application.synchronize: replaceSignals with the signals active at the  *)
(* call's time.  One signal outside the allowed boundaries refuses all.    *)
Projection == ActiveAt(call.ledger, call.now)

RefusedByProfileStore == \E a \in Projection : a.source \in Disallowed

Apply ==
  /\ InPhase("applying") /\ ~RefusedByProfileStore
  /\ profile' = Projection
  /\ Return
  /\ UNCHANGED <<durable, cached, ledger, clock, failures>>

ApplyRefused ==
  /\ InPhase("applying") /\ RefusedByProfileStore
  /\ Throws
  /\ UNCHANGED <<stores, clock, failures>>

ApplyRejects ==
  /\ InPhase("applying") /\ ~RefusedByProfileStore /\ MayFail
  /\ profile' \in {profile, Projection}
  /\ Throws
  /\ UNCHANGED <<durable, cached, ledger, clock>>

(* profileStore.deleteProfile, the last step of deleteSubject.             *)
Erase ==
  /\ InPhase("erasing")
  /\ profile' = {}
  /\ Return
  /\ UNCHANGED <<durable, cached, ledger, clock, failures>>

EraseRejects ==
  /\ InPhase("erasing") /\ MayFail
  /\ profile' \in {profile, {}}
  /\ Throws
  /\ UNCHANGED <<durable, cached, ledger, clock>>

(* pruneExpiredEntries: the signals for one target make one entry, which    *)
(* expires with the last of them.                                          *)
Unexpired(p, now) == {a \in p : \E b \in p : b.target = a.target /\ b.expires > now}

(* readProfile drops the expired entries from the store it reads.          *)
Read ==
  /\ InPhase("reading")
  /\ profile' = Unexpired(profile, clock)
  /\ Return
  /\ UNCHANGED <<durable, cached, ledger, clock, failures>>

ReadRejects ==
  /\ InPhase("reading") /\ MayFail
  /\ Throws
  /\ UNCHANGED <<stores, clock>>

(* The process dies and is started again.                                  *)
Crash ==
  /\ MayFail
  /\ cached' = NoState /\ ledger' = NoLedger
  /\ profile' \in IF ProfileMayBeLost THEN {profile, {}} ELSE {profile}
  /\ call' = Idle
  /\ UNCHANGED <<durable, clock, history>>

Tick ==
  /\ clock < MaxTime
  /\ clock' = clock + 1
  /\ UNCHANGED <<stores, call, failures, history>>

(* One await of the call in flight completes.                              *)
Progress ==
  \/ LoadThrows \/ Barred \/ BatchRefused \/ BatchAccepted
  \/ SynchronizeLoaded \/ SnapshotLoaded
  \/ Save \/ Apply \/ ApplyRefused \/ Erase \/ Read

Rejection == LoadRejects \/ SaveRejects \/ ApplyRejects \/ EraseRejects \/ ReadRejects

Request ==
  \/ \E b \in Batches, now \in 0 .. clock : BeginProcess(b, now)
  \/ \E now \in 0 .. clock : BeginSynchronize(now)
  \/ BeginLedgerSnapshot \/ BeginRead \/ BeginDelete

Next == Request \/ Progress \/ Rejection \/ Crash \/ Tick

Spec == Init /\ [][Next]_vars

(* Stores answer, if only by rejecting, and some client goes on calling    *)
(* synchronize with the current time.                                      *)
Fairness == WF_vars(Progress) /\ SF_vars(BeginSynchronize(clock)) /\ WF_vars(Tick)

FairSpec == Spec /\ Fairness
-----------------------------------------------------------------------------
TypeOK ==
  /\ durable = NoState \/ (durable.events \in Seq(Events) /\ durable.deleted \in BOOLEAN)
  /\ cached = NoState \/ (cached.events \in Seq(Events) /\ cached.deleted \in BOOLEAN)
  /\ profile \subseteq Applies
  /\ clock \in 0 .. MaxTime /\ failures \in 0 .. MaxFailures
  /\ acked \subseteq Events /\ ackedDelete \in BOOLEAN

(* A process call that returned is never undone: its events are in the     *)
(* stored log, through crashes and through saves that rejected after       *)
(* writing, until the subject is deleted.                                  *)
AcknowledgedEventsAreDurable ==
  acked # {} => durable # NoState /\ (durable.deleted \/ acked \subseteq ToSet(durable.events))

(* Once a retraction has been acknowledged, no later call, replay or       *)
(* restart brings the retracted signal back into the profile.              *)
RetractedSignalStaysOut ==
  \A t \in acked : IsRetract(t) => \A a \in profile : a.source # t.source

(* Once deleteSubject has returned, the event history stays empty, the     *)
(* replay barrier stays in place and the profile stays empty, whatever is  *)
(* replayed and however often the process restarts.                        *)
DeletionIsFinal == ackedDelete => durable = Barrier /\ profile = {}

(* Whatever was saved can be replayed: a restart never meets a log that    *)
(* buildLedger refuses, and no event is stored twice.                      *)
LogReplays ==
  durable # NoState => /\ ~Replay(durable.events).refused
                       /\ IsInjective(durable.events)

(* The cached ledger is the one its cached log describes.                  *)
LedgerMatchesLog ==
  cached # NoState /\ ledger # NoLedger => ledger = Replay(cached.events).ledger

(* The log the engine goes by.                                             *)
CurrentLog == IF cached # NoState THEN cached ELSE durable

InLine ==
  CurrentLog # NoState /\ ~CurrentLog.deleted =>
    LET active == ActiveAt(Replay(CurrentLog.events).ledger, clock)
    IN  profile = active \/ \E a \in active : a.source \in Disallowed

(* A profile left behind by a failed application, a crash or a call with   *)
(* an old time is brought in line with the log again: recovery needs no    *)
(* more than a client that synchronizes.                                   *)
ProfileCatchesUp == []<>InLine
=============================================================================
