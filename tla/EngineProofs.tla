----------------------------- MODULE EngineProofs -----------------------------
(***************************************************************************)
(* Proofs about EngineOrchestrator, for any events, batches, bounds and    *)
(* kinds of store, and about DerivedState, for any list of targets.        *)
(*                                                                         *)
(* Deletion: the barrier is written before the profile is erased, both     *)
(* maps forget or repeat the barrier, and a call that finds the barrier    *)
(* never gets past loading, so nothing is left that could write another    *)
(* log or another profile.                                                 *)
(*                                                                         *)
(* The log: every log stored, loaded or about to be saved replays, and it is *)
(* extended one event at a time (LogInv, on the lemmas of LedgerOpsProofs). *)
(*                                                                         *)
(* Derived state: an operation reaches the engine only with an empty       *)
(* journal (RecoveryFirst), and a deletion task in its second phase exists *)
(* only after the engine's deletion has returned and with every target     *)
(* either pending or clean (TaskSound).                                    *)
(***************************************************************************)
EXTENDS DerivedState, LedgerOpsProofs

(* The call in flight is a record with the fields of NewCall.               *)
IsCall(c) ==
  c = [op |-> c.op, phase |-> c.phase, batch |-> c.batch, now |-> c.now,
       next |-> c.next, ledger |-> c.ledger]

(* The shape of the call in flight.                                         *)
CallOK == call # Idle => IsCall(call)

(* A deletion goes from saving the barrier to erasing the profile, and no   *)
(* other call erases.                                                      *)
DeletionPhases ==
  call # Idle =>
    /\ call.op = "delete" => call.phase \in {"saving", "erasing"} /\ call.next = Barrier
    /\ call.phase = "erasing" => call.op = "delete"

(* While it erases, the barrier is in the store and in the engine's map.    *)
BarrierBeforeErasing ==
  call # Idle /\ call.phase = "erasing" => durable = Barrier /\ cached = Barrier

(* After it has returned, only calls that have not yet seen the barrier and *)
(* further deletions are in flight.                                        *)
NothingGetsPast ==
  ackedDelete =>
    /\ durable = Barrier /\ cached \in {NoState, Barrier} /\ profile = {}
    /\ call # Idle => call.phase \in {"loading", "reading"} \/ call.op = "delete"

(* The inductive invariant of deletion.                                     *)
IInv == CallOK /\ DeletionPhases /\ BarrierBeforeErasing /\ NothingGetsPast

(* The sentinel of an absent state is no state.                             *)
LEMMA NoStateIsNoState == NoState # EmptyState /\ NoState # Barrier
<1>1. EmptyState \in [events : Seq(Events), deleted : BOOLEAN]
  BY DEF EmptyState
<1>2. Barrier \in [events : Seq(Events), deleted : BOOLEAN]
  BY DEF Barrier
<1> QED BY <1>1, <1>2, SentinelAssumption

USE NoStateIsNoState
-----------------------------------------------------------------------------
(* Nothing was deleted at the start.                                        *)
LEMMA InitIInv == Init => IInv
BY DEF Init, IInv, CallOK, DeletionPhases, BarrierBeforeErasing, NothingGetsPast

(* A new call loads, reads or saves the barrier.                            *)
Opening(c) ==
  /\ IsCall(c) /\ c.phase \in {"loading", "reading", "saving"}
  /\ c.phase = "saving" => c.op = "delete"
  /\ c.op = "delete" => c.phase = "saving" /\ c.next = Barrier

(* The phases in which a call begins.                                       *)
LEMMA OpeningCalls ==
  /\ \A b, now : /\ BeginProcess(b, now) => Opening(call') /\ call'.op # "delete" /\ Begin(call')
                 /\ BeginSynchronize(now) => Opening(call') /\ call'.op # "delete" /\ Begin(call')
  /\ BeginLedgerSnapshot => Opening(call') /\ Begin(call')
  /\ BeginRead => Opening(call') /\ call'.op # "delete" /\ Begin(call')
  /\ BeginDelete => Opening(call') /\ call'.op = "delete" /\ Begin(call')
BY DEF BeginProcess, BeginSynchronize, BeginLedgerSnapshot, BeginRead, BeginDelete, Begin,
   NewCall, IsCall, Opening

(* A call that begins has not got past loading.                             *)
LEMMA BeginIInv == ASSUME IInv, Begin(call'), Opening(call') PROVE IInv'
BY DEF IInv, CallOK, DeletionPhases, BarrierBeforeErasing, NothingGetsPast, Begin, Opening,
   stores, history

(* Whatever is called begins that way.                                      *)
LEMMA RequestIInv == ASSUME IInv, Request PROVE IInv'
BY OpeningCalls, BeginIInv DEF Request

(* Once the deletion has returned, what is loaded is the barrier.           *)
LEMMA LoadedBarrier ==
  ASSUME NothingGetsPast, ackedDelete PROVE LoadedState = Barrier /\ LoadedState.deleted
<1>1. LoadedState = Barrier
  BY DEF NothingGetsPast, LoadedState
<1>2. Barrier.deleted
  BY DEF Barrier
<1> QED BY <1>1, <1>2

(* A step of a call that loads and goes on: it is not a deletion, and no    *)
(* deletion has returned.                                                  *)
LEMMA LoadedIInv ==
  ASSUME IInv, BatchAccepted \/ SynchronizeLoaded \/ SnapshotLoaded PROVE IInv'
<1>1. ~ackedDelete
  BY LoadedBarrier DEF IInv, BatchAccepted, SynchronizeLoaded, SnapshotLoaded
<1>2. /\ call # Idle /\ IsCall(call)
      /\ call.op \in {"process", "synchronize", "snapshot"}
  BY DEF IInv, CallOK, BatchAccepted, SynchronizeLoaded, SnapshotLoaded, Loads, InPhase
<1>3. CASE SnapshotLoaded
  BY <1>1, <1>2, <1>3 DEF SnapshotLoaded, Return, IInv, CallOK, DeletionPhases,
     BarrierBeforeErasing, NothingGetsPast
<1>4. CASE BatchAccepted \/ SynchronizeLoaded
  <2>1. /\ IsCall(call') /\ call'.op = call.op /\ call'.phase \in {"saving", "applying"}
        /\ UNCHANGED ackedDelete
    BY <1>2, <1>4 DEF BatchAccepted, SynchronizeLoaded, IsCall, history
  <2> QED
    BY <1>1, <1>2, <2>1 DEF IInv, CallOK, DeletionPhases, BarrierBeforeErasing, NothingGetsPast
<1> QED BY <1>3, <1>4

(* A call that ends before it has written anything.                         *)
LEMMA EndsEarlyIInv ==
  ASSUME IInv, LoadThrows \/ Barred \/ BatchRefused \/ LoadRejects \/ ReadRejects \/ ApplyRefused
  PROVE  IInv'
<1>1. /\ call' = Idle /\ UNCHANGED <<durable, profile, ackedDelete>>
      /\ cached' \in {cached, LoadedState}
  BY DEF LoadThrows, Barred, BatchRefused, LoadRejects, ReadRejects, ApplyRefused, Throws, Loads,
     stores, history
<1>2. ackedDelete => LoadedState = Barrier
  BY LoadedBarrier DEF IInv
<1> QED
  BY <1>1, <1>2 DEF IInv, CallOK, DeletionPhases, BarrierBeforeErasing, NothingGetsPast

(* The save of a deletion writes the barrier; another save happens only     *)
(* while no deletion has returned.                                         *)
LEMMA SaveIInv == ASSUME IInv, Save \/ SaveRejects PROVE IInv'
<1>1. /\ call # Idle /\ IsCall(call) /\ call.phase = "saving"
      /\ call.op = "delete" => call.next = Barrier
      /\ ackedDelete => call.op = "delete"
  BY DEF IInv, CallOK, DeletionPhases, NothingGetsPast, Save, SaveRejects, InPhase
<1>2. CASE SaveRejects
  BY <1>1, <1>2 DEF SaveRejects, Throws, history, IInv, CallOK, DeletionPhases,
     BarrierBeforeErasing, NothingGetsPast
<1>3. CASE Save
  <2>1. /\ durable' = call.next /\ cached' = call.next /\ UNCHANGED <<profile, ackedDelete>>
        /\ call'.phase = IF call.op = "delete" THEN "erasing" ELSE "applying"
        /\ call'.op = call.op /\ call'.next = call.next /\ IsCall(call')
    BY <1>1, <1>3 DEF Save, AfterSave, IsCall, history
  <2> QED
    BY <1>1, <2>1 DEF IInv, CallOK, DeletionPhases, BarrierBeforeErasing, NothingGetsPast
<1> QED BY <1>2, <1>3

(* The profile is written by a call that is not a deletion only while no    *)
(* deletion has returned; a deletion returns with an empty profile.        *)
LEMMA ProfileIInv ==
  ASSUME IInv, Apply \/ ApplyRejects \/ Erase \/ EraseRejects \/ Read
  PROVE  IInv'
<1>1. call # Idle /\ call' = Idle /\ UNCHANGED <<durable, cached>>
  BY DEF Apply, ApplyRejects, Erase, EraseRejects, Read, InPhase, Return, Throws
<1>2. CASE Apply \/ ApplyRejects
  <2>1. call.phase = "applying" /\ call.op # "delete" /\ ~ackedDelete
    BY <1>1, <1>2 DEF Apply, ApplyRejects, InPhase, IInv, DeletionPhases, NothingGetsPast
  <2>2. ~ackedDelete'
    BY <1>2, <2>1 DEF Apply, ApplyRejects, Return, Throws, history
  <2> QED
    BY <1>1, <2>2 DEF IInv, CallOK, DeletionPhases, BarrierBeforeErasing, NothingGetsPast
<1>3. CASE Erase \/ EraseRejects
  <2>1. /\ durable = Barrier /\ cached = Barrier /\ profile' \in {profile, {}}
        /\ profile' = {} \/ UNCHANGED ackedDelete
    BY <1>3 DEF Erase, EraseRejects, InPhase, Throws, history, IInv, BarrierBeforeErasing
  <2> QED
    BY <1>1, <2>1 DEF IInv, CallOK, DeletionPhases, BarrierBeforeErasing, NothingGetsPast
<1>4. CASE Read
  <2>1. call.op # "delete" /\ (profile = {} => profile' = {})
    BY <1>1, <1>4 DEF Read, Unexpired, InPhase, IInv, DeletionPhases
  <2>2. ackedDelete' <=> ackedDelete
    BY <1>4, <2>1 DEF Read, Return
  <2> QED
    BY <1>1, <2>1, <2>2 DEF IInv, CallOK, DeletionPhases, BarrierBeforeErasing, NothingGetsPast
<1> QED BY <1>2, <1>3, <1>4

(* A crash forgets the maps, never the store.                               *)
LEMMA OutsideIInv == ASSUME IInv, Crash \/ Tick \/ UNCHANGED vars PROVE IInv'
<1>1. CASE Crash
  BY <1>1 DEF Crash, history, IInv, CallOK, DeletionPhases, BarrierBeforeErasing, NothingGetsPast
<1>2. CASE Tick \/ UNCHANGED vars
  BY <1>2 DEF Tick, vars, stores, history, IInv, CallOK, DeletionPhases, BarrierBeforeErasing,
     NothingGetsPast, IsCall
<1> QED BY <1>1, <1>2
-----------------------------------------------------------------------------
(* The strengthened invariant holds in every reachable state.               *)
THEOREM EngineInvariant == Spec => []IInv
<1>1. IInv /\ [Next]_vars => IInv'
  <2> SUFFICES ASSUME IInv, [Next]_vars PROVE IInv'
    OBVIOUS
  <2> QED
    BY RequestIInv, LoadedIInv, EndsEarlyIInv, SaveIInv, ProfileIInv, OutsideIInv
    DEF Next, Progress, Rejection
<1> QED BY InitIInv, <1>1, PTL DEF Spec

(* A deletion that has returned is never undone: the log stays the barrier  *)
(* and the profile stays empty through every later call, rejected await    *)
(* and restart (deleteSubject, requireActiveState).                        *)
THEOREM EngineDeletionIsFinal == Spec => []DeletionIsFinal
<1>1. IInv => DeletionIsFinal
  BY DEF IInv, NothingGetsPast, DeletionIsFinal
<1> QED BY EngineInvariant, <1>1, PTL
-----------------------------------------------------------------------------
(* The log.  Every state that is stored, cached or about to be saved has a  *)
(* log that replays as it stands (GoodLog); the ledgers that are kept are   *)
(* the ones those logs describe; and none of these logs has lost an         *)
(* acknowledged event, unless it is the barrier.                           *)

(* A log of which every event was accepted, none as a duplicate.            *)
GoodLog(log) ==
  /\ log \in Seq(Events)
  /\ ~Replay(log).refused /\ Replay(log).fresh = log

(* A state has lost none of these events, or is the barrier.                *)
Holds(st, es) == st.deleted \/ es \subseteq EventsIn(st.events)

(* The logs that are stored and cached replay.                              *)
LogsReplay ==
  /\ durable # NoState => GoodLog(durable.events)
  /\ cached # NoState => GoodLog(cached.events)

(* They hold every event that was acknowledged.                             *)
NothingLost ==
  /\ acked \subseteq Events
  /\ durable # NoState => Holds(durable, acked)
  /\ cached # NoState => Holds(cached, acked)
  /\ acked # {} => durable # NoState

(* What a process call is about to save: the log with its batch.            *)
SavingOK ==
  call # Idle /\ call.phase = "saving" /\ call.op # "delete" =>
    /\ call.op = "process"
    /\ GoodLog(call.next.events) /\ call.next \in [events : Seq(Events), deleted : {FALSE}]
    /\ call.ledger = Replay(call.next.events).ledger
    /\ acked \cup EventsIn(call.batch) \subseteq EventsIn(call.next.events)

(* What a call is about to apply is the ledger of the cached log, which for *)
(* a process call has been stored.                                         *)
ApplyingOK ==
  call # Idle /\ call.phase = "applying" =>
    /\ cached # NoState /\ ~cached.deleted
    /\ call.ledger = Replay(cached.events).ledger
    /\ call.op = "process" =>
         durable = cached /\ EventsIn(call.batch) \subseteq EventsIn(cached.events)

(* The other calls acknowledge no events.                                   *)
ProcessPhases ==
  call # Idle =>
    /\ call.batch \in Seq(Events)
    /\ call.op = "process" => call.phase \in {"loading", "saving", "applying"}
    /\ call.op = "delete" => call.phase \in {"saving", "erasing"} /\ call.next = Barrier

(* The inductive invariant of the log.                                      *)
LogInv ==
  /\ CallOK /\ ProcessPhases
  /\ LogsReplay /\ LedgerMatchesLog /\ NothingLost
  /\ SavingOK /\ ApplyingOK
  /\ RetractedSignalStaysOut

(* What the ledger of a log that replays is.                                *)
LEMMA GoodLogFacts ==
  ASSUME NEW log, GoodLog(log)
  PROVE  /\ Replays(log, Replay(log).ledger)
         /\ LedgerOK(Replay(log).ledger)
         /\ Replay(log).ledger.operations = EventsIn(log)
         /\ NoRepeats(log)
<1> DEFINE r == IngestBatch(EmptyLedger, log)
<1>1. Accumulated(EmptyLedger, r)
  BY EmptyLedgerOK, BatchAccumulates DEF GoodLog
<1>2. r.fresh = log /\ ~r.refused /\ r = Replay(log)
  BY DEF GoodLog, Replay
<1>3. r = [ledger |-> r.ledger, fresh |-> log, refused |-> FALSE]
  BY <1>1, <1>2 DEF Accumulated
<1>4. EmptyLedger.operations = {}
  BY DEF EmptyLedger
<1> HIDE DEF r
<1> QED BY <1>1, <1>2, <1>3, <1>4 DEF Accumulated, Replays, r

(* A log that replays to a ledger is good, and its ledger is that one.      *)
LEMMA ReplayedIsGood ==
  ASSUME NEW log \in Seq(Events), NEW l, Replays(log, l)
  PROVE  GoodLog(log) /\ Replay(log).ledger = l
<1>1. Replay(log) = [ledger |-> l, fresh |-> log, refused |-> FALSE]
  BY DEF Replays, Replay
<1> QED BY <1>1 DEF GoodLog

(* The logs of a new subject and of the barrier are empty.                  *)
LEMMA EmptyLogsAreGood == GoodLog(EmptyState.events) /\ GoodLog(Barrier.events)
<1>1. GoodLog(<<>>)
  <2>1. <<>> \in Seq(Events)
    OBVIOUS
  <2> QED BY <2>1, EmptyReplays, ReplayedIsGood
<1>2. EmptyState.events = <<>> /\ Barrier.events = <<>>
  BY DEF EmptyState, Barrier
<1> QED BY <1>1, <1>2

(* The log a batch is appended to stays good, and holds the batch.          *)
LEMMA AcceptedLog ==
  ASSUME NEW log, GoodLog(log), NEW es \in Seq(Events), NEW r,
         r = IngestBatch(Replay(log).ledger, es), ~r.refused
  PROVE  /\ GoodLog(log \o r.fresh) /\ Replay(log \o r.fresh).ledger = r.ledger
         /\ EventsIn(log) \cup EventsIn(es) \subseteq EventsIn(log \o r.fresh)
<1> DEFINE l == Replay(log).ledger
           next == log \o r.fresh
<1>1. Replays(log, l) /\ LedgerOK(l) /\ l.operations = EventsIn(log)
  BY GoodLogFacts
<1>2. Accumulated(l, r) /\ EventsIn(es) \subseteq r.ledger.operations
  BY <1>1, BatchAccumulates
<1>3. Replays(next, r.ledger)
  BY <1>1, LogExtends DEF GoodLog
<1>4. next \in Seq(Events)
  <2>1. log \in Seq(Events) /\ r.fresh \in Seq(Events)
    BY <1>2 DEF Accumulated, GoodLog
  <2> QED BY <2>1
<1> HIDE DEF next, l
<1>5. GoodLog(next) /\ Replay(next).ledger = r.ledger
  BY <1>3, <1>4, ReplayedIsGood
<1>6. r.ledger.operations = EventsIn(next)
  BY <1>5, GoodLogFacts
<1>7. EventsIn(log) \subseteq r.ledger.operations
  BY <1>1, <1>2 DEF Accumulated
<1> QED BY <1>2, <1>5, <1>6, <1>7 DEF next

(* No retracted signal is projected from a good log.                        *)
LEMMA ProjectsNoRetracted ==
  ASSUME NEW log, GoodLog(log), NEW t \in EventsIn(log), IsRetract(t), NEW now,
         NEW a \in ActiveAt(Replay(log).ledger, now)
  PROVE  a.source # t.source
<1> DEFINE l == Replay(log).ledger
<1>1. LedgerOK(l) /\ t \in l.operations /\ a \in l.active
  BY GoodLogFacts DEF ActiveAt
<1> HIDE DEF l
<1> QED BY <1>1 DEF LedgerOK, ActiveExact, RetractedIn
-----------------------------------------------------------------------------
(* There is no log at the start.                                            *)
LEMMA InitLogInv == Init => LogInv
BY EmptyLogsAreGood DEF Init, LogInv, CallOK, ProcessPhases, LogsReplay, LedgerMatchesLog,
   NothingLost, SavingOK, ApplyingOK, RetractedSignalStaysOut, Holds

(* A call that begins has done nothing to the log.                          *)
LEMMA RequestLogInv == ASSUME LogInv, Request PROVE LogInv'
<1>1. /\ Begin(call') /\ Opening(call') /\ call'.batch \in Seq(Events)
      /\ call'.op = "process" => call'.phase = "loading"
  <2>1. Begin(call') /\ Opening(call')
    BY OpeningCalls DEF Request
  <2>2. /\ call'.batch = <<>> \/ call'.batch \in Batches
        /\ call'.op = "process" => call'.phase = "loading"
    BY DEF Request, BeginProcess, BeginSynchronize, BeginLedgerSnapshot, BeginRead, BeginDelete,
       Begin, NewCall
  <2>3. call'.batch \in Seq(Events)
    <3>1. call'.batch \in Batches => call'.batch \in Seq(Events)
      BY EngineAssumption
    <3>2. <<>> \in Seq(Events)
      OBVIOUS
    <3> QED BY <2>2, <3>1, <3>2
  <2> QED BY <2>1, <2>2, <2>3
<1> QED
  BY <1>1 DEF LogInv, CallOK, ProcessPhases, LogsReplay, LedgerMatchesLog, NothingLost, SavingOK,
     ApplyingOK, RetractedSignalStaysOut, Begin, Opening, stores, history

(* The state a call loads is a good log that has lost nothing.              *)
LEMMA LoadedIsGood ==
  ASSUME LogInv, ~Missing
  PROVE  /\ GoodLog(LoadedState.events) /\ Holds(LoadedState, acked) /\ LoadedState # NoState
         /\ cached # NoState => LoadedState = cached
         /\ LoadedLedger # NoLedger => LoadedLedger = Replay(LoadedState.events).ledger
BY EmptyLogsAreGood DEF LogInv, LogsReplay, NothingLost, LedgerMatchesLog, LoadedState, LoadedLedger,
   Holds

(* A call that returns or throws before it saves leaves the logs alone.     *)
LEMMA EndsEarlyLogInv ==
  ASSUME LogInv, LoadThrows \/ Barred \/ BatchRefused \/ LoadRejects \/ ReadRejects \/ ApplyRefused
  PROVE  LogInv'
<1>1. call' = Idle /\ UNCHANGED <<durable, profile, acked>>
  BY DEF LoadThrows, Barred, BatchRefused, LoadRejects, ReadRejects, ApplyRefused, Throws, stores,
     history
<1>2. CASE UNCHANGED <<cached, ledger>>
  BY <1>1, <1>2 DEF LogInv, CallOK, ProcessPhases, LogsReplay, LedgerMatchesLog, NothingLost, SavingOK,
     ApplyingOK, RetractedSignalStaysOut
<1>3. CASE cached' = LoadedState /\ ledger' = LoadedLedger /\ ~Missing
  BY <1>1, <1>3, LoadedIsGood DEF LogInv, CallOK, ProcessPhases, LogsReplay, LedgerMatchesLog,
     NothingLost, SavingOK, ApplyingOK, RetractedSignalStaysOut
<1>4. CASE LoadThrows \/ LoadRejects \/ ReadRejects \/ ApplyRefused
  BY <1>2, <1>4 DEF LoadThrows, LoadRejects, ReadRejects, ApplyRefused, stores
<1>5. CASE Barred \/ BatchRefused
  BY <1>3, <1>5 DEF Barred, BatchRefused, Loads
<1> QED BY <1>4, <1>5

(* A call that has loaded extends the log that was loaded by what is fresh  *)
(* of its batch.                                                            *)
LEMMA LoadedLogInv ==
  ASSUME LogInv, BatchAccepted \/ SynchronizeLoaded \/ SnapshotLoaded PROVE LogInv'
<1>1. /\ call # Idle /\ IsCall(call) /\ call.batch \in Seq(Events) /\ ~Missing
      /\ cached' = LoadedState /\ ~LoadedState.deleted /\ UNCHANGED <<durable, profile>>
  BY DEF LogInv, CallOK, ProcessPhases, BatchAccepted, SynchronizeLoaded, SnapshotLoaded, Loads, InPhase
<1>2. /\ GoodLog(LoadedState.events) /\ Holds(LoadedState, acked) /\ LoadedState # NoState
      /\ LoadedLedger # NoLedger => LoadedLedger = Replay(LoadedState.events).ledger
  BY <1>1, LoadedIsGood
<1>3. CurrentLedger = Replay(LoadedState.events).ledger
  BY <1>2 DEF CurrentLedger
<1>4. ledger' \in {LoadedLedger, CurrentLedger} /\ UNCHANGED acked
  BY DEF BatchAccepted, SynchronizeLoaded, SnapshotLoaded, Return, history
<1>5. (LogsReplay /\ LedgerMatchesLog /\ NothingLost /\ RetractedSignalStaysOut)'
  BY <1>1, <1>2, <1>3, <1>4 DEF LogInv, LogsReplay, LedgerMatchesLog, NothingLost,
     RetractedSignalStaysOut
<1>6. (CallOK /\ ProcessPhases /\ SavingOK /\ ApplyingOK)'
  <2>1. CASE SnapshotLoaded
    BY <2>1 DEF SnapshotLoaded, Return, CallOK, ProcessPhases, SavingOK, ApplyingOK
  <2>2. CASE SynchronizeLoaded
    <3>1. call' = [op |-> "synchronize", phase |-> "applying", batch |-> call.batch, now |-> call.now,
                   next |-> call.next, ledger |-> Replay(LoadedState.events).ledger]
      BY <1>1, <1>3, <2>2 DEF SynchronizeLoaded, IsCall
    <3> QED BY <1>1, <1>2, <3>1 DEF CallOK, IsCall, ProcessPhases, SavingOK, ApplyingOK
  <2>3. CASE BatchAccepted
    <3> DEFINE log == LoadedState.events \o Candidate.fresh
    <3>1. call' = [op |-> "process", phase |-> "saving", batch |-> call.batch, now |-> call.now,
                   next |-> [events |-> log, deleted |-> FALSE], ledger |-> Candidate.ledger]
      BY <1>1, <2>3 DEF BatchAccepted, IsCall
    <3>2. /\ GoodLog(log) /\ Replay(log).ledger = Candidate.ledger
          /\ EventsIn(LoadedState.events) \cup EventsIn(call.batch) \subseteq EventsIn(log)
      BY <1>1, <1>2, <2>3, AcceptedLog DEF BatchAccepted, Candidate
    <3>3. acked \subseteq EventsIn(LoadedState.events)
      BY <1>1, <1>2 DEF Holds
    <3>4. log \in Seq(Events)
      BY <3>2 DEF GoodLog
    <3> HIDE DEF log
    <3> QED BY <1>1, <1>4, <3>1, <3>2, <3>3, <3>4 DEF CallOK, IsCall, ProcessPhases, SavingOK, ApplyingOK
  <2> QED BY <2>1, <2>2, <2>3
<1> QED BY <1>5, <1>6 DEF LogInv

(* Whether a save is written or rejected, what is cached and stored         *)
(* replays.                                                                 *)
LEMMA SaveLogInv == ASSUME LogInv, Save \/ SaveRejects PROVE LogInv'
<1>1. /\ call # Idle /\ IsCall(call) /\ call.phase = "saving" /\ call.batch \in Seq(Events)
      /\ UNCHANGED <<profile, acked>>
  BY DEF LogInv, CallOK, ProcessPhases, Save, SaveRejects, InPhase, Throws, history
<1>2. GoodLog(call.next.events) /\ Holds(call.next, acked) /\ call.next # NoState
  <2>1. CASE call.op = "delete"
    BY <1>1, <2>1, EmptyLogsAreGood DEF LogInv, ProcessPhases, Holds, Barrier
  <2>2. CASE call.op # "delete"
    BY <1>1, <2>2, SentinelAssumption DEF LogInv, SavingOK, Holds
  <2> QED BY <2>1, <2>2
<1>3. CASE SaveRejects
  BY <1>1, <1>2, <1>3 DEF SaveRejects, Throws, LogInv, CallOK, ProcessPhases, LogsReplay,
     LedgerMatchesLog, NothingLost, SavingOK, ApplyingOK, RetractedSignalStaysOut
<1>4. CASE Save
  <2>1. /\ durable' = call.next /\ cached' = call.next
        /\ ledger' = IF call.op = "delete" THEN NoLedger ELSE call.ledger
    BY <1>4 DEF Save, AfterSave
  <2>2. call' = [op |-> call.op, phase |-> IF call.op = "delete" THEN "erasing" ELSE "applying",
                 batch |-> call.batch, now |-> call.now, next |-> call.next, ledger |-> call.ledger]
    BY <1>1, <1>4 DEF Save, AfterSave, IsCall
  <2>3. (LogsReplay /\ LedgerMatchesLog /\ NothingLost /\ RetractedSignalStaysOut)'
    BY <1>1, <1>2, <2>1 DEF LogInv, LogsReplay, LedgerMatchesLog, NothingLost, SavingOK,
       RetractedSignalStaysOut
  <2>4. (CallOK /\ ProcessPhases /\ SavingOK /\ ApplyingOK)'
    <3>1. CASE call.op = "delete"
      BY <1>1, <2>2, <3>1 DEF LogInv, CallOK, IsCall, ProcessPhases, SavingOK, ApplyingOK
    <3>2. CASE call.op # "delete"
      BY <1>1, <1>2, <2>1, <2>2, <3>2 DEF LogInv, CallOK, IsCall, ProcessPhases, SavingOK, ApplyingOK
    <3> QED BY <3>1, <3>2
  <2> QED BY <2>3, <2>4 DEF LogInv
<1> QED BY <1>3, <1>4

(* The profile is written from the ledger of a log that holds every         *)
(* acknowledged event, those of the call that writes it included.           *)
LEMMA ApplyLogInv == ASSUME LogInv, Apply \/ ApplyRejects PROVE LogInv'
<1>1. /\ call # Idle /\ call.phase = "applying" /\ call' = Idle
      /\ UNCHANGED <<durable, cached, ledger>>
  BY DEF Apply, ApplyRejects, InPhase, Return, Throws
<1>2. /\ cached # NoState /\ ~cached.deleted /\ GoodLog(cached.events)
      /\ acked \subseteq EventsIn(cached.events)
      /\ Projection = ActiveAt(Replay(cached.events).ledger, call.now)
  BY <1>1 DEF LogInv, ApplyingOK, LogsReplay, NothingLost, Holds, Projection
<1>3. EventsIn(cached.events) \subseteq Events
  BY <1>2 DEF GoodLog, EventsIn
<1>4. \A t \in EventsIn(cached.events) : IsRetract(t) => \A a \in Projection : a.source # t.source
  BY <1>2, ProjectsNoRetracted
<1>5. /\ acked' \subseteq EventsIn(cached.events)
      /\ profile' = Projection \/ (profile' = profile /\ acked' = acked)
      /\ acked' = acked \/ durable = cached
  <2>1. CASE Apply
    <3>1. ToSet(call.batch) = EventsIn(call.batch)
      BY DEF ToSet, EventsIn, LogInv, ProcessPhases
    <3> QED BY <1>1, <1>2, <2>1, <3>1 DEF Apply, Return, LogInv, ApplyingOK
  <2>2. CASE ApplyRejects
    BY <1>2, <2>2 DEF ApplyRejects, Throws, history
  <2> QED BY <2>1, <2>2
<1>6. (LogsReplay /\ LedgerMatchesLog)'
  BY <1>1 DEF LogInv, LogsReplay, LedgerMatchesLog
<1>7. NothingLost'
  BY <1>1, <1>2, <1>3, <1>5 DEF LogInv, NothingLost, Holds
<1>8. RetractedSignalStaysOut'
  BY <1>4, <1>5 DEF LogInv, RetractedSignalStaysOut
<1> QED
  BY <1>1, <1>6, <1>7, <1>8 DEF LogInv, CallOK, ProcessPhases, SavingOK, ApplyingOK

(* Erasing and reading only take signals out of the profile.                *)
LEMMA ShrinkLogInv ==
  ASSUME LogInv, Erase \/ EraseRejects \/ Read \/ Crash \/ Tick \/ UNCHANGED vars PROVE LogInv'
<1>1. profile' \subseteq profile /\ UNCHANGED <<durable, acked>>
  <2>1. Erase \/ Read => call.op # "process"
    BY DEF LogInv, ProcessPhases, Erase, Read, InPhase
  <2> QED BY <2>1 DEF Erase, EraseRejects, Read, Crash, Tick, vars, stores, history, Return, Throws,
          Unexpired
<1>2. /\ UNCHANGED <<cached, ledger>> \/ cached' = NoState
      /\ call' = Idle \/ UNCHANGED <<cached, call>>
  BY DEF Erase, EraseRejects, Read, Crash, Tick, vars, stores, Return, Throws
<1>3. (LogsReplay /\ LedgerMatchesLog /\ NothingLost /\ RetractedSignalStaysOut)'
  BY <1>1, <1>2 DEF LogInv, LogsReplay, LedgerMatchesLog, NothingLost, RetractedSignalStaysOut
<1>4. (CallOK /\ ProcessPhases /\ SavingOK /\ ApplyingOK)'
  BY <1>1, <1>2 DEF LogInv, CallOK, ProcessPhases, SavingOK, ApplyingOK
<1> QED BY <1>3, <1>4 DEF LogInv

(* Every log the engine stores, caches or is about to save replays and      *)
(* holds what was acknowledged.                                            *)
THEOREM EngineLogInvariant == Spec => []LogInv
<1>1. LogInv /\ [Next]_vars => LogInv'
  <2> SUFFICES ASSUME LogInv, [Next]_vars PROVE LogInv'
    OBVIOUS
  <2> QED
    BY RequestLogInv, EndsEarlyLogInv, LoadedLogInv, SaveLogInv, ApplyLogInv, ShrinkLogInv
    DEF Next, Progress, Rejection
<1> QED BY InitLogInv, <1>1, PTL DEF Spec

(* What was acknowledged is in the stored log until the subject is deleted, *)
(* also after saves that rejected and restarts (processSignals, saveState). *)
THEOREM EngineAcknowledgedEventsAreDurable == Spec => []AcknowledgedEventsAreDurable
<1>1. LogInv => AcknowledgedEventsAreDurable
  <2>1. ASSUME LogInv, durable # NoState PROVE ToSet(durable.events) = EventsIn(durable.events)
    BY <2>1 DEF LogInv, LogsReplay, GoodLog, ToSet, EventsIn
  <2> QED BY <2>1 DEF LogInv, NothingLost, Holds, AcknowledgedEventsAreDurable
<1> QED BY EngineLogInvariant, <1>1, PTL

(* An acknowledged retraction keeps its signal out of the profile, whatever *)
(* is replayed, projected or restarted later.                              *)
THEOREM EngineRetractedSignalStaysOut == Spec => []RetractedSignalStaysOut
<1>1. LogInv => RetractedSignalStaysOut
  BY DEF LogInv
<1> QED BY EngineLogInvariant, <1>1, PTL

(* buildLedger accepts every log that was ever stored, and no event is      *)
(* stored twice: a restart cannot fail on the engine's own log.             *)
THEOREM EngineLogReplays == Spec => []LogReplays
<1>1. LogInv => LogReplays
  <2>1. ASSUME LogInv, durable # NoState
        PROVE  ~Replay(durable.events).refused /\ IsInjective(durable.events)
    <3>1. GoodLog(durable.events) /\ NoRepeats(durable.events)
      BY <2>1, GoodLogFacts DEF LogInv, LogsReplay
    <3> QED BY <3>1 DEF GoodLog, NoRepeats, IsInjective
  <2> QED BY <2>1 DEF LogReplays
<1> QED BY EngineLogInvariant, <1>1, PTL

-------------------------------------------------------------------------------
(* DerivedState                                                              *)

(* The targets of an invalidation.                                          *)
TargetSet == ToSet(Targets)

(* The shape of a task.                                                     *)
IsTask(t) ==
  /\ t = [phase |-> t.phase, deletion |-> t.deletion, digest |-> t.digest,
          pending |-> t.pending]
  /\ t.phase \in {"engine_deletion_pending", "derived_invalidation_pending"}
  /\ t.deletion \in BOOLEAN
  /\ t.pending \in Seq(TargetSet)

(* The shape of a call of the orchestrator.                                 *)
IsDCall(c) ==
  /\ c = [op |-> c.op, phase |-> c.phase, batch |-> c.batch, now |-> c.now,
          work |-> c.work, recovered |-> c.recovered]
  /\ c.recovered \in BOOLEAN

(* A target holds nothing of a deleted subject.                             *)
Clean(t) == caches[t] \in {Nothing, {}}

(* The engine's deletion has returned, and what is not pending is clean.    *)
TaskSound(w) ==
  w.deletion /\ w.phase = "derived_invalidation_pending" =>
    ackedDelete /\ \A t \in TargetSet : t \notin ToSet(w.pending) => Clean(t)

(* The phases in which a call holds a task.                                 *)
TaskWork == {"journaling", "draining", "closing", "deleting"}

(* The shapes of what is stored and in flight.                              *)
Shapes ==
  /\ caches = [t \in TargetSet |-> caches[t]]
  /\ task # NoTask => IsTask(task)
  /\ dcall # AtRest => IsDCall(dcall)
  /\ dcall # AtRest /\ dcall.phase \in TaskWork => IsTask(dcall.work)

(* The engine is inside a call of the orchestrator's or idle.               *)
EngineInside == call # Idle => dcall # AtRest /\ dcall.phase = "called"

(* Nothing but a deletion reaches the engine while a task is journaled.     *)
RecoveryFirst ==
  /\ dcall # AtRest /\ dcall.phase = "calling" => task = NoTask
  /\ call # Idle /\ call.op # "delete" => task = NoTask

(* A deletion task that is journaled or worked on is sound.                 *)
TasksSound ==
  /\ task # NoTask => TaskSound(task)
  /\ dcall # AtRest /\ dcall.phase \in TaskWork => TaskSound(dcall.work)
  /\ dcall # AtRest /\ dcall.phase \in {"draining", "closing"} =>
       dcall.work.phase = "derived_invalidation_pending"
  /\ dcall # AtRest /\ dcall.phase = "closing" => dcall.work.pending = <<>>

(* deleteSubject works on a deletion task and nothing else.                 *)
DeleteWorks ==
  dcall # AtRest /\ dcall.op = "delete" =>
    /\ dcall.phase # "comparing"
    /\ ~dcall.recovered /\ dcall.phase \in TaskWork => dcall.work.deletion

(* A deletion that returned has reached every target.                       *)
DoneIsDone == deletionDone => ackedDelete /\ \A t \in TargetSet : Clean(t)

(* The invariant of the propagation.                                        *)
Propagation ==
  Shapes /\ EngineInside /\ RecoveryFirst /\ TasksSound /\ DeleteWorks /\ DoneIsDone

(* The inductive invariant of the orchestrator over its engine.             *)
DIInv == IInv /\ Propagation

USE NoStateIsNoState

(* A call in flight is told from none by its phase.                         *)
LEMMA InFlight == \A c : c.phase # "at rest" => c # AtRest
<1>1. AtRest.phase = "at rest"
  BY DEF AtRest
<1> QED BY <1>1
-----------------------------------------------------------------------------
(* What is pending is the next target and the rest.                         *)
LEMMA HeadAndRest ==
  ASSUME NEW S, NEW s \in Seq(S), s # <<>>
  PROVE  Tail(s) \in Seq(S) /\ Head(s) \in S /\ ToSet(s) = {Head(s)} \cup ToSet(Tail(s))
<1>1. Tail(s) \in Seq(S) /\ Len(s) \in Nat \ {0} /\ Head(s) = s[1] /\ 1 \in 1 .. Len(s)
  OBVIOUS
<1>2. DOMAIN s = 1 .. Len(s) /\ DOMAIN Tail(s) = 1 .. Len(s) - 1
  BY <1>1
<1>3. \A i \in 1 .. Len(s) - 1 : Tail(s)[i] = s[i + 1]
  BY <1>1
<1>4. \A i \in 1 .. Len(s) : i = 1 \/ i - 1 \in 1 .. Len(s) - 1
  BY <1>1
<1>5. ToSet(s) \subseteq {Head(s)} \cup ToSet(Tail(s))
  <2>1. SUFFICES ASSUME NEW i \in 1 .. Len(s), i # 1 PROVE s[i] \in ToSet(Tail(s))
    BY <1>1, <1>2 DEF ToSet
  <2>2. i - 1 \in 1 .. Len(s) - 1 /\ Tail(s)[i - 1] = s[i]
    BY <2>1, <1>1, <1>3, <1>4
  <2> QED BY <2>2, <1>2 DEF ToSet
<1>6. {Head(s)} \cup ToSet(Tail(s)) \subseteq ToSet(s)
  BY <1>1, <1>2, <1>3 DEF ToSet
<1> QED BY <1>1, <1>5, <1>6

LEMMA EmptyHasNone == ToSet(<<>>) = {}
BY DEF ToSet
-----------------------------------------------------------------------------
LEMMA InitDIInv == DInit => DIInv
BY InitIInv
DEF DInit, DIInv, Propagation, Shapes, EngineInside, RecoveryFirst, TasksSound, DeleteWorks, DoneIsDone, Init,
    TargetSet
-----------------------------------------------------------------------------
(* The engine's own invariant, preserved by the engine's steps and not      *)
(* touched by the orchestrator's.                                          *)
LEMMA QuietIInv == ASSUME IInv, Quiet PROVE IInv'
BY DEF Quiet, stores, history, IInv, CallOK, DeletionPhases, BarrierBeforeErasing,
   NothingGetsPast, IsCall

LEMMA CalledIInv == ASSUME IInv, CallEngine \/ CallEngineDelete PROVE IInv'
<1>1. Opening(call') /\ Begin(call')
  BY OpeningCalls DEF CallEngine, CallEngineDelete
<1> QED BY <1>1, BeginIInv

LEMMA EngineStepIInv ==
  ASSUME IInv, EngineContinues \/ EngineThrows \/ EngineReturns PROVE IInv'
BY LoadedIInv, EndsEarlyIInv, SaveIInv, ProfileIInv
DEF EngineContinues, EngineThrows, EngineReturns, Rejection

(* A step of the orchestrator at one of its awaits is quiet for the engine. *)
OwnStep ==
  \/ Recover \/ Unchanged \/ Changed \/ Journal \/ Invalidate \/ Checkpoint
  \/ CloseRecovered \/ Close \/ Rejects

LEMMA OwnStepQuiet == OwnStep => Quiet /\ call = Idle /\ dcall # AtRest
BY DEF OwnStep, Recover, Unchanged, Changed, Journal, Invalidate, Checkpoint,
   CloseRecovered, Close, Rejects, At

(* No step takes back that a deletion has returned.                         *)
LEMMA EngineAckStays ==
  ASSUME IInv, EngineContinues \/ EngineThrows PROVE ackedDelete' = ackedDelete
BY DEF EngineContinues, EngineThrows, BatchAccepted, SynchronizeLoaded, Save, LoadThrows, Barred,
   BatchRefused, ApplyRefused, Rejection, LoadRejects, SaveRejects, ApplyRejects, EraseRejects,
   ReadRejects, Throws, history
-----------------------------------------------------------------------------
(* What the orchestrator's steps do to the invariant, one lemma for each.   *)

LEMMA BeginKeeps ==
  ASSUME DIInv, NEW op, NEW b, NEW now, DBegin(op, b, now) PROVE Propagation'
<1>1. call = Idle
  BY DEF DIInv, Propagation, EngineInside, DBegin
<1>2. /\ dcall' = [op |-> op, phase |-> "recovering", batch |-> b, now |-> now,
                   work |-> NoTask, recovered |-> FALSE]
      /\ UNCHANGED <<task, caches, call, ackedDelete, deletionDone>>
  BY DEF DBegin, vars, dhistory
<1>3. IsDCall(dcall') /\ dcall'.phase = "recovering"
  BY <1>2 DEF IsDCall
<1> QED
  BY <1>1, <1>2, <1>3 DEF DIInv, Propagation, Shapes, EngineInside, RecoveryFirst, TasksSound,
     DeleteWorks, DoneIsDone, TaskWork, TaskSound, Clean, IsTask

LEMMA RecoverKeeps == ASSUME DIInv, Recover PROVE Propagation'
<1>1. /\ dcall # AtRest /\ IsDCall(dcall) /\ call = Idle /\ call' = Idle
      /\ UNCHANGED <<task, caches, ackedDelete, deletionDone>>
  BY DEF DIInv, Propagation, Shapes, Recover, At, Quiet, history, dhistory
<1>2. CASE task = NoTask
  <2>1. IsDCall(dcall') /\ dcall'.phase = "calling"
    BY <1>1, <1>2 DEF Recover, AfterRecovery, IsDCall
  <2> QED
    BY <1>1, <1>2, <2>1 DEF DIInv, Propagation, Shapes, EngineInside, RecoveryFirst, TasksSound,
       DeleteWorks, DoneIsDone, TaskWork, TaskSound, Clean, IsTask
<1>3. CASE task # NoTask
  <2>1. /\ IsDCall(dcall') /\ dcall'.phase = ResumeAt(task) /\ dcall'.work = task
        /\ dcall'.recovered
    BY <1>1, <1>3 DEF Recover, AfterRecovery, IsDCall
  <2>2. IsTask(task) /\ TaskSound(task)
    BY <1>3 DEF DIInv, Propagation, Shapes, TasksSound
  <2>3. \/ task.phase = "engine_deletion_pending" /\ dcall'.phase = "deleting"
        \/ task.phase = "derived_invalidation_pending" /\ dcall'.phase = "draining"
    BY <2>1, <2>2 DEF ResumeAt, IsTask
  <2> QED
    BY <1>1, <2>1, <2>2, <2>3 DEF DIInv, Propagation, Shapes, EngineInside, RecoveryFirst,
       TasksSound, DeleteWorks, DoneIsDone, TaskWork, TaskSound, Clean, IsTask
<1> QED BY <1>2, <1>3

LEMMA CallKeeps == ASSUME DIInv, CallEngine \/ CallEngineDelete PROVE Propagation'
<1>1. /\ dcall # AtRest /\ IsDCall(dcall) /\ dcall' = [dcall EXCEPT !.phase = "called"]
      /\ UNCHANGED <<task, caches, deletionDone>>
  BY DEF DIInv, Propagation, Shapes, CallEngine, CallEngineDelete, At, dhistory
<1>2. IsDCall(dcall') /\ dcall'.phase = "called" /\ dcall'.op = dcall.op
  BY <1>1 DEF IsDCall
<1>3. call'.op # "delete" => task = NoTask
  BY OpeningCalls DEF DIInv, Propagation, RecoveryFirst, CallEngine, CallEngineDelete, At
<1>4. UNCHANGED ackedDelete
  BY OpeningCalls DEF CallEngine, CallEngineDelete, Begin, history
<1> QED
  BY <1>1, <1>2, <1>3, <1>4, InFlight DEF DIInv, Propagation, Shapes, EngineInside, RecoveryFirst,
     TasksSound, DeleteWorks, DoneIsDone, TaskWork, TaskSound, Clean, IsTask

LEMMA EngineContinuesKeeps == ASSUME DIInv, EngineContinues PROVE Propagation'
<1>1. /\ call # Idle /\ IsCall(call)
      /\ UNCHANGED <<task, caches, dcall, deletionDone, ackedDelete>>
  BY EngineAckStays DEF DIInv, IInv, CallOK, EngineContinues, BatchAccepted, SynchronizeLoaded, Loads, Save,
     InPhase, dhistory
<1>2. call'.op = call.op
  BY <1>1 DEF EngineContinues, BatchAccepted, SynchronizeLoaded, Save, AfterSave, IsCall
<1> QED
  BY <1>1, <1>2 DEF DIInv, Propagation, Shapes, EngineInside, RecoveryFirst, TasksSound,
     DeleteWorks, DoneIsDone, TaskWork, TaskSound, Clean, IsTask, IsDCall

LEMMA EngineThrowsKeeps == ASSUME DIInv, EngineThrows PROVE Propagation'
<1>1. call' = Idle /\ dcall' = AtRest /\ UNCHANGED <<task, caches, deletionDone, ackedDelete>>
  BY EngineAckStays DEF DIInv, EngineThrows, DThrows, LoadThrows, Barred, BatchRefused, ApplyRefused, Rejection,
     LoadRejects, SaveRejects, ApplyRejects, EraseRejects, ReadRejects, Throws, dhistory
<1> QED
  BY <1>1 DEF DIInv, Propagation, Shapes, EngineInside, RecoveryFirst, TasksSound,
     DeleteWorks, DoneIsDone, TaskWork, TaskSound, Clean, IsTask
(* When the engine's deletion returns, all targets are pending; when its    *)
(* read returns to deleteSubject, the deletion is yet to be journaled.      *)
LEMMA EngineReturnsKeeps == ASSUME DIInv, EngineReturns PROVE Propagation'
<1>1. /\ call # Idle /\ call' = Idle /\ dcall # AtRest /\ IsDCall(dcall)
      /\ ackedDelete => ackedDelete'
      /\ call.op = "delete" => ackedDelete'
      /\ UNCHANGED <<task, caches, deletionDone>>
  BY DEF DIInv, Propagation, Shapes, EngineReturns, Apply, Read, Erase, Return, InPhase, dhistory
<1>2. Targets \in Seq(TargetSet) /\ <<>> \in Seq(TargetSet)
  BY DerivedAssumption DEF TargetSet
<1>3. CASE call.op = "delete"
  <2>1. /\ IsDCall(dcall') /\ dcall'.phase = "journaling" /\ dcall'.op = dcall.op
        /\ dcall'.work = DerivedTask(TRUE, dcall.work.digest)
    BY <1>1, <1>3 DEF EngineReturns, IsDCall
  <2>2. /\ IsTask(dcall'.work) /\ dcall'.work.deletion /\ ToSet(dcall'.work.pending) = TargetSet
    BY <1>2, <2>1 DEF DerivedTask, IsTask, TargetSet
  <2> QED
    BY <1>1, <1>3, <2>1, <2>2, InFlight DEF DIInv, Propagation, Shapes, EngineInside,
       RecoveryFirst, TasksSound, DeleteWorks, DoneIsDone, TaskWork, TaskSound, Clean
<1>4. CASE call.op # "delete" /\ dcall.op = "delete"
  <2>1. /\ IsDCall(dcall') /\ dcall'.phase = "journaling" /\ dcall'.op = dcall.op
        /\ dcall'.work = DeletionTask(profile')
    BY <1>1, <1>4 DEF EngineReturns, IsDCall
  <2>2. /\ IsTask(dcall'.work) /\ dcall'.work.deletion
        /\ dcall'.work.phase = "engine_deletion_pending"
    BY <1>2, <2>1 DEF DeletionTask, IsTask
  <2> QED
    BY <1>1, <1>4, <2>1, <2>2 DEF DIInv, Propagation, Shapes, EngineInside,
       RecoveryFirst, TasksSound, DeleteWorks, DoneIsDone, TaskWork, TaskSound, Clean
<1>5. CASE call.op # "delete" /\ dcall.op # "delete"
  <2>1. IsDCall(dcall') /\ dcall'.phase = "comparing" /\ dcall'.op = dcall.op
    BY <1>1, <1>5 DEF EngineReturns, IsDCall
  <2> QED
    BY <1>1, <1>5, <2>1 DEF DIInv, Propagation, Shapes, EngineInside,
       RecoveryFirst, TasksSound, DeleteWorks, DoneIsDone, TaskWork, TaskSound, Clean
<1> QED BY <1>3, <1>4, <1>5
-----------------------------------------------------------------------------
LEMMA ComparedKeeps == ASSUME DIInv, Unchanged \/ Changed PROVE Propagation'
<1>1. /\ dcall # AtRest /\ IsDCall(dcall) /\ call = Idle /\ call' = Idle
      /\ dcall.op # "delete"
      /\ UNCHANGED <<task, caches, ackedDelete>>
  BY DEF DIInv, Propagation, Shapes, DeleteWorks, Unchanged, Changed, At, Quiet, history
<1>2. CASE Unchanged
  <2>1. dcall' = AtRest /\ (deletionDone' => deletionDone)
    BY <1>1, <1>2 DEF Unchanged, DReturn
  <2> QED
    BY <1>1, <2>1 DEF DIInv, Propagation, Shapes, EngineInside, RecoveryFirst,
       TasksSound, DeleteWorks, DoneIsDone, TaskWork, TaskSound, Clean, IsTask
<1>3. CASE Changed
  <2>1. /\ IsDCall(dcall') /\ dcall'.phase = "journaling" /\ dcall'.op = dcall.op
        /\ dcall'.work = DerivedTask(FALSE, profile) /\ UNCHANGED deletionDone
    BY <1>1, <1>3 DEF Changed, IsDCall, dhistory
  <2>2. IsTask(dcall'.work) /\ ~dcall'.work.deletion
    BY <2>1, DerivedAssumption DEF DerivedTask, IsTask, TargetSet
  <2> QED
    BY <1>1, <2>1, <2>2 DEF DIInv, Propagation, Shapes, EngineInside, RecoveryFirst,
       TasksSound, DeleteWorks, DoneIsDone, TaskWork, TaskSound, Clean
<1> QED BY <1>2, <1>3

LEMMA JournalKeeps == ASSUME DIInv, Journal PROVE Propagation'
<1>1. /\ dcall # AtRest /\ IsDCall(dcall) /\ call = Idle /\ call' = Idle
      /\ dcall.phase = "journaling" /\ task' = dcall.work
      /\ UNCHANGED <<caches, ackedDelete, deletionDone>>
  BY DEF DIInv, Propagation, Shapes, Journal, At, Quiet, history, dhistory
<1>2. /\ IsDCall(dcall') /\ dcall'.op = dcall.op /\ dcall'.work = dcall.work
      /\ dcall'.recovered = dcall.recovered /\ dcall'.phase = ResumeAt(dcall.work)
  BY <1>1 DEF Journal, IsDCall
<1>3. IsTask(dcall.work) /\ TaskSound(dcall.work)
  BY <1>1 DEF DIInv, Propagation, Shapes, TasksSound, TaskWork
<1>4. \/ dcall.work.phase = "engine_deletion_pending" /\ dcall'.phase = "deleting"
      \/ dcall.work.phase = "derived_invalidation_pending" /\ dcall'.phase = "draining"
  BY <1>2, <1>3 DEF ResumeAt, IsTask
<1> QED
  BY <1>1, <1>2, <1>3, <1>4 DEF DIInv, Propagation, Shapes, EngineInside, RecoveryFirst,
     TasksSound, DeleteWorks, DoneIsDone, TaskWork, TaskSound, Clean, IsTask

(* The target that is no longer pending has just been emptied.              *)
LEMMA InvalidateKeeps == ASSUME DIInv, Invalidate PROVE Propagation'
<1> DEFINE w == dcall.work
<1>1. /\ dcall # AtRest /\ IsDCall(dcall) /\ call = Idle /\ call' = Idle
      /\ dcall.phase = "draining" /\ w.pending # <<>>
      /\ caches = [t \in TargetSet |-> caches[t]]
      /\ UNCHANGED <<task, ackedDelete, deletionDone>>
  BY DEF DIInv, Propagation, Shapes, Invalidate, At, Quiet, history, dhistory
<1>2. IsTask(w) /\ TaskSound(w)
  BY <1>1 DEF DIInv, Propagation, Shapes, TasksSound, TaskWork
<1>3. /\ Tail(w.pending) \in Seq(TargetSet) /\ Head(w.pending) \in TargetSet
      /\ ToSet(w.pending) = {Head(w.pending)} \cup ToSet(Tail(w.pending))
  BY <1>1, <1>2, HeadAndRest DEF IsTask
<1>4. /\ IsDCall(dcall') /\ dcall'.op = dcall.op /\ dcall'.phase = "journaling"
      /\ dcall'.recovered = dcall.recovered
      /\ dcall'.work = [w EXCEPT !.pending = Tail(w.pending)]
  BY <1>1 DEF Invalidate, RestOf, IsDCall
<1>5. /\ IsTask(dcall'.work) /\ dcall'.work.pending = Tail(w.pending)
      /\ dcall'.work.deletion = w.deletion /\ dcall'.work.phase = w.phase
  BY <1>2, <1>3, <1>4 DEF IsTask
<1>6. /\ caches' = [t \in TargetSet |-> caches'[t]] /\ caches'[Head(w.pending)] = Nothing
      /\ \A t \in TargetSet : caches'[t] \in {caches[t], Nothing}
  <2>1. caches' = [caches EXCEPT ![Head(w.pending)] = Nothing]
    BY DEF Invalidate
  <2> QED BY <1>1, <1>3, <2>1
<1>7. TaskSound(dcall.work)'
  BY <1>1, <1>2, <1>3, <1>5, <1>6 DEF TaskSound, Clean
<1>8. task # NoTask => TaskSound(task)'
  BY <1>1, <1>6 DEF DIInv, Propagation, TasksSound, TaskSound, Clean
<1> QED
  BY <1>1, <1>4, <1>5, <1>6, <1>7, <1>8 DEF DIInv, Propagation, Shapes, EngineInside,
     RecoveryFirst, TasksSound, DeleteWorks, DoneIsDone, TaskWork, Clean, IsTask

LEMMA CheckpointKeeps == ASSUME DIInv, Checkpoint PROVE Propagation'
<1>1. /\ dcall # AtRest /\ IsDCall(dcall) /\ call = Idle /\ call' = Idle
      /\ dcall.phase = "draining" /\ dcall.work.pending = <<>>
      /\ UNCHANGED <<task, caches, ackedDelete, deletionDone>>
  BY DEF DIInv, Propagation, Shapes, Checkpoint, At, Quiet, history, dhistory
<1>2. /\ IsDCall(dcall') /\ dcall'.op = dcall.op /\ dcall'.work = dcall.work
      /\ dcall'.recovered = dcall.recovered /\ dcall'.phase = "closing"
  BY <1>1 DEF Checkpoint, IsDCall
<1> QED
  BY <1>1, <1>2 DEF DIInv, Propagation, Shapes, EngineInside, RecoveryFirst,
     TasksSound, DeleteWorks, DoneIsDone, TaskWork, TaskSound, Clean, IsTask

(* What is closed has nothing pending: deleteSubject returns with every     *)
(* target clean.                                                           *)
LEMMA ClosedKeeps == ASSUME DIInv, CloseRecovered \/ Close PROVE Propagation'
<1>1. /\ dcall # AtRest /\ IsDCall(dcall) /\ call = Idle /\ call' = Idle
      /\ dcall.phase = "closing" /\ task' = NoTask
      /\ UNCHANGED <<caches, ackedDelete>>
  BY DEF DIInv, Propagation, Shapes, CloseRecovered, Close, At, Quiet, history
<1>2. CASE CloseRecovered
  <2>1. /\ IsDCall(dcall') /\ dcall'.op = dcall.op /\ dcall'.phase = "calling"
        /\ UNCHANGED deletionDone
    BY <1>1, <1>2 DEF CloseRecovered, IsDCall, dhistory
  <2> QED
    BY <1>1, <2>1 DEF DIInv, Propagation, Shapes, EngineInside, RecoveryFirst,
       TasksSound, DeleteWorks, DoneIsDone, TaskWork, TaskSound, Clean, IsTask
<1>3. CASE Close
  <2>1. dcall' = AtRest /\ (deletionDone' => deletionDone \/ dcall.op = "delete")
    BY <1>3 DEF Close, DReturn
  <2>2. dcall.op = "delete" => ackedDelete /\ \A t \in TargetSet : Clean(t)
    <3>1. /\ TaskSound(dcall.work) /\ dcall.work.pending = <<>>
          /\ dcall.work.phase = "derived_invalidation_pending"
          /\ dcall.op = "delete" => dcall.work.deletion
      BY <1>1, <1>3 DEF DIInv, Propagation, TasksSound, DeleteWorks, TaskWork, Close, IsDCall
    <3> QED BY <3>1, EmptyHasNone DEF TaskSound
  <2> QED
    BY <1>1, <2>1, <2>2 DEF DIInv, Propagation, Shapes, EngineInside, RecoveryFirst,
       TasksSound, DeleteWorks, DoneIsDone, TaskWork, TaskSound, Clean, IsTask
<1> QED BY <1>2, <1>3

(* A rejected await may have written the task at hand, removed it or        *)
(* emptied a cache; each of these leaves a sound journal.                   *)
LEMMA RejectsKeeps == ASSUME DIInv, Rejects PROVE Propagation'
<1>1. /\ dcall # AtRest /\ call = Idle /\ call' = Idle /\ dcall' = AtRest
      /\ caches = [t \in TargetSet |-> caches[t]]
      /\ UNCHANGED <<ackedDelete, deletionDone>>
  BY DEF DIInv, Propagation, Shapes, Rejects, DThrows, Quiet, history, dhistory
<1>2. \/ task' = task \/ task' = NoTask
      \/ task' = dcall.work /\ IsTask(dcall.work) /\ TaskSound(dcall.work)
  BY <1>1 DEF DIInv, Propagation, Shapes, TasksSound, TaskWork, Rejects, At
<1>3. /\ caches' = [t \in TargetSet |-> caches'[t]]
      /\ \A t \in TargetSet : caches'[t] \in {caches[t], Nothing}
  <2>1. \/ caches' = caches
        \/ caches' = [caches EXCEPT ![Head(dcall.work.pending)] = Nothing]
    BY DEF Rejects
  <2> QED BY <1>1, <2>1
<1>4. task' # NoTask => IsTask(task') /\ TaskSound(task)'
  <2>1. task' # NoTask => IsTask(task') /\ TaskSound(task')
    BY <1>2 DEF DIInv, Propagation, Shapes, TasksSound
  <2> QED BY <1>1, <1>3, <2>1 DEF TaskSound, Clean
<1> QED
  BY <1>1, <1>3, <1>4 DEF DIInv, Propagation, Shapes, EngineInside, RecoveryFirst,
     TasksSound, DeleteWorks, DoneIsDone, Clean, IsTask

LEMMA CrashKeeps == ASSUME DIInv, DCrash PROVE Propagation'
<1>1. /\ call' = Idle /\ dcall' = AtRest
      /\ UNCHANGED <<task, caches, ackedDelete, deletionDone>>
  BY DEF DCrash, Crash, history, dhistory
<1> QED
  BY <1>1 DEF DIInv, Propagation, Shapes, EngineInside, RecoveryFirst,
     TasksSound, DeleteWorks, DoneIsDone, TaskSound, Clean, IsTask

(* Once the deletion has returned a cache is filled from an empty profile.  *)
LEMMA OutsideKeeps ==
  ASSUME DIInv, DTick \/ UNCHANGED allVars \/ \E t \in TargetSet : Fill(t)
  PROVE  Propagation'
<1>1. UNCHANGED <<call, dcall, task, ackedDelete, deletionDone>>
  BY DEF DTick, Tick, Fill, vars, allVars, dhistory, history
<1>2. /\ caches' = [t \in TargetSet |-> caches'[t]]
      /\ ackedDelete => \A t \in TargetSet : Clean(t) => caches'[t] \in {Nothing, {}}
  <2>1. CASE UNCHANGED caches
    BY <2>1 DEF DIInv, Propagation, Shapes, Clean
  <2>2. CASE \E t \in TargetSet : Fill(t)
    <3>1. PICK t \in TargetSet : Fill(t)
      BY <2>2
    <3>2. caches' = [caches EXCEPT ![t] = profile] /\ (ackedDelete => profile = {})
      BY <3>1 DEF Fill, DIInv, IInv, NothingGetsPast
    <3> QED BY <3>2 DEF DIInv, Propagation, Shapes, Clean
  <2> QED BY <2>1, <2>2 DEF DTick, allVars
<1> QED
  BY <1>1, <1>2 DEF DIInv, Propagation, Shapes, EngineInside, RecoveryFirst,
     TasksSound, DeleteWorks, DoneIsDone, TaskWork, TaskSound, Clean, IsTask, IsDCall
-----------------------------------------------------------------------------
LEMMA StepIInv == ASSUME IInv, [DNext]_allVars PROVE IInv'
<1>1. CASE \E op, b, now : DBegin(op, b, now)
  BY <1>1, OutsideIInv DEF DBegin
<1>2. CASE OwnStep
  BY <1>2, OwnStepQuiet, QuietIInv
<1>3. CASE DTick \/ DCrash \/ UNCHANGED allVars \/ \E t \in TargetSet : Fill(t)
  BY <1>3, OutsideIInv DEF DTick, DCrash, Fill, allVars
<1> QED
  BY <1>1, <1>2, <1>3, CalledIInv, EngineStepIInv
  DEF DNext, DRequest, DProgress, OwnStep, TargetSet

LEMMA StepPropagation == ASSUME DIInv, [DNext]_allVars PROVE Propagation'
BY BeginKeeps, RecoverKeeps, CallKeeps, EngineContinuesKeeps, EngineThrowsKeeps,
   EngineReturnsKeeps, ComparedKeeps, JournalKeeps, InvalidateKeeps, CheckpointKeeps,
   ClosedKeeps, RejectsKeeps, CrashKeeps, OutsideKeeps
DEF DNext, DRequest, DProgress, TargetSet

(* The strengthened invariant holds in every reachable state.               *)
THEOREM DerivedInvariant == DSpec => []DIInv
<1>1. DIInv /\ [DNext]_allVars => DIInv'
  BY StepIInv, StepPropagation DEF DIInv
<1> QED BY InitDIInv, <1>1, PTL DEF DSpec

(* Once deleteSubject has returned, the log is the barrier, the profile is  *)
(* empty and no cache holds anything derived from the old one, through      *)
(* every later call, rejected await and restart (startDeletion,             *)
(* resumeTask, drainDerived).                                              *)
THEOREM DerivedDeletionReachesCaches == DSpec => []DeletionReachesCaches
<1>1. DIInv => DeletionReachesCaches
  BY DEF DIInv, IInv, NothingGetsPast, Propagation, DoneIsDone, Clean, TargetSet,
     DeletionReachesCaches, NothingLeft
<1> QED BY DerivedInvariant, <1>1, PTL

(* While a deletion is journaled, the log is written by deletions only: no  *)
(* process call that starts, or starts again after a crash, gets to the     *)
(* engine before the journal is worked off (recoverPending).                *)
THEOREM DerivedDeletionNotOvertaken == DSpec => DeletionNotOvertaken
<1>1. ASSUME DIInv, [DNext]_allVars, task # NoTask
      PROVE  durable' \in {durable, Barrier}
  <2>1. CASE EngineContinues \/ EngineThrows \/ EngineReturns
    <3>1. durable' = durable \/ Save \/ SaveRejects
      BY <2>1 DEF EngineContinues, EngineThrows, EngineReturns, BatchAccepted, SynchronizeLoaded,
         LoadThrows, Barred, BatchRefused, ApplyRefused, Rejection, LoadRejects, ApplyRejects,
         EraseRejects, ReadRejects, Apply, Read, Erase, stores
    <3>2. Save \/ SaveRejects => call # Idle /\ durable' \in {durable, call.next}
      BY DEF Save, SaveRejects, InPhase
    <3>3. call # Idle => call.next = Barrier
      BY <1>1 DEF DIInv, IInv, DeletionPhases, Propagation, RecoveryFirst
    <3> QED BY <3>1, <3>2, <3>3
  <2>2. CASE CallEngine \/ CallEngineDelete
    <3>1. Begin(call')
      BY <2>2, OpeningCalls DEF CallEngine, CallEngineDelete
    <3> QED BY <3>1 DEF Begin, stores
  <2>3. CASE OwnStep
    BY <2>3, OwnStepQuiet DEF Quiet, stores
  <2>4. CASE DRequest \/ DTick \/ DCrash \/ UNCHANGED allVars \/ \E t \in TargetSet : Fill(t)
    BY <2>4 DEF DRequest, DBegin, DTick, Tick, DCrash, Crash, Fill, vars, allVars, stores
  <2> QED
    BY <1>1, <2>1, <2>2, <2>3, <2>4 DEF DNext, DProgress, OwnStep, TargetSet
<1>2. DIInv /\ [DNext]_allVars =>
        [task # NoTask /\ task.deletion => durable' \in {durable, Barrier}]_allVars
  BY <1>1
<1> QED BY DerivedInvariant, <1>2, PTL DEF DSpec, DeletionNotOvertaken
-----------------------------------------------------------------------------
(* While a task that is no deletion is journaled the profile is the one it  *)
(* was made for, or was lost since; in the first case what is no longer     *)
(* pending holds nothing older.                                            *)
FreshTask(w) ==
  ~w.deletion /\ w.phase = "derived_invalidation_pending" =>
    /\ profile \in {w.digest, {}}
    /\ w.digest = profile =>
         \A t \in TargetSet : t \notin ToSet(w.pending) => caches[t] \in {Nothing, profile}

(* The second invariant: tasks and caches go with the profile.              *)
Fresh ==
  /\ task # NoTask => FreshTask(task)
  /\ dcall # AtRest /\ dcall.phase \in TaskWork => FreshTask(dcall.work)
  /\ AccountedCachesAreFresh

(* The profile moves, and nothing is worked off: with an empty journal      *)
(* anything may become of it, with a task it can only be lost.              *)
LEMMA ProfileMovesFresh ==
  ASSUME Fresh, UNCHANGED <<task, caches>>, NoteChange,
         dcall' # AtRest /\ dcall'.phase \in TaskWork => dcall'.work.deletion,
         task = NoTask \/ profile' \in {profile, {}}
  PROVE  Fresh'
<1>1. task' # NoTask => FreshTask(task)'
  BY DEF Fresh, FreshTask
<1>2. AccountedCachesAreFresh'
  BY DEF Fresh, NoteChange, AccountedCachesAreFresh
<1> QED BY <1>1, <1>2 DEF Fresh, FreshTask

(* A profile is lost by a deletion alone while a task is journaled.         *)
LEMMA EngineProfile ==
  ASSUME DIInv, EngineContinues \/ EngineThrows \/ EngineReturns
  PROVE  task = NoTask \/ profile' \in {profile, {}}
<1>1. CASE call.op # "delete"
  <2>1. call # Idle
    BY DEF EngineContinues, EngineThrows, EngineReturns, BatchAccepted, SynchronizeLoaded, Loads,
       Save, LoadThrows, Barred, BatchRefused, ApplyRefused, Rejection, LoadRejects, SaveRejects,
       ApplyRejects, EraseRejects, ReadRejects, Apply, Read, Erase, InPhase
  <2> QED BY <1>1, <2>1 DEF DIInv, Propagation, RecoveryFirst
<1>2. CASE call.op = "delete"
  <2>1. ~InPhase("applying") /\ ~InPhase("reading")
    BY <1>2 DEF DIInv, IInv, DeletionPhases, InPhase
  <2> QED
    BY <2>1 DEF EngineContinues, EngineThrows, EngineReturns, BatchAccepted, SynchronizeLoaded,
       Save, LoadThrows, Barred, BatchRefused, ApplyRefused, Rejection, LoadRejects, SaveRejects,
       ApplyRejects, EraseRejects, ReadRejects, Apply, Read, Erase, stores
<1> QED BY <1>1, <1>2

LEMMA EngineFresh ==
  ASSUME DIInv, Fresh, EngineContinues \/ EngineThrows \/ EngineReturns
  PROVE  Fresh'
<1>1. UNCHANGED <<task, caches>> /\ NoteChange
  BY DEF EngineContinues, EngineThrows, EngineReturns
<1>2. call # Idle /\ dcall # AtRest /\ dcall.phase = "called" /\ IsDCall(dcall)
  BY DEF DIInv, Propagation, Shapes, EngineInside, EngineContinues, EngineThrows, EngineReturns,
     BatchAccepted, SynchronizeLoaded, Loads, Save, LoadThrows, Barred, BatchRefused, ApplyRefused,
     Rejection, LoadRejects, SaveRejects, ApplyRejects, EraseRejects, ReadRejects, Apply, Read,
     Erase, InPhase
<1>3. dcall' # AtRest /\ dcall'.phase \in TaskWork => dcall'.work.deletion
  <2>1. CASE EngineContinues \/ EngineThrows
    BY <1>2, <2>1 DEF EngineContinues, EngineThrows, DThrows, TaskWork
  <2>2. CASE EngineReturns
    <3>1. CASE call.op = "delete"
      BY <1>2, <2>2, <3>1 DEF EngineReturns, DerivedTask, IsDCall
    <3>2. CASE call.op # "delete" /\ dcall.op = "delete"
      BY <1>2, <2>2, <3>2 DEF EngineReturns, DeletionTask, IsDCall
    <3>3. CASE call.op # "delete" /\ dcall.op # "delete"
      BY <1>2, <2>2, <3>3 DEF EngineReturns, IsDCall, TaskWork
    <3> QED BY <3>1, <3>2, <3>3
  <2> QED BY <2>1, <2>2
<1> QED BY <1>1, <1>3, EngineProfile, ProfileMovesFresh

LEMMA CrashFresh == ASSUME Fresh, DCrash PROVE Fresh'
BY ProfileMovesFresh DEF DCrash, Crash

(* Nothing but the orchestrator's place changes.                            *)
LEMMA PlaceFresh ==
  ASSUME Fresh, UNCHANGED <<task, caches, profile, unaccounted>>,
         dcall' # AtRest /\ dcall'.phase \in TaskWork => FreshTask(dcall'.work)
  PROVE  Fresh'
<1>1. FreshTask(dcall'.work) => FreshTask(dcall.work)'
  BY DEF FreshTask
<1> QED BY <1>1 DEF Fresh, FreshTask, AccountedCachesAreFresh

LEMMA BeginFresh ==
  ASSUME Fresh, NEW op, NEW b, NEW now, DBegin(op, b, now) PROVE Fresh'
<1>1. /\ dcall' = [op |-> op, phase |-> "recovering", batch |-> b, now |-> now,
                   work |-> NoTask, recovered |-> FALSE]
      /\ UNCHANGED <<task, caches, profile, unaccounted>>
  BY DEF DBegin, vars
<1>2. dcall'.phase = "recovering"
  BY <1>1
<1> QED BY <1>1, <1>2, PlaceFresh DEF TaskWork

LEMMA RecoverFresh == ASSUME DIInv, Fresh, Recover PROVE Fresh'
<1>1. IsDCall(dcall) /\ UNCHANGED <<task, caches, profile, unaccounted>>
  BY DEF DIInv, Propagation, Shapes, Recover, At, Quiet, stores
<1>2. CASE task = NoTask
  <2>1. dcall'.phase = "calling"
    BY <1>1, <1>2 DEF Recover, AfterRecovery, IsDCall
  <2> QED BY <1>1, <2>1, PlaceFresh DEF TaskWork
<1>3. CASE task # NoTask
  <2>1. dcall'.work = task
    BY <1>1, <1>3 DEF Recover, AfterRecovery, IsDCall
  <2> QED BY <1>1, <1>3, <2>1, PlaceFresh DEF Fresh
<1> QED BY <1>2, <1>3

LEMMA CallFresh == ASSUME DIInv, Fresh, CallEngine \/ CallEngineDelete PROVE Fresh'
<1>1. UNCHANGED <<task, caches, unaccounted>> /\ dcall' = [dcall EXCEPT !.phase = "called"]
      /\ IsDCall(dcall)
  BY DEF DIInv, Propagation, Shapes, CallEngine, CallEngineDelete, At
<1>2. UNCHANGED profile
  BY OpeningCalls DEF CallEngine, CallEngineDelete, Begin, stores
<1>3. dcall'.phase = "called"
  BY <1>1 DEF IsDCall
<1> QED BY <1>1, <1>2, <1>3, PlaceFresh DEF TaskWork

(* A new task has every target pending.                                     *)
LEMMA ComparedFresh == ASSUME DIInv, Fresh, Unchanged \/ Changed PROVE Fresh'
<1>1. IsDCall(dcall) /\ UNCHANGED <<task, caches, profile, unaccounted>>
  BY DEF DIInv, Propagation, Shapes, Unchanged, Changed, At, Quiet, stores
<1>2. CASE Unchanged
  BY <1>1, <1>2, PlaceFresh DEF Unchanged, DReturn
<1>3. CASE Changed
  <2>1. dcall'.work = DerivedTask(FALSE, profile)
    BY <1>1, <1>3 DEF Changed, IsDCall
  <2>2. FreshTask(dcall'.work)
    BY <2>1 DEF FreshTask, DerivedTask, TargetSet
  <2> QED BY <1>1, <2>2, PlaceFresh
<1> QED BY <1>2, <1>3

LEMMA JournalFresh == ASSUME DIInv, Fresh, Journal PROVE Fresh'
<1>1. /\ dcall # AtRest /\ dcall.phase = "journaling" /\ IsDCall(dcall)
      /\ task' = dcall.work /\ UNCHANGED <<caches, profile, unaccounted>>
  BY DEF DIInv, Propagation, Shapes, Journal, At, Quiet, stores
<1>2. FreshTask(dcall.work)
  BY <1>1 DEF Fresh, TaskWork
<1>3. dcall'.work = dcall.work
  BY <1>1 DEF Journal, IsDCall
<1> QED BY <1>1, <1>2, <1>3 DEF Fresh, FreshTask, AccountedCachesAreFresh

LEMMA InvalidateFresh == ASSUME DIInv, Fresh, Invalidate PROVE Fresh'
<1> DEFINE w == dcall.work
<1>1. /\ dcall # AtRest /\ IsDCall(dcall) /\ dcall.phase = "draining" /\ w.pending # <<>>
      /\ caches = [t \in TargetSet |-> caches[t]]
      /\ UNCHANGED <<task, profile, unaccounted>>
  BY DEF DIInv, Propagation, Shapes, Invalidate, At, Quiet, stores
<1>2. IsTask(w) /\ FreshTask(w)
  BY <1>1 DEF DIInv, Propagation, Shapes, Fresh, TaskWork
<1>3. /\ Tail(w.pending) \in Seq(TargetSet) /\ Head(w.pending) \in TargetSet
      /\ ToSet(w.pending) = {Head(w.pending)} \cup ToSet(Tail(w.pending))
  BY <1>1, <1>2, HeadAndRest DEF IsTask
<1>4. dcall'.work = [w EXCEPT !.pending = Tail(w.pending)]
  BY <1>1 DEF Invalidate, RestOf, IsDCall
<1>5. /\ dcall'.work.pending = Tail(w.pending) /\ dcall'.work.deletion = w.deletion
      /\ dcall'.work.phase = w.phase /\ dcall'.work.digest = w.digest
  BY <1>2, <1>3, <1>4 DEF IsTask
<1>6. caches'[Head(w.pending)] = Nothing /\ \A t \in TargetSet : caches'[t] \in {caches[t], Nothing}
  <2>1. caches' = [caches EXCEPT ![Head(w.pending)] = Nothing]
    BY DEF Invalidate
  <2> QED BY <1>1, <1>3, <2>1
<1>7. FreshTask(dcall.work)'
  BY <1>1, <1>2, <1>3, <1>5, <1>6 DEF FreshTask
<1>8. task # NoTask => FreshTask(task)'
  BY <1>1, <1>6 DEF Fresh, FreshTask
<1>9. AccountedCachesAreFresh'
  BY <1>1, <1>6 DEF Fresh, AccountedCachesAreFresh, TargetSet
<1> QED BY <1>1, <1>7, <1>8, <1>9 DEF Fresh

(* Nothing is pending: the profile is accounted for if it still is the one   *)
(* of the task; after a deletion it is empty, and so are the caches.        *)
LEMMA CheckpointFresh == ASSUME DIInv, Fresh, Checkpoint PROVE Fresh'
<1> DEFINE w == dcall.work
<1>1. /\ dcall # AtRest /\ IsDCall(dcall) /\ dcall.phase = "draining" /\ w.pending = <<>>
      /\ w.phase = "derived_invalidation_pending"
      /\ unaccounted' = (~w.deletion /\ w.digest # profile)
      /\ UNCHANGED <<task, caches, profile>>
  BY DEF DIInv, Propagation, Shapes, TasksSound, Checkpoint, At, Quiet, stores
<1>2. FreshTask(w) /\ TaskSound(w)
  BY <1>1 DEF DIInv, Propagation, TasksSound, Fresh, TaskWork
<1>3. dcall'.work = w
  BY <1>1 DEF Checkpoint, IsDCall
<1>4. AccountedCachesAreFresh'
  <2>1. CASE w.deletion
    <3>1. profile = {} /\ \A t \in TargetSet : Clean(t)
      BY <1>1, <1>2, <2>1, EmptyHasNone DEF TaskSound, DIInv, IInv, NothingGetsPast
    <3> QED BY <1>1, <3>1 DEF AccountedCachesAreFresh, TargetSet, Clean
  <2>2. CASE ~w.deletion
    BY <1>1, <1>2, <2>2, EmptyHasNone DEF FreshTask, AccountedCachesAreFresh, TargetSet
  <2> QED BY <2>1, <2>2
<1> QED BY <1>1, <1>2, <1>3, <1>4 DEF Fresh, FreshTask

LEMMA ClosedFresh == ASSUME DIInv, Fresh, CloseRecovered \/ Close PROVE Fresh'
<1>1. /\ IsDCall(dcall) /\ task' = NoTask /\ UNCHANGED <<caches, profile, unaccounted>>
  BY DEF DIInv, Propagation, Shapes, CloseRecovered, Close, At, Quiet, stores
<1>2. dcall' = AtRest \/ dcall'.phase = "calling"
  BY <1>1 DEF CloseRecovered, Close, DReturn, IsDCall
<1> QED BY <1>1, <1>2 DEF Fresh, AccountedCachesAreFresh, TaskWork

LEMMA RejectsFresh == ASSUME DIInv, Fresh, Rejects PROVE Fresh'
<1>1. dcall' = AtRest /\ UNCHANGED <<profile, unaccounted>>
  BY DEF Rejects, DThrows, Quiet, stores
<1>2. task' \in {task, NoTask} \/ (task' = dcall.work /\ FreshTask(dcall.work))
  BY DEF Rejects, At, Fresh, TaskWork
<1>3. \A t \in TargetSet : caches'[t] \in {caches[t], Nothing}
  BY DEF DIInv, Propagation, Shapes, Rejects
<1>4. task' # NoTask => FreshTask(task)'
  BY <1>1, <1>2, <1>3 DEF Fresh, FreshTask
<1>5. AccountedCachesAreFresh'
  BY <1>1, <1>3 DEF Fresh, AccountedCachesAreFresh, TargetSet
<1> QED BY <1>1, <1>4, <1>5 DEF Fresh

(* A cache is filled from the profile of the moment.                        *)
LEMMA OutsideFresh ==
  ASSUME DIInv, Fresh, DTick \/ UNCHANGED allVars \/ \E t \in TargetSet : Fill(t)
  PROVE  Fresh'
<1>1. UNCHANGED <<task, dcall, profile, unaccounted>>
  BY DEF DTick, Tick, Fill, vars, allVars, stores
<1>2. \A t \in TargetSet : caches'[t] \in {caches[t], profile}
  BY DEF DIInv, Propagation, Shapes, DTick, Fill, allVars
<1> QED BY <1>1, <1>2 DEF Fresh, FreshTask, AccountedCachesAreFresh, TargetSet

(* After a complete round of invalidations no cache holds anything derived  *)
(* from another profile until the profile changes again, through rejected   *)
(* awaits, restarts and resumed tasks (drainDerived, recoverPending,        *)
(* ensureCurrentProfilePropagated).                                        *)
THEOREM DerivedAccountedCachesAreFresh == DSpec => []AccountedCachesAreFresh
<1>1. DInit => Fresh
  BY DEF DInit, Fresh, AccountedCachesAreFresh
<1>2. DIInv /\ Fresh /\ [DNext]_allVars => Fresh'
  <2> SUFFICES ASSUME DIInv, Fresh, [DNext]_allVars PROVE Fresh'
    OBVIOUS
  <2> QED
    BY BeginFresh, RecoverFresh, CallFresh, EngineFresh, ComparedFresh, JournalFresh,
       InvalidateFresh, CheckpointFresh, ClosedFresh, RejectsFresh, CrashFresh, OutsideFresh
    DEF DNext, DRequest, DProgress, TargetSet
<1>3. Fresh => AccountedCachesAreFresh
  BY DEF Fresh
<1> QED BY DerivedInvariant, <1>1, <1>2, <1>3, PTL DEF DSpec
===============================================================================
