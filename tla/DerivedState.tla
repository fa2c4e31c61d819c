----------------------------- MODULE DerivedState -----------------------------
(***************************************************************************)
(* createRecommendationDerivedStateInvalidationOrchestrator for one        *)
(* subject, wrapped around the engine: it alone calls the engine, compares *)
(* the profile the engine leaves with the digest last propagated and, when *)
(* they differ, journals an invalidation task and works it off.  Its calls *)
(* are serialized too, so at most one is in flight, and each await of it   *)
(* may reject, with or without effect, or be cut short by a crash.         *)
(*                                                                         *)
(* The digest of a profile is the profile.  The caches are external: they  *)
(* are filled from the profile of the moment and emptied by invalidate.    *)
(***************************************************************************)
EXTENDS EngineOrchestrator

CONSTANTS Targets,   \* RECOMMENDATION_DERIVED_STATE_TARGETS, in order
          NoTask, NoDigest, Nothing

ASSUME DerivedAssumption ==
  Targets \in Seq(ToSet(Targets)) /\ IsInjective(Targets) /\ Targets # <<>>

VARIABLES task,         \* taskStore: the journaled task, or NoTask
          checkpoint,   \* checkpointStore: the profile last propagated
          caches,       \* caches[t]: the profile t was derived from
          dcall,        \* the orchestrator's call in flight, or AtRest
          unaccounted,  \* history: the profile has changed since the last
                        \* complete round of invalidations
          withdrawn,    \* history: sources whose retraction has returned
          deletionDone  \* history: deleteSubject has returned

dhistory == <<withdrawn, deletionDone>>
allVars == <<vars, task, checkpoint, caches, dcall, unaccounted, dhistory>>

(* The lock of the subject is free.                                        *)
AtRest == [phase |-> "at rest"]

DInit ==
  /\ Init
  /\ task = NoTask /\ checkpoint = NoDigest /\ dcall = AtRest
  /\ caches = [t \in ToSet(Targets) |-> Nothing]
  /\ unaccounted = FALSE /\ withdrawn = {} /\ deletionDone = FALSE

DerivedTask(deletion, digest) ==
  [phase |-> "derived_invalidation_pending", deletion |-> deletion,
   digest |-> digest, pending |-> Targets]

DeletionTask(digest) ==
  [phase |-> "engine_deletion_pending", deletion |-> TRUE,
   digest |-> digest, pending |-> <<>>]

(* The orchestrator is at an await of its own, not inside an engine call.  *)
At(p) == dcall # AtRest /\ dcall.phase = p /\ call = Idle

(* resumeTask: what is next for a task.                                    *)
ResumeAt(t) == IF t.phase = "engine_deletion_pending" THEN "deleting" ELSE "draining"

DReturn ==
  /\ dcall' = AtRest
  /\ withdrawn' = IF dcall.op # "process" THEN withdrawn
                  ELSE withdrawn \cup {e.source : e \in {f \in ToSet(dcall.batch) : IsRetract(f)}}
  /\ deletionDone' = (deletionDone \/ dcall.op = "delete")

DThrows == dcall' = AtRest /\ UNCHANGED dhistory

DBegin(op, b, now) ==
  /\ dcall = AtRest
  /\ dcall' = [op |-> op, phase |-> "recovering", batch |-> b, now |-> now,
               work |-> NoTask, recovered |-> FALSE]
  /\ UNCHANGED <<vars, task, checkpoint, caches, unaccounted, dhistory>>

Quiet == UNCHANGED <<stores, call, clock, history>>
-----------------------------------------------------------------------------
\* Mutant of AfterRecovery: a journaled task is left to a later repair.
AfterRecoverySkipped ==
  dcall' = [dcall EXCEPT !.phase = "calling"]

(* recoverPending: a journaled task is worked off before anything else.    *)
AfterRecovery ==
  dcall' = IF task = NoTask THEN [dcall EXCEPT !.phase = "calling"]
           ELSE [dcall EXCEPT !.phase = ResumeAt(task), !.work = task, !.recovered = TRUE]

Recover ==
  /\ At("recovering")
  /\ AfterRecovery
  /\ Quiet /\ UNCHANGED <<failures, task, checkpoint, caches, unaccounted, dhistory>>

(* The engine is called for the operation itself; deletion and repair only *)
(* read the profile at first.                                              *)
CallEngine ==
  /\ At("calling")
  /\ IF dcall.op = "process" THEN BeginProcess(dcall.batch, dcall.now)
     ELSE IF dcall.op = "synchronize" THEN BeginSynchronize(dcall.now)
     ELSE BeginRead
  /\ dcall' = [dcall EXCEPT !.phase = "called"]
  /\ UNCHANGED <<task, checkpoint, caches, unaccounted, dhistory>>

(* resumeTask in phase engine_deletion_pending.                            *)
CallEngineDelete ==
  /\ At("deleting")
  /\ BeginDelete
  /\ dcall' = [dcall EXCEPT !.phase = "called"]
  /\ UNCHANGED <<task, checkpoint, caches, unaccounted, dhistory>>

NoteChange == unaccounted' = (unaccounted \/ profile' # profile)

EngineContinues ==
  /\ dcall # AtRest /\ (BatchAccepted \/ SynchronizeLoaded \/ Save)
  /\ NoteChange
  /\ UNCHANGED <<task, checkpoint, caches, dcall, dhistory>>

EngineThrows ==
  /\ dcall # AtRest
  /\ LoadThrows \/ Barred \/ BatchRefused \/ ApplyRefused \/ Rejection
  /\ DThrows /\ NoteChange
  /\ UNCHANGED <<task, checkpoint, caches>>

(* The profile returned is compared with the checkpoint; a deletion is     *)
(* journaled before it is carried out, and carried out before anything     *)
(* derived is invalidated.                                                 *)
EngineReturns ==
  /\ dcall # AtRest /\ (Apply \/ Read \/ Erase)
  /\ dcall' = IF call.op = "delete"
              THEN [dcall EXCEPT !.phase = "journaling",
                      !.work = DerivedTask(TRUE, dcall.work.digest)]
              ELSE IF dcall.op = "delete"
              THEN [dcall EXCEPT !.phase = "journaling", !.work = DeletionTask(profile')]
              ELSE [dcall EXCEPT !.phase = "comparing"]
  /\ NoteChange
  /\ UNCHANGED <<task, checkpoint, caches, dhistory>>

(* ensureCurrentProfilePropagated                                          *)
Unchanged ==
  /\ At("comparing") /\ checkpoint = profile
  /\ DReturn
  /\ Quiet /\ UNCHANGED <<failures, task, checkpoint, caches, unaccounted>>

Changed ==
  /\ At("comparing") /\ checkpoint # profile
  /\ dcall' = [dcall EXCEPT !.phase = "journaling", !.work = DerivedTask(FALSE, profile)]
  /\ Quiet /\ UNCHANGED <<failures, task, checkpoint, caches, unaccounted, dhistory>>

(* taskStore.save, of a new task or of one with a target less.             *)
Journal ==
  /\ At("journaling")
  /\ task' = dcall.work
  /\ dcall' = [dcall EXCEPT !.phase = ResumeAt(dcall.work)]
  /\ Quiet /\ UNCHANGED <<failures, checkpoint, caches, unaccounted, dhistory>>

\* Mutant of RestOf: the last target is taken for done.
RestOfButLast(pending) == IF Len(pending) = 2 THEN <<>> ELSE Tail(pending)

RestOf(pending) == Tail(pending)

(* drainDerived: one target after the other, the journal updated each time *)
Invalidate ==
  /\ At("draining") /\ dcall.work.pending # <<>>
  /\ caches' = [caches EXCEPT ![Head(dcall.work.pending)] = Nothing]
  /\ dcall' = [dcall EXCEPT !.phase = "journaling", !.work.pending = RestOf(@)]
  /\ Quiet /\ UNCHANGED <<failures, task, checkpoint, unaccounted, dhistory>>

AfterDrain == IF dcall.work.deletion THEN NoDigest ELSE dcall.work.digest

Checkpoint ==
  /\ At("draining") /\ dcall.work.pending = <<>>
  /\ checkpoint' = AfterDrain
  /\ unaccounted' = (~dcall.work.deletion /\ dcall.work.digest # profile)
  /\ dcall' = [dcall EXCEPT !.phase = "closing"]
  /\ Quiet /\ UNCHANGED <<failures, task, caches, dhistory>>

(* The task is removed.  A recovered task was only the prelude of the call, *)
(* except for repair, which is then done.                                  *)
CloseRecovered ==
  /\ At("closing") /\ dcall.recovered /\ dcall.op # "repair"
  /\ task' = NoTask
  /\ dcall' = [dcall EXCEPT !.phase = "calling", !.recovered = FALSE, !.work = NoTask]
  /\ Quiet /\ UNCHANGED <<failures, checkpoint, caches, unaccounted, dhistory>>

Close ==
  /\ At("closing") /\ (dcall.recovered => dcall.op = "repair")
  /\ task' = NoTask
  /\ DReturn
  /\ Quiet /\ UNCHANGED <<failures, checkpoint, caches, unaccounted>>
-----------------------------------------------------------------------------
(* An await of the orchestrator rejects; a write may have happened.        *)
Rejects ==
  /\ dcall # AtRest /\ call = Idle /\ MayFail
  /\ DThrows
  /\ task' \in {task} \cup (IF At("journaling") THEN {dcall.work} ELSE {})
                      \cup (IF At("closing") THEN {NoTask} ELSE {})
  /\ caches' \in {caches} \cup
       (IF At("draining") /\ dcall.work.pending # <<>>
        THEN {[caches EXCEPT ![Head(dcall.work.pending)] = Nothing]} ELSE {})
  /\ checkpoint' \in {checkpoint} \cup
       (IF At("draining") /\ dcall.work.pending = <<>> THEN {AfterDrain} ELSE {})
  /\ Quiet /\ UNCHANGED unaccounted

DCrash ==
  /\ Crash
  /\ dcall' = AtRest
  /\ NoteChange
  /\ UNCHANGED <<task, checkpoint, caches, dhistory>>

DTick == Tick /\ UNCHANGED <<task, checkpoint, caches, dcall, unaccounted, dhistory>>

(* External: an empty cache is filled from the profile of the moment.      *)
Fill(t) ==
  /\ caches[t] = Nothing
  /\ caches' = [caches EXCEPT ![t] = profile]
  /\ UNCHANGED <<vars, task, checkpoint, dcall, unaccounted, dhistory>>

DRequest ==
  \/ \E b \in Batches, now \in 0 .. clock : DBegin("process", b, now)
  \/ \E now \in 0 .. clock : DBegin("synchronize", <<>>, now)
  \/ DBegin("repair", <<>>, clock)
  \/ DBegin("delete", <<>>, clock)

DProgress ==
  \/ Recover \/ CallEngine \/ CallEngineDelete
  \/ EngineContinues \/ EngineThrows \/ EngineReturns
  \/ Unchanged \/ Changed \/ Journal \/ Invalidate \/ Checkpoint
  \/ CloseRecovered \/ Close

DNext ==
  \/ DRequest \/ DProgress \/ Rejects \/ DCrash \/ DTick
  \/ \E t \in ToSet(Targets) : Fill(t)

DSpec == DInit /\ [][DNext]_allVars

(* Awaits settle, and the orchestrator is called again by somebody; what   *)
(* is called does not matter, every call works off the journal first.      *)
DFairSpec == DSpec /\ WF_allVars(DProgress) /\ WF_allVars(DRequest)
-----------------------------------------------------------------------------
(* While a deletion is journaled, no event reaches the log any more: it is *)
(* not overtaken by a later process call, nor by one after a crash.        *)
DeletionNotOvertaken ==
  [][task # NoTask /\ task.deletion => durable' \in {durable, Barrier}]_allVars

(* A deletion that was journaled is carried out to the end, however often  *)
(* its awaits reject and the process restarts: barrier, empty profile,     *)
(* nothing derived from the old one.                                       *)
NothingLeft ==
  /\ durable = Barrier /\ profile = {}
  /\ \A t \in ToSet(Targets) : caches[t] \in {Nothing, {}}

JournaledDeletionCompletes ==
  (task # NoTask /\ task.deletion) ~> NothingLeft

(* And once deleteSubject has returned it stays that way.                  *)
DeletionReachesCaches == deletionDone => NothingLeft

(* After a complete round of invalidations no cache holds anything derived *)
(* from another profile, until the profile changes again: resuming a task  *)
(* after a crash skips no target and repeats no stale comparison.          *)
AccountedCachesAreFresh ==
  ~unaccounted => \A t \in ToSet(Targets) : caches[t] \in {Nothing, profile}

(* README.md:31 and :208: once the retraction of a signal has returned, no *)
(* derived state holds that signal.                                        *)
RetractionReachesCaches ==
  \A t \in ToSet(Targets) :
    caches[t] = Nothing \/ \A a \in caches[t] : a.source \notin withdrawn
=============================================================================
