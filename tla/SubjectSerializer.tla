-------------------------- MODULE SubjectSerializer --------------------------
(***************************************************************************)
(* runSerialized: the per-subject lock of the engine, profile application, *)
(* profile replacement and derived-state orchestrators (four copies of the *)
(* same promise chain).  A call stores its own tail promise under the      *)
(* subject, waits for the tail it found there, does its work, opens its    *)
(* gate and removes the entry if it is still its own.  A tail is named by  *)
(* the call that made it.  Readers model awaitSubjectMutations of the      *)
(* replacement store: they wait for the tail they find, without joining.   *)
(***************************************************************************)
EXTENDS Naturals, FiniteSets

CONSTANTS Calls,      \* the mutating calls, each made once
          Readers,    \* the read calls of the replacement store
          Subjects,
          SubjectOf,  \* [Calls \cup Readers -> Subjects]
          NoCall      \* "no entry": tails.get(id) === undefined

ASSUME SerializerAssumption ==
  /\ SubjectOf \in [Calls \cup Readers -> Subjects]
  /\ NoCall \notin Calls
  /\ Calls \cap Readers = {}

VARIABLES tails,      \* tails[s]: the call whose tail is stored for s
          prior,      \* prior[c]: the tail c found when it was made
          pc,         \* where a call is; "returned" and "threw" are settled
          ahead       \* history: the calls for its subject made before it

vars == <<tails, prior, pc, ahead>>

Settled == {"returned", "threw"}
Active == {"waiting", "working"}

Init ==
  /\ tails = [s \in Subjects |-> NoCall]
  /\ prior = [c \in Calls \cup Readers |-> NoCall]
  /\ pc = [c \in Calls \cup Readers |-> "idle"]
  /\ ahead = [c \in Calls \cup Readers |-> {}]

Made(s) == {c \in Calls : SubjectOf[c] = s /\ pc[c] # "idle"}

\* Mutant of TailResolved: a call that throws does not open its gate.
TailResolvedOnReturn(t) == t = NoCall \/ (t \in Calls /\ pc[t] = "returned")

(* tail = ready.then(() => gate) resolves once its own call has settled:   *)
(* the gate opens in the finally block, after ready has resolved.          *)
TailResolved(t) == t = NoCall \/ (t \in Calls /\ pc[t] \in Settled)

(* The synchronous part of runSerialized, up to "await ready".             *)
Enter(c) ==
  LET s == SubjectOf[c] IN
  /\ pc[c] = "idle"
  /\ prior' = [prior EXCEPT ![c] = tails[s]]
  /\ tails' = [tails EXCEPT ![s] = c]
  /\ pc' = [pc EXCEPT ![c] = "waiting"]
  /\ ahead' = [ahead EXCEPT ![c] = Made(s)]

(* The continuation of "await ready": the work begins.                     *)
Start(c) ==
  /\ pc[c] = "waiting"
  /\ TailResolved(prior[c])
  /\ pc' = [pc EXCEPT ![c] = "working"]
  /\ UNCHANGED <<tails, prior, ahead>>

\* Mutant of TailsAfter: the entry is removed whoever it belongs to.
TailsAfterAlways(c) == [tails EXCEPT ![SubjectOf[c]] = NoCall]

\* Mutant of TailsAfter: the entry is never removed.
TailsAfterNever(c) == tails

(* The entry is removed by the call it belongs to.                         *)
TailsAfter(c) == [tails EXCEPT ![SubjectOf[c]] = IF @ = c THEN NoCall ELSE @]

(* The finally block, after the work returned or threw.                    *)
Settle(c, outcome) ==
  /\ pc[c] = "working"
  /\ pc' = [pc EXCEPT ![c] = outcome]
  /\ tails' = TailsAfter(c)
  /\ UNCHANGED <<prior, ahead>>

\* Mutant of TailAwaited: a read does not wait.
TailAwaitedNever(r) == NoCall

TailAwaited(r) == tails[SubjectOf[r]]

(* awaitSubjectMutations: the reader takes hold of the tail it finds.      *)
ReadBegin(r) ==
  /\ pc[r] = "idle"
  /\ prior' = [prior EXCEPT ![r] = TailAwaited(r)]
  /\ pc' = [pc EXCEPT ![r] = "waiting"]
  /\ ahead' = [ahead EXCEPT ![r] = Made(SubjectOf[r])]
  /\ UNCHANGED tails

(* The tail has resolved: the reader looks at the subject's store.         *)
ReadEnd(r) ==
  /\ pc[r] = "waiting"
  /\ TailResolved(prior[r])
  /\ pc' = [pc EXCEPT ![r] = "returned"]
  /\ UNCHANGED <<tails, prior, ahead>>

Next ==
  \/ \E c \in Calls : Enter(c) \/ Start(c) \/ \E o \in Settled : Settle(c, o)
  \/ \E r \in Readers : ReadBegin(r) \/ ReadEnd(r)

Spec == Init /\ [][Next]_vars

(* Promise continuations run once their promise resolves, and the work of  *)
(* a call settles: the stores and invalidators answer, if only by failing. *)
Fairness ==
  /\ \A c \in Calls : WF_vars(Start(c)) /\ WF_vars(\E o \in Settled : Settle(c, o))
  /\ \A r \in Readers : WF_vars(ReadEnd(r))

FairSpec == Spec /\ Fairness
-----------------------------------------------------------------------------
TypeOK ==
  /\ tails \in [Subjects -> Calls \cup {NoCall}]
  /\ prior \in [Calls \cup Readers -> Calls \cup {NoCall}]
  /\ pc \in [Calls \cup Readers -> {"idle"} \cup Active \cup Settled]
  /\ ahead \in [Calls \cup Readers -> SUBSET Calls]

(* Two calls for one subject never work at the same time, however their    *)
(* arrivals and settlements interleave: no load-modify-save of a subject   *)
(* is ever interleaved with another one.                                   *)
MutualExclusion ==
  \A c, d \in Calls :
    /\ pc[c] = "working" /\ pc[d] = "working"
    /\ SubjectOf[c] = SubjectOf[d]
    => c = d

(* A call starts only when every call of its subject that arrived before   *)
(* it has settled: a deletion is never overtaken by a later event.         *)
FirstInFirstOut ==
  \A c \in Calls : pc[c] \notin {"idle", "waiting"} =>
    \A d \in ahead[c] : pc[d] \in Settled

(* A profile read sees the effect of every mutation made before it: when   *)
(* it returns, all of them have settled.                                   *)
ReadAfterEarlierMutations ==
  \A r \in Readers : pc[r] = "returned" => \A c \in ahead[r] : pc[c] \in Settled

(* The map does not grow with the subjects ever seen: an entry is kept     *)
(* exactly while its subject has an unsettled call.                        *)
NoTailLeak ==
  \A s \in Subjects :
    tails[s] # NoCall <=> \E c \in Calls : SubjectOf[c] = s /\ pc[c] \in Active

(* Every call and every read is served, also behind calls that threw.      *)
EveryCallSettles ==
  \A c \in Calls \cup Readers : (pc[c] = "waiting") ~> (pc[c] \in Settled)

(* The promise chain implements the first-in first-out queue: the unsettled *)
(* calls of a subject, each at the place its unsettled predecessors leave.  *)
Unsettled(s) == {c \in Calls : SubjectOf[c] = s /\ pc[c] \in Active}

Queue ==
  INSTANCE SubjectQueue WITH
    queue <- [s \in Subjects |->
                [i \in 1 .. Cardinality(Unsettled(s)) |->
                   CHOOSE c \in Unsettled(s) :
                     Cardinality(ahead[c] \cap Unsettled(s)) = i - 1]],
    running <- {c \in Calls : pc[c] = "working"}

ImplementsQueue == Queue!Spec
=============================================================================
