---------------------------- MODULE SubjectQueue ----------------------------
(***************************************************************************)
(* What every orchestrator of src/src/recommendation promises about calls  *)
(* for one subject: they form a first-in first-out queue and only the call *)
(* at its head may run.  Calls for different subjects are independent.     *)
(* SubjectSerializer, the promise chain the code builds, implements this.  *)
(***************************************************************************)
EXTENDS Sequences

CONSTANTS Calls,      \* the calls ever made
          Subjects,   \* the subject identifiers
          SubjectOf   \* the subject each call is about

VARIABLES queue,      \* queue[s]: the unsettled calls of s, oldest first
          running     \* the calls whose work has begun and not settled

vars == <<queue, running>>

Init == queue = [s \in Subjects |-> <<>>] /\ running = {}

(* A call joins the end of its subject's queue.                            *)
Join(c) ==
  /\ \A i \in DOMAIN queue[SubjectOf[c]] : queue[SubjectOf[c]][i] # c
  /\ queue' = [queue EXCEPT ![SubjectOf[c]] = Append(@, c)]
  /\ UNCHANGED running

(* Only the oldest unsettled call of a subject starts its work.            *)
Run(c) ==
  /\ queue[SubjectOf[c]] # <<>> /\ Head(queue[SubjectOf[c]]) = c
  /\ c \notin running
  /\ running' = running \cup {c}
  /\ UNCHANGED queue

(* A running call settles, with a value or an error, and leaves.           *)
Leave(c) ==
  /\ c \in running
  /\ running' = running \ {c}
  /\ queue' = [queue EXCEPT ![SubjectOf[c]] = Tail(@)]

Next == \E c \in Calls : Join(c) \/ Run(c) \/ Leave(c)

(* Every queued call is served, whatever arrives behind it.                *)
Spec == Init /\ [][Next]_vars /\ \A c \in Calls : WF_vars(Run(c)) /\ WF_vars(Leave(c))
=============================================================================
