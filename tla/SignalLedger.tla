---------------------------- MODULE SignalLedger ----------------------------
(***************************************************************************)
(* createInMemoryRecommendationSignalLedger: independent ledgers that are  *)
(* delivered events in any order, any number of times.  A batch is a       *)
(* synchronous loop of ingests on one ledger, which nothing interleaves;   *)
(* its turns are separate steps here, so that the state a batch leaves     *)
(* when it throws half way is a state of the model.                        *)
(***************************************************************************)
EXTENDS LedgerOps

CONSTANTS Replicas,   \* the ledgers (one per subject and engine lifetime)
          MaxBatch    \* bound on the length of a batch

ASSUME BatchAssumption == MaxBatch \in Nat \ {0}

VARIABLES ledger,     \* ledger[r]: what ledger r holds
          batch       \* batch[r]: what is left of the batch r is working on

vars == <<ledger, batch>>

Init ==
  /\ ledger = [r \in Replicas |-> EmptyLedger]
  /\ batch = [r \in Replicas |-> <<>>]

(* No call is being executed.                                              *)
Quiet == \A q \in Replicas : batch[q] = <<>>

(* ingest is called with one event, ingestBatch with several.              *)
Deliver(r, es) ==
  /\ Quiet
  /\ batch' = [batch EXCEPT ![r] = es]
  /\ UNCHANGED ledger

(* One turn of the loop: the event is stored or found to be a duplicate.   *)
IngestNext(r) ==
  /\ batch[r] # <<>> /\ ~Refused(ledger[r], Head(batch[r]))
  /\ ledger' = [ledger EXCEPT ![r] = Ingest(@, Head(batch[r]))]
  /\ batch' = [batch EXCEPT ![r] = Tail(@)]

(* The event is refused: the call throws and what came before it stays.    *)
Throw(r) ==
  /\ batch[r] # <<>> /\ Refused(ledger[r], Head(batch[r]))
  /\ batch' = [batch EXCEPT ![r] = <<>>]
  /\ UNCHANGED ledger

Clear(r) ==
  /\ Quiet
  /\ ledger' = [ledger EXCEPT ![r] = EmptyLedger]
  /\ UNCHANGED batch

Next == \E r \in Replicas :
  \/ \E n \in 1 .. MaxBatch : \E es \in [1 .. n -> Events] : Deliver(r, es)
  \/ IngestNext(r) \/ Throw(r) \/ Clear(r)

Spec == Init /\ [][Next]_vars
-----------------------------------------------------------------------------
(* A source event contributes to a ledger at most once, however often and  *)
(* under whatever operation it is delivered.                               *)
OneContributionPerSource ==
  \A r \in Replicas : \A a, b \in ledger[r].active : a.source = b.source => a = b

(* Reordered delivery converges: ledgers that accepted the same events     *)
(* hold the same active signals and the same tombstones, whatever the      *)
(* order, the duplicates and the failed batches in between.                *)
Convergence ==
  \A r, q \in Replicas :
    ledger[r].operations = ledger[q].operations => ledger[r] = ledger[q]

(* A retracted source never becomes active again, also when its apply      *)
(* arrives late, is replayed or comes under another operation.             *)
NoResurrection ==
  [][\A r \in Replicas : \A s \in Sources :
       Retracted(ledger[r], s) => ~Present(ledger'[r], s)]_vars
=============================================================================
