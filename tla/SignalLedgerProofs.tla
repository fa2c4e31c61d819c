------------------------- MODULE SignalLedgerProofs -------------------------
(***************************************************************************)
(* Proofs about SignalLedger for any events, ledgers and bounds.  The      *)
(* argument: active and tombstones are functions of the set of events      *)
(* accepted (LedgerOK), so neither the order of delivery nor duplicates    *)
(* nor batches that threw half way leave a trace in them.                  *)
(***************************************************************************)
EXTENDS SignalLedger, LedgerOpsProofs

IInv ==
  /\ ledger \in [Replicas -> Ledgers]
  /\ batch \in [Replicas -> Seq(Events)]
  /\ \A r \in Replicas : LedgerOK(ledger[r])

USE BatchAssumption
-----------------------------------------------------------------------------
LEMMA InitIInv == Init => IInv
BY EmptyLedgerOK DEF Init, IInv, LedgerOK

(* Every turn of a batch, every refusal and clear keep the invariant.       *)
LEMMA NextIInv == IInv /\ [Next]_vars => IInv'
<1> SUFFICES ASSUME IInv, [Next]_vars PROVE IInv'
  OBVIOUS
<1>1. ASSUME NEW r \in Replicas, NEW n \in 1 .. MaxBatch, NEW es \in [1 .. n -> Events],
             Deliver(r, es)
      PROVE  IInv'
  <2>1. es \in Seq(Events)
    BY <1>1
  <2> QED BY <1>1, <2>1 DEF IInv, Deliver
<1>2. ASSUME NEW r \in Replicas, IngestNext(r) PROVE IInv'
  <2>1. Head(batch[r]) \in Events /\ Tail(batch[r]) \in Seq(Events)
    BY <1>2 DEF IInv, IngestNext
  <2>2. LedgerOK(Ingest(ledger[r], Head(batch[r])))
    BY <1>2, <2>1, IngestOK DEF IInv, IngestNext
  <2>3. Ingest(ledger[r], Head(batch[r])) \in Ledgers
    BY <2>2 DEF LedgerOK
  <2>4. batch' \in [Replicas -> Seq(Events)]
    BY <1>2, <2>1 DEF IInv, IngestNext
  <2>5. ledger' \in [Replicas -> Ledgers] /\ \A q \in Replicas : LedgerOK(ledger'[q])
    BY <1>2, <2>2, <2>3 DEF IInv, IngestNext
  <2> QED BY <2>4, <2>5 DEF IInv
<1>3. ASSUME NEW r \in Replicas, Throw(r) PROVE IInv'
  BY <1>3 DEF IInv, Throw
<1>4. ASSUME NEW r \in Replicas, Clear(r) PROVE IInv'
  BY <1>4, EmptyLedgerOK DEF IInv, Clear, LedgerOK
<1>5. CASE UNCHANGED vars
  BY <1>5 DEF vars, IInv
<1> QED BY <1>1, <1>2, <1>3, <1>4, <1>5 DEF Next

(* Every ledger is, in every reachable state, the function of its accepted  *)
(* events that LedgerOK describes.                                          *)
THEOREM LedgerInvariant == Spec => []IInv
BY InitIInv, NextIInv, PTL DEF Spec

(* Reordered, duplicated and partly failed deliveries converge.             *)
THEOREM LedgerConvergence == Spec => []Convergence
<1>1. IInv => Convergence
  BY SameEventsSameLedger DEF IInv, Convergence
<1> QED BY <1>1, LedgerInvariant, PTL

(* A source event is counted once.                                          *)
THEOREM LedgerCountsOnce == Spec => []OneContributionPerSource
<1>1. IInv => OneContributionPerSource
  BY DEF IInv, LedgerOK, OneActive, OneContributionPerSource
<1> QED BY <1>1, LedgerInvariant, PTL

(* A tombstoned source stays out of the active signals.                     *)
THEOREM LedgerNoResurrection == Spec => NoResurrection
<1> DEFINE A == \A r \in Replicas : \A s \in Sources :
                  Retracted(ledger[r], s) => ~Present(ledger'[r], s)
<1>1. ASSUME NEW l, LedgerOK(l), NEW s, Retracted(l, s) PROVE ~Present(l, s)
  BY <1>1 DEF LedgerOK, ActiveExact, TombstonesExact, RetractedIn, Retracted, Present
<1>2. ASSUME NEW l, LedgerOK(l), NEW e \in Events, ~Refused(l, e), NEW s, Retracted(l, s)
      PROVE  ~Present(Ingest(l, e), s)
  <2>1. ~Present(l, s)
    BY <1>1, <1>2
  <2>2. CASE e \in l.operations
    BY <2>1, <2>2 DEF Ingest
  <2>3. CASE e \notin l.operations
    <3>1. Ingest(l, e).active = ActiveAfter(l, e)
      BY <2>3 DEF Ingest
    <3> QED BY <3>1, <2>1, <1>2 DEF ActiveAfter, Present
  <2> QED BY <2>2, <2>3
<1>3. IInv /\ [Next]_vars => A
  <2> SUFFICES ASSUME IInv, [Next]_vars, NEW r \in Replicas, NEW s \in Sources,
                      Retracted(ledger[r], s)
               PROVE  ~Present(ledger'[r], s)
    OBVIOUS
  <2>1. ~Present(ledger[r], s)
    BY <1>1 DEF IInv
  <2>2. ASSUME NEW q \in Replicas, IngestNext(q) PROVE ~Present(ledger'[r], s)
    <3>1. Head(batch[q]) \in Events
      BY <2>2 DEF IInv, IngestNext
    <3>2. CASE q = r
      <4>1. ledger'[r] = Ingest(ledger[r], Head(batch[r])) /\ ~Refused(ledger[r], Head(batch[r]))
        BY <2>2, <3>2 DEF IInv, IngestNext
      <4> QED BY <4>1, <3>1, <3>2, <1>2 DEF IInv
    <3>3. CASE q # r
      BY <2>1, <2>2, <3>3 DEF IInv, IngestNext
    <3> QED BY <3>2, <3>3
  <2>3. ASSUME NEW q \in Replicas, Clear(q) PROVE ~Present(ledger'[r], s)
    BY <2>1, <2>3 DEF IInv, Clear, EmptyLedger, Present
  <2>4. CASE UNCHANGED ledger
    BY <2>1, <2>4
  <2> QED BY <2>2, <2>3, <2>4 DEF Next, Deliver, Throw, vars
<1>4. []IInv /\ [][Next]_vars => [][A]_vars
  BY <1>3, PTL
<1> QED BY <1>4, LedgerInvariant, PTL DEF Spec, NoResurrection
=============================================================================
