------------------------------ MODULE LedgerOps ------------------------------
(***************************************************************************)
(* The signal ledger of src/src/recommendation/signal-ledger.ts as a value *)
(* and the operators on it, shared by SignalLedger (the ledger alone) and  *)
(* EngineOrchestrator (which rebuilds ledgers from its event log).         *)
(*                                                                         *)
(* An event is an apply of a signal or a retraction of one.  Identifiers   *)
(* are hashed to keys in the code; here an operation is its key's rank in  *)
(* the order of localeCompare, a source is the key of the signal's source  *)
(* event, and the content digest of an event is the event itself.          *)
(***************************************************************************)
EXTENDS Naturals, Sequences, FiniteSets

CONSTANTS Events,        \* the events that may be delivered
          MaxOperations  \* options.maxOperations

IsApply(e) == e.kind = "apply"
IsRetract(e) == e.kind = "retract"

Applies == {e \in Events : IsApply(e)}
Retracts == {e \in Events : IsRetract(e)}
Sources == {e.source : e \in Events}

(* Times are small numbers; a signal that never expires expires after the  *)
(* last time the model reaches.  For a retraction, source is the target.   *)
ASSUME LedgerAssumption ==
  /\ \A e \in Events : /\ e.kind \in {"apply", "retract"}
                       /\ e.op \in Nat /\ e.at \in Nat
                       /\ e.kind = "apply" => e.expires \in Nat
  /\ MaxOperations \in Nat

(* operations, active and tombstones, each as the set of the events stored. *)
EmptyLedger == [operations |-> {}, active |-> {}, tombstones |-> {}]

Retracted(l, s) == \E t \in l.tombstones : t.source = s
Present(l, s) == \E a \in l.active : a.source = s
Known(l, e) == \E p \in l.operations : p.op = e.op

\* Mutant of Refused: an active source event is not a conflict.
RefusedButForSource(l, e) ==
  \/ Known(l, e) /\ e \notin l.operations
  \/ ~Known(l, e) /\ Cardinality(l.operations) >= MaxOperations

(* ingest throws: the operation ID has other content, the ledger is full,  *)
(* or the source event is already active under another operation.          *)
Refused(l, e) ==
  \/ Known(l, e) /\ e \notin l.operations
  \/ ~Known(l, e) /\ Cardinality(l.operations) >= MaxOperations
  \/ ~Known(l, e) /\ IsApply(e) /\ ~Retracted(l, e.source) /\ Present(l, e.source)

(* Later in time, or at the same time with the greater operation key.      *)
Newer(t, u) == t.at > u.at \/ (t.at = u.at /\ t.op > u.op)

\* Mutant of ShouldReplaceTombstone: ties go to the last one delivered.
ReplaceTombstoneOnTie(l, e) ==
  \A t \in l.tombstones : t.source = e.source => e.at >= t.at

ShouldReplaceTombstone(l, e) ==
  \A t \in l.tombstones : t.source = e.source => Newer(e, t)

\* Mutant of ActiveAfter: an apply does not look at the tombstones.
ActiveIgnoringTombstones(l, e) ==
  IF IsApply(e) THEN l.active \cup {e}
  ELSE {a \in l.active : a.source # e.source}

ActiveAfter(l, e) ==
  IF IsRetract(e) THEN {a \in l.active : a.source # e.source}
  ELSE IF Retracted(l, e.source) THEN l.active
  ELSE l.active \cup {e}

TombstonesAfter(l, e) ==
  IF IsRetract(e) /\ ShouldReplaceTombstone(l, e)
  THEN {t \in l.tombstones : t.source # e.source} \cup {e}
  ELSE l.tombstones

(* ingest, when it does not throw.  A known event is a duplicate.           *)
Ingest(l, e) ==
  IF e \in l.operations THEN l
  ELSE [operations |-> l.operations \cup {e},
        active |-> ActiveAfter(l, e),
        tombstones |-> TombstonesAfter(l, e)]

\* Mutant of FreshAfter: duplicates count as accepted events.
FreshWithDuplicates(acc, e) == Append(acc.fresh, e)

FreshAfter(acc, e) ==
  IF e \in acc.ledger.operations THEN acc.fresh ELSE Append(acc.fresh, e)

(* ingestBatch, as one value: the loop stops at the first event refused.    *)
(* "fresh" are the events whose decision is not "duplicate".               *)
IngestStep(acc, e) ==
  IF acc.refused \/ Refused(acc.ledger, e) THEN [acc EXCEPT !.refused = TRUE]
  ELSE [ledger |-> Ingest(acc.ledger, e), fresh |-> FreshAfter(acc, e), refused |-> FALSE]

IngestBatch(l, es) ==
  LET after[i \in 0 .. Len(es)] ==
        IF i = 0 THEN [ledger |-> l, fresh |-> <<>>, refused |-> FALSE]
        ELSE CHOOSE acc \in {IngestStep(before, es[i]) : before \in {after[i - 1]}} : TRUE
  IN  after[Len(es)]

(* listActiveSignals: expired signals are left out of the reading, not of   *)
(* the ledger.                                                             *)
ActiveAt(l, now) == {a \in l.active : a.expires > now}
=============================================================================
