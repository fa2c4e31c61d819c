--------------------------- MODULE LedgerOpsProofs ---------------------------
(***************************************************************************)
(* Lemmas about the operators of LedgerOps: ingest of one event, and       *)
(* ingestBatch, a recursive function over the list of events.  Nat is well *)
(* founded, so a set that holds 0 and every successor of its elements is   *)
(* Nat: with it the recursion is shown to be a run, which exists and is    *)
(* unique, and a batch to be its last event after the others.  From there  *)
(* on a batch, and a log, are reasoned about one event at a time.          *)
(***************************************************************************)
EXTENDS LedgerOps, WellFoundedInduction, TLAPS

(* A set of naturals that is not empty has a least element.                 *)
LEMMA LeastElement ==
  ASSUME NEW S \in SUBSET Nat, S # {} PROVE \E n \in S : \A m \in S : n <= m
<1>1. IsWellFoundedOn(OpToRel(<, Nat), Nat)
  BY NatLessThanWellFounded
<1>2. PICK n \in S : \A m \in S : ~(<<m, n>> \in OpToRel(<, Nat))
  BY <1>1, WFMin
<1>3. \A m \in S : ~(m < n)
  BY <1>2 DEF OpToRel
<1> QED BY <1>3

(* A set that holds 0 and, with every natural, the next one, holds them     *)
(* all.                                                                     *)
LEMMA SetInduction ==
  ASSUME NEW S, 0 \in S, \A n \in Nat : n \in S => n + 1 \in S PROVE Nat \subseteq S
<1> SUFFICES ASSUME Nat \ S # {} PROVE FALSE
  OBVIOUS
<1>1. PICK n \in Nat \ S : \A m \in Nat \ S : n <= m
  BY LeastElement
<1>2. n # 0 /\ n - 1 \in Nat /\ n - 1 \in S
  BY <1>1
<1>3. (n - 1) + 1 \in S
  BY <1>2
<1> QED BY <1>1, <1>3
-----------------------------------------------------------------------------
(* ingestBatch before its first event.                                      *)
NothingYet(l) == [ledger |-> l, fresh |-> <<>>, refused |-> FALSE]

(* The function that IngestBatch folds over the list.                       *)
TurnOf(before, e) == CHOOSE acc \in {IngestStep(b, e) : b \in {before}} : TRUE

(* It is one step of the batch.                                             *)
LEMMA OneStep == ASSUME NEW b, NEW e PROVE TurnOf(b, e) = IngestStep(b, e)
<1> DEFINE A == {IngestStep(x, e) : x \in {b}}
<1>1. A = {IngestStep(b, e)}
  OBVIOUS
<1>2. (CHOOSE acc \in {IngestStep(b, e)} : TRUE) = IngestStep(b, e)
  OBVIOUS
<1> QED BY <1>1, <1>2 DEF TurnOf

(* f holds what a batch has made after each of its first n events.          *)
IsRun(f, l, es, n) ==
  f = [i \in 0 .. n |-> IF i = 0 THEN NothingYet(l) ELSE IngestStep(f[i - 1], es[i])]

(* A run may be continued by one event.                                     *)
LEMMA RunStep ==
  ASSUME NEW l, NEW es, NEW n \in Nat, NEW f, IsRun(f, l, es, n)
  PROVE  \E g : IsRun(g, l, es, n + 1)
<1> DEFINE g == [i \in 0 .. n + 1 |-> IF i <= n THEN f[i] ELSE IngestStep(f[n], es[n + 1])]
<1>1. \A i \in 0 .. n : g[i] = f[i]
  OBVIOUS
<1>2. ASSUME NEW i \in 0 .. n + 1
      PROVE  g[i] = IF i = 0 THEN NothingYet(l) ELSE IngestStep(g[i - 1], es[i])
  <2>1. CASE i <= n
    <3>1. f[i] = IF i = 0 THEN NothingYet(l) ELSE IngestStep(f[i - 1], es[i])
      BY <2>1 DEF IsRun
    <3>2. i # 0 => g[i - 1] = f[i - 1]
      BY <1>1, <2>1
    <3> HIDE DEF g
    <3> QED BY <1>1, <2>1, <3>1, <3>2
  <2>2. CASE i = n + 1
    <3>1. g[i] = IngestStep(f[n], es[n + 1]) /\ g[i - 1] = f[n] /\ i # 0
      BY <2>2
    <3> QED BY <2>2, <3>1
  <2> QED BY <2>1, <2>2
<1>3. g = [i \in 0 .. n + 1 |-> g[i]]
  OBVIOUS
<1> HIDE DEF g
<1>4. g = [i \in 0 .. n + 1 |-> IF i = 0 THEN NothingYet(l) ELSE IngestStep(g[i - 1], es[i])]
  BY <1>2, <1>3
<1> QED BY <1>4 DEF IsRun

(* A list has a run.                                                        *)
LEMMA RunExists ==
  ASSUME NEW l, NEW es, NEW n \in Nat PROVE \E f : IsRun(f, l, es, n)
<1> DEFINE S == {k \in Nat : \E f : IsRun(f, l, es, k)}
<1>1. 0 \in S
  <2> DEFINE f == [i \in 0 .. 0 |-> NothingYet(l)]
  <2>1. IsRun(f, l, es, 0)
    BY DEF IsRun
  <2> QED BY <2>1
<1>2. \A k \in Nat : k \in S => k + 1 \in S
  BY RunStep
<1>3. Nat \subseteq S
  <2> HIDE DEF S
  <2> QED BY <1>1, <1>2, SetInduction
<1> QED BY <1>3

(* What ingestBatch returns is the end of a run.                            *)
LEMMA BatchIsRun ==
  ASSUME NEW l, NEW es, Len(es) \in Nat
  PROVE  \E f : IsRun(f, l, es, Len(es)) /\ IngestBatch(l, es) = f[Len(es)]
<1> DEFINE R(f) == f = [i \in 0 .. Len(es) |->
                   IF i = 0 THEN [ledger |-> l, fresh |-> <<>>, refused |-> FALSE]
                   ELSE CHOOSE acc \in {IngestStep(before, es[i]) : before \in {f[i - 1]}} : TRUE]
<1>1. ASSUME NEW f PROVE R(f) <=> IsRun(f, l, es, Len(es))
  <2>1. \A i \in 0 .. Len(es) :
          (CHOOSE acc \in {IngestStep(before, es[i]) : before \in {f[i - 1]}} : TRUE)
            = IngestStep(f[i - 1], es[i])
    BY OneStep DEF TurnOf
  <2> QED BY <2>1 DEF IsRun, NothingYet
<1>2. \E f : R(f)
  BY <1>1, RunExists
<1>3. R(CHOOSE f : R(f))
  <2> HIDE DEF R
  <2> QED BY <1>2
<1>4. IngestBatch(l, es) = (CHOOSE f : R(f))[Len(es)]
  BY DEF IngestBatch
<1> HIDE DEF R
<1> QED BY <1>1, <1>3, <1>4

(* Two runs agree on the events they share.                                 *)
LEMMA RunsAgree ==
  ASSUME NEW l, NEW es, NEW fs, NEW m \in Nat, NEW n \in 0 .. m, NEW f, NEW g,
         IsRun(f, l, es, n), IsRun(g, l, fs, m), \A i \in 1 .. n : es[i] = fs[i]
  PROVE  f[n] = g[n]
<1> DEFINE S == {k \in Nat : k <= n => f[k] = g[k]}
<1>1. 0 \in S
  BY DEF IsRun
<1>2. ASSUME NEW k \in Nat, k \in S PROVE k + 1 \in S
  <2>1. k + 1 <= n => /\ f[k + 1] = IngestStep(f[k], es[k + 1])
                      /\ g[k + 1] = IngestStep(g[k], fs[k + 1])
    BY DEF IsRun
  <2> QED BY <1>2, <2>1
<1>3. Nat \subseteq S
  <2> HIDE DEF S
  <2> QED BY <1>1, <1>2, SetInduction
<1> QED BY <1>3

(* An empty batch changes nothing.                                          *)
LEMMA BatchEmpty == ASSUME NEW l PROVE IngestBatch(l, <<>>) = NothingYet(l)
<1>1. PICK f : IsRun(f, l, <<>>, 0) /\ IngestBatch(l, <<>>) = f[0]
  BY BatchIsRun
<1> QED BY <1>1 DEF IsRun

(* A batch is its last event after the others.                              *)
LEMMA BatchAppend ==
  ASSUME NEW l, NEW T, NEW es \in Seq(T), NEW e \in T
  PROVE  IngestBatch(l, Append(es, e)) = IngestStep(IngestBatch(l, es), e)
<1> DEFINE n == Len(es)
           fs == Append(es, e)
<1>1. /\ n \in Nat /\ Len(fs) = n + 1 /\ fs[n + 1] = e
      /\ \A i \in 1 .. n : es[i] = fs[i]
  OBVIOUS
<1> HIDE DEF fs
<1>2. PICK f : IsRun(f, l, es, n) /\ IngestBatch(l, es) = f[n]
  BY <1>1, BatchIsRun
<1>3. PICK g : IsRun(g, l, fs, n + 1) /\ IngestBatch(l, fs) = g[n + 1]
  BY <1>1, BatchIsRun
<1> HIDE DEF n
<1>4. f[n] = g[n]
  BY <1>1, <1>2, <1>3, RunsAgree
<1>5. g[n + 1] = IngestStep(g[n], fs[n + 1])
  BY <1>1, <1>3 DEF IsRun
<1> QED BY <1>1, <1>2, <1>3, <1>4, <1>5 DEF fs
-----------------------------------------------------------------------------
Ledgers == [operations : SUBSET Events, active : SUBSET Events, tombstones : SUBSET Events]

(* An operation id stands for one event.                                    *)
OneEventPerOperation(l) == \A p, q \in l.operations : p.op = q.op => p = q

(* A retraction of s was accepted.                                          *)
RetractedIn(l, s) == \E t \in l.operations : IsRetract(t) /\ t.source = s

(* The signals accepted and never retracted.                               *)
ActiveExact(l) ==
  l.active = {a \in l.operations : IsApply(a) /\ ~RetractedIn(l, a.source)}

(* The newest retraction of each retracted source.                         *)
TombstonesExact(l) ==
  l.tombstones = {t \in l.operations : IsRetract(t) /\
    \A u \in l.operations : IsRetract(u) /\ u.source = t.source /\ u # t => Newer(t, u)}

(* Whatever was retracted has a tombstone.                                  *)
EveryRetractionMarked(l) == \A s \in Sources : RetractedIn(l, s) => Retracted(l, s)

(* A source has one active signal.                                          *)
OneActive(l) == \A a, b \in l.active : a.source = b.source => a = b

(* A ledger whose parts are what its accepted operations make of them.      *)
LedgerOK(l) ==
  /\ l \in Ledgers
  /\ OneEventPerOperation(l)
  /\ ActiveExact(l)
  /\ TombstonesExact(l)
  /\ EveryRetractionMarked(l)
  /\ OneActive(l)

USE LedgerAssumption

(* A new ledger is empty and consistent.                                    *)
LEMMA EmptyLedgerOK == LedgerOK(EmptyLedger)
BY DEF LedgerOK, Ledgers, EmptyLedger, OneEventPerOperation, ActiveExact, TombstonesExact,
   EveryRetractionMarked, OneActive, RetractedIn, Retracted

(* Events are totally ordered by time, then by operation.                   *)
LEMMA NewerTotal ==
  ASSUME NEW t \in Events, NEW u \in Events, t.op # u.op
  PROVE  Newer(t, u) <=> ~Newer(u, t)
BY DEF Newer

LEMMA NewerTransitive ==
  ASSUME NEW t \in Events, NEW u \in Events, NEW v \in Events, Newer(t, u), Newer(u, v)
  PROVE  Newer(t, v)
BY DEF Newer

(* An event accepted for the first time keeps the ledger consistent.        *)
LEMMA IngestOK ==
  ASSUME NEW l, LedgerOK(l), NEW e \in Events, ~Refused(l, e)
  PROVE  LedgerOK(Ingest(l, e))
<1>1. CASE e \in l.operations
  BY <1>1 DEF Ingest
<1>2. CASE e \notin l.operations
  <2> DEFINE m == Ingest(l, e)
  <2>1. /\ m.operations = l.operations \cup {e}
        /\ m.active = ActiveAfter(l, e)
        /\ m.tombstones = TombstonesAfter(l, e)
        /\ m = [operations |-> l.operations \cup {e}, active |-> ActiveAfter(l, e),
                tombstones |-> TombstonesAfter(l, e)]
    BY <1>2 DEF Ingest
  <2>2. ~Known(l, e)
    BY <1>2 DEF Refused
  <2>3. /\ l.operations \subseteq Events /\ l.active \subseteq Events
        /\ l.tombstones \subseteq Events
    BY DEF LedgerOK, Ledgers
  <2>4. m \in Ledgers
    BY <2>1, <2>3 DEF Ledgers, ActiveAfter, TombstonesAfter
  <2>5. OneEventPerOperation(m)
    BY <2>1, <2>2 DEF LedgerOK, OneEventPerOperation, Known
  <2>6. \A s : Retracted(l, s) <=> RetractedIn(l, s)
    BY <2>3 DEF LedgerOK, EveryRetractionMarked, TombstonesExact, Retracted, RetractedIn, Sources
  <2>7. ActiveExact(m) /\ OneActive(m)
    <3>1. CASE IsRetract(e)
      <4>1. m.active = {a \in l.active : a.source # e.source}
        BY <2>1, <3>1 DEF ActiveAfter
      <4>2. ~IsApply(e)
        BY <3>1 DEF IsRetract, IsApply
      <4>3. \A s : RetractedIn(m, s) <=> RetractedIn(l, s) \/ s = e.source
        BY <2>1, <3>1 DEF RetractedIn
      <4> QED BY <4>1, <4>2, <4>3, <2>1 DEF LedgerOK, ActiveExact, OneActive
    <3>2. CASE IsApply(e)
      <4>1. ~IsRetract(e)
        BY <3>2 DEF IsRetract, IsApply
      <4>2. \A s : RetractedIn(m, s) <=> RetractedIn(l, s)
        BY <2>1, <4>1 DEF RetractedIn
      <4>3. m.active = IF RetractedIn(l, e.source) THEN l.active ELSE l.active \cup {e}
        BY <2>1, <2>6, <4>1 DEF ActiveAfter
      <4>4. ~RetractedIn(l, e.source) => ~Present(l, e.source)
        BY <2>2, <2>6, <3>2 DEF Refused
      <4>5. ActiveExact(m)
        BY <4>2, <4>3, <2>1, <3>2, <1>2 DEF LedgerOK, ActiveExact
      <4>6. OneActive(m)
        BY <4>3, <4>4 DEF LedgerOK, OneActive, Present
      <4> QED BY <4>5, <4>6
    <3> QED BY <3>1, <3>2 DEF IsApply, IsRetract
  <2>8. TombstonesExact(m) /\ EveryRetractionMarked(m)
    <3>1. CASE IsApply(e)
      BY <2>1, <3>1 DEF LedgerOK, TombstonesExact, EveryRetractionMarked, TombstonesAfter,
         IsApply, IsRetract, RetractedIn, Retracted
    <3>2. CASE IsRetract(e) /\ ShouldReplaceTombstone(l, e)
      <4>1. m.tombstones = {t \in l.tombstones : t.source # e.source} \cup {e}
        BY <2>1, <3>2 DEF TombstonesAfter
      <4>2. ASSUME NEW u \in l.operations, IsRetract(u), u.source = e.source
            PROVE  Newer(e, u) /\ ~Newer(u, e)
        <5>1. PICK t \in l.tombstones : t.source = e.source
          BY <4>2, <2>3 DEF LedgerOK, EveryRetractionMarked, RetractedIn, Retracted, Sources
        <5>2. Newer(e, t) /\ t \in Events
          BY <5>1, <3>2, <2>3 DEF ShouldReplaceTombstone
        <5>3. u = t \/ Newer(t, u)
          BY <5>1, <4>2 DEF LedgerOK, TombstonesExact
        <5>4. u \in Events /\ u.op # e.op
          BY <2>2, <2>3 DEF Known
        <5> QED BY <5>2, <5>3, <5>4, NewerTransitive, NewerTotal
      <4>3. TombstonesExact(m)
        BY <4>1, <4>2, <2>1, <3>2, <1>2 DEF LedgerOK, TombstonesExact
      <4>4. EveryRetractionMarked(m)
        BY <4>1, <2>1 DEF LedgerOK, EveryRetractionMarked, RetractedIn, Retracted
      <4> QED BY <4>3, <4>4
    <3>3. CASE IsRetract(e) /\ ~ShouldReplaceTombstone(l, e)
      <4>1. m.tombstones = l.tombstones
        BY <2>1, <3>3 DEF TombstonesAfter
      <4>2. PICK t \in l.tombstones : t.source = e.source /\ ~Newer(e, t)
        BY <3>3 DEF ShouldReplaceTombstone
      <4>3. t \in l.operations /\ IsRetract(t) /\ t # e /\ t \in Events /\ t.op # e.op
        BY <4>2, <2>2, <2>3, <1>2 DEF LedgerOK, TombstonesExact, Known
      <4>4. Newer(t, e)
        BY <4>2, <4>3, NewerTotal
      <4>5. ASSUME NEW u \in l.tombstones, u.source = e.source PROVE u = t
        <5>1. u \in l.operations /\ u \in Events /\ IsRetract(u)
          BY <2>3 DEF LedgerOK, TombstonesExact
        <5>2. u # t => Newer(u, t) /\ Newer(t, u) /\ u.op # t.op
          BY <5>1, <4>2, <4>3, <4>5 DEF LedgerOK, TombstonesExact, OneEventPerOperation
        <5> QED BY <5>1, <5>2, <4>3, NewerTotal
      <4>6. TombstonesExact(m)
        BY <4>1, <4>2, <4>3, <4>4, <4>5, <2>1, <1>2, <3>3 DEF LedgerOK, TombstonesExact
      <4>7. EveryRetractionMarked(m)
        BY <4>1, <4>2, <2>1 DEF LedgerOK, EveryRetractionMarked, RetractedIn, Retracted
      <4> QED BY <4>6, <4>7
    <3> QED BY <3>1, <3>2, <3>3 DEF IsApply, IsRetract
  <2> QED BY <2>4, <2>5, <2>7, <2>8 DEF LedgerOK
<1> QED BY <1>1, <1>2
(* Two ledgers with the same accepted events are equal.                     *)
LEMMA SameEventsSameLedger ==
  ASSUME NEW l, NEW m, LedgerOK(l), LedgerOK(m), l.operations = m.operations
  PROVE  l = m
<1>1. l.active = m.active /\ l.tombstones = m.tombstones
  BY DEF LedgerOK, ActiveExact, TombstonesExact, RetractedIn
<1> QED BY <1>1 DEF LedgerOK, Ledgers

-----------------------------------------------------------------------------
(* The events of a list.                                                    *)
EventsIn(es) == {es[i] : i \in 1 .. Len(es)}

(* A list holds an event once.                                              *)
NoRepeats(es) == \A i, j \in 1 .. Len(es) : es[i] = es[j] => i = j

(* What a batch on ledger l has made so far: a consistent ledger that holds *)
(* what l held and the fresh events, each of which is new and listed once. *)
Accumulated(l, acc) ==
  /\ acc = [ledger |-> acc.ledger, fresh |-> acc.fresh, refused |-> acc.refused]
  /\ acc.refused \in BOOLEAN /\ acc.fresh \in Seq(Events)
  /\ LedgerOK(acc.ledger)
  /\ acc.ledger.operations = l.operations \cup EventsIn(acc.fresh)
  /\ EventsIn(acc.fresh) \cap l.operations = {}
  /\ NoRepeats(acc.fresh)

(* An event that was not in the list is appended without repeating any.     *)
LEMMA AppendFresh ==
  ASSUME NEW es \in Seq(Events), NEW e \in Events
  PROVE  /\ EventsIn(Append(es, e)) = EventsIn(es) \cup {e}
         /\ NoRepeats(es) /\ e \notin EventsIn(es) => NoRepeats(Append(es, e))
<1> DEFINE fs == Append(es, e)
           n == Len(es)
<1>1. /\ n \in Nat /\ Len(fs) = n + 1 /\ fs[n + 1] = e
      /\ \A i \in 1 .. n : fs[i] = es[i]
  OBVIOUS
<1> HIDE DEF fs, n
<1>2. EventsIn(fs) = EventsIn(es) \cup {e}
  BY <1>1 DEF EventsIn, n
<1>3. NoRepeats(es) /\ e \notin EventsIn(es) => NoRepeats(fs)
  BY <1>1 DEF EventsIn, NoRepeats, n
<1> QED BY <1>2, <1>3 DEF fs

(* ingest adds its event to the operations, or nothing.                     *)
LEMMA IngestOperations ==
  ASSUME NEW l, NEW e
  PROVE  Ingest(l, e).operations = l.operations \cup {e}
BY DEF Ingest

(* One more event of a batch keeps what the batch has made.                 *)
LEMMA StepAccumulates ==
  ASSUME NEW l, NEW acc, Accumulated(l, acc), NEW e \in Events
  PROVE  Accumulated(l, IngestStep(acc, e))
<1>1. CASE acc.refused \/ Refused(acc.ledger, e)
  <2>1. IngestStep(acc, e) = [ledger |-> acc.ledger, fresh |-> acc.fresh, refused |-> TRUE]
    BY <1>1 DEF IngestStep, Accumulated
  <2> QED BY <2>1 DEF Accumulated
<1>2. CASE ~acc.refused /\ ~Refused(acc.ledger, e)
  <2>1. IngestStep(acc, e)
          = [ledger |-> Ingest(acc.ledger, e), fresh |-> FreshAfter(acc, e), refused |-> FALSE]
    BY <1>2 DEF IngestStep
  <2>2. LedgerOK(Ingest(acc.ledger, e))
    BY <1>2, IngestOK DEF Accumulated
  <2>3. CASE e \in acc.ledger.operations
    BY <2>1, <2>3 DEF Accumulated, Ingest, FreshAfter
  <2>4. CASE e \notin acc.ledger.operations
    <3>1. FreshAfter(acc, e) = Append(acc.fresh, e)
      BY <2>4 DEF FreshAfter
    <3>2. EventsIn(Append(acc.fresh, e)) = EventsIn(acc.fresh) \cup {e} /\ NoRepeats(Append(acc.fresh, e))
      BY <2>4, AppendFresh DEF Accumulated
    <3>3. Append(acc.fresh, e) \in Seq(Events)
      BY DEF Accumulated
    <3>4. Ingest(acc.ledger, e).operations = acc.ledger.operations \cup {e}
      BY IngestOperations
    <3> QED BY <2>1, <2>2, <2>4, <3>1, <3>2, <3>3, <3>4 DEF Accumulated
  <2> QED BY <2>3, <2>4
<1> QED BY <1>1, <1>2 DEF Accumulated

(* ingestBatch on a consistent ledger: what it leaves is consistent, and    *)
(* when it does not throw, every event of the batch is in the ledger.      *)
LEMMA BatchAccumulates ==
  ASSUME NEW l, LedgerOK(l), NEW es \in Seq(Events)
  PROVE  /\ Accumulated(l, IngestBatch(l, es))
         /\ ~IngestBatch(l, es).refused => EventsIn(es) \subseteq IngestBatch(l, es).ledger.operations
<1> DEFINE n == Len(es)
<1>1. PICK f : IsRun(f, l, es, n) /\ IngestBatch(l, es) = f[n]
  BY BatchIsRun
<1> DEFINE P(k) == /\ Accumulated(l, f[k])
                   /\ ~f[k].refused => \A i \in 1 .. k : es[i] \in f[k].ledger.operations
           S == {k \in Nat : k <= n => P(k)}
<1>2. P(0)
  <2>1. f[0] = NothingYet(l)
    BY <1>1 DEF IsRun
  <2>2. Accumulated(l, NothingYet(l))
    BY DEF Accumulated, NothingYet, EventsIn, NoRepeats
  <2> QED BY <2>1, <2>2
<1>3. ASSUME NEW k \in Nat, k + 1 <= n, P(k) PROVE P(k + 1)
  <2> DEFINE e == es[k + 1]
  <2>1. f[k + 1] = IngestStep(f[k], e) /\ e \in Events
    BY <1>1, <1>3 DEF IsRun
  <2>2. Accumulated(l, f[k]) /\ (~f[k].refused => \A i \in 1 .. k : es[i] \in f[k].ledger.operations)
    BY <1>3
  <2>3. Accumulated(l, f[k + 1])
    BY <2>1, <2>2, StepAccumulates
  <2>4. ASSUME ~f[k + 1].refused
        PROVE  ~f[k].refused /\ f[k + 1].ledger = Ingest(f[k].ledger, e)
    BY <2>1, <2>2, <2>4 DEF IngestStep, Accumulated
  <2>5. ~f[k + 1].refused => \A i \in 1 .. k + 1 : es[i] \in f[k + 1].ledger.operations
    BY <2>2, <2>4, IngestOperations
  <2> QED BY <2>3, <2>5
<1>5. n \in Nat
  OBVIOUS
<1>4. Nat \subseteq S
  <2> HIDE DEF P, n
  <2>1. 0 \in S /\ \A k \in Nat : k \in S => k + 1 \in S
    BY <1>2, <1>3, <1>5
  <2> HIDE DEF S
  <2> QED BY <2>1, SetInduction
<1>6. Accumulated(l, f[n]) /\ (~f[n].refused => \A i \in 1 .. n : es[i] \in f[n].ledger.operations)
  BY <1>4, <1>5
<1> QED BY <1>1, <1>6 DEF EventsIn

(* Two lists of the same length and the same elements are equal.            *)
LEMMA SeqEqual ==
  ASSUME NEW T, NEW s \in Seq(T), NEW t \in Seq(T), Len(s) = Len(t),
         \A i \in 1 .. Len(s) : s[i] = t[i]
  PROVE  s = t
OBVIOUS

(* Concatenating and then appending is appending and then concatenating.    *)
LEMMA ConcatAppend ==
  ASSUME NEW a \in Seq(Events), NEW b \in Seq(Events), NEW c \in Events
  PROVE  a \o Append(b, c) = Append(a \o b, c)
<1> DEFINE x == a \o Append(b, c)
           y == Append(a \o b, c)
<1>1. x \in Seq(Events) /\ y \in Seq(Events) /\ Len(x) = Len(y) /\ Len(x) = Len(a) + Len(b) + 1
  OBVIOUS
<1>2. ASSUME NEW i \in 1 .. Len(x) PROVE x[i] = y[i]
  <2>1. CASE i <= Len(a)
    BY <2>1
  <2>2. CASE i > Len(a) /\ i <= Len(a) + Len(b)
    BY <2>2
  <2>3. CASE i = Len(a) + Len(b) + 1
    BY <2>3
  <2> QED BY <1>1, <2>1, <2>2, <2>3
<1> HIDE DEF x, y
<1>3. x = y
  BY <1>1, <1>2, SeqEqual
<1> QED BY <1>3 DEF x, y

(* A log that replays: every event of it is accepted, none is a duplicate.  *)
Replays(log, l) ==
  IngestBatch(EmptyLedger, log) = [ledger |-> l, fresh |-> log, refused |-> FALSE]

(* A log that replays still does when the fresh events of a batch accepted  *)
(* on its ledger are appended, and it then describes the ledger after them.*)
LEMMA LogExtends ==
  ASSUME NEW log \in Seq(Events), NEW l, Replays(log, l), LedgerOK(l), NEW es \in Seq(Events),
         ~IngestBatch(l, es).refused
  PROVE  Replays(log \o IngestBatch(l, es).fresh, IngestBatch(l, es).ledger)
<1> DEFINE n == Len(es)
<1>1. PICK f : IsRun(f, l, es, n) /\ IngestBatch(l, es) = f[n]
  BY BatchIsRun
<1> DEFINE P(k) == /\ Accumulated(l, f[k])
                   /\ ~f[k].refused => Replays(log \o f[k].fresh, f[k].ledger)
           S == {k \in Nat : k <= n => P(k)}
<1>2. P(0)
  <2>1. f[0] = NothingYet(l)
    BY <1>1 DEF IsRun
  <2>2. Accumulated(l, NothingYet(l)) /\ log \o <<>> = log
    BY DEF Accumulated, NothingYet, EventsIn, NoRepeats
  <2> QED BY <2>1, <2>2 DEF NothingYet
<1>3. ASSUME NEW k \in Nat, k + 1 <= n, P(k) PROVE P(k + 1)
  <2> DEFINE e == es[k + 1]
  <2>1. f[k + 1] = IngestStep(f[k], e) /\ e \in Events
    BY <1>1, <1>3 DEF IsRun
  <2>2. Accumulated(l, f[k]) /\ (~f[k].refused => Replays(log \o f[k].fresh, f[k].ledger))
    BY <1>3
  <2>3. Accumulated(l, f[k + 1])
    BY <2>1, <2>2, StepAccumulates
  <2>4. ASSUME ~f[k + 1].refused PROVE Replays(log \o f[k + 1].fresh, f[k + 1].ledger)
    <3>1. /\ ~f[k].refused /\ ~Refused(f[k].ledger, e)
          /\ f[k + 1].ledger = Ingest(f[k].ledger, e) /\ f[k + 1].fresh = FreshAfter(f[k], e)
      BY <2>1, <2>2, <2>4 DEF IngestStep, Accumulated
    <3>2. CASE e \in f[k].ledger.operations
      BY <2>2, <3>1, <3>2 DEF Ingest, FreshAfter
    <3>3. CASE e \notin f[k].ledger.operations
      <4> DEFINE before == log \o f[k].fresh
                 acc == [ledger |-> f[k].ledger, fresh |-> before, refused |-> FALSE]
      <4>1. f[k].fresh \in Seq(Events) /\ before \in Seq(Events)
        BY <2>2 DEF Accumulated
      <4>2. f[k + 1].fresh = Append(f[k].fresh, e)
        BY <3>1, <3>3 DEF FreshAfter
      <4>3. log \o f[k + 1].fresh = Append(before, e)
        <5>1. \A a \in Seq(Events), b \in Seq(Events), c \in Events :
                a \o Append(b, c) = Append(a \o b, c)
          BY ConcatAppend
        <5> HIDE DEF e
        <5>2. log \o Append(f[k].fresh, e) = Append(log \o f[k].fresh, e)
          BY <5>1, <4>1, <2>1
        <5> QED BY <5>2, <4>2
      <4>4. IngestBatch(EmptyLedger, before) = acc
        BY <2>2, <3>1 DEF Replays
      <4>5. IngestBatch(EmptyLedger, Append(before, e)) = IngestStep(acc, e)
        <5> HIDE DEF before, acc, e
        <5> QED BY <4>1, <4>4, <2>1, BatchAppend
      <4>6. IngestStep(acc, e)
              = [ledger |-> Ingest(f[k].ledger, e), fresh |-> Append(before, e), refused |-> FALSE]
        BY <3>1, <3>3 DEF IngestStep, FreshAfter
      <4> HIDE DEF before, acc, e
      <4> QED BY <3>1, <4>3, <4>5, <4>6 DEF Replays
    <3> QED BY <3>2, <3>3
  <2> QED BY <2>3, <2>4
<1>5. n \in Nat
  OBVIOUS
<1>4. Nat \subseteq S
  <2> HIDE DEF P, n
  <2>1. 0 \in S /\ \A k \in Nat : k \in S => k + 1 \in S
    BY <1>2, <1>3, <1>5
  <2> HIDE DEF S
  <2> QED BY <2>1, SetInduction
<1>6. ~f[n].refused => Replays(log \o f[n].fresh, f[n].ledger)
  BY <1>4, <1>5
<1> QED BY <1>1, <1>6

(* An empty log describes an empty ledger.                                  *)
LEMMA EmptyReplays == Replays(<<>>, EmptyLedger)
BY BatchEmpty DEF Replays, NothingYet
-----------------------------------------------------------------------------
(* A batch adds nothing to the accepted operations but its own events.       *)
Within(acc, l, es) ==
  \A e \in acc.ledger.operations : e \in l.operations \/ \E i \in 1 .. Len(es) : e = es[i]

(* One more event adds nothing but itself.                                  *)
LEMMA StepWithin ==
  ASSUME NEW l, NEW es, NEW acc, NEW i \in 1 .. Len(es), Within(acc, l, es)
  PROVE  Within(IngestStep(acc, es[i]), l, es)
<1>1. CASE acc.refused \/ Refused(acc.ledger, es[i])
  <2>1. IngestStep(acc, es[i]) = [acc EXCEPT !.refused = TRUE]
    BY <1>1 DEF IngestStep
  <2>2. IngestStep(acc, es[i]).ledger = acc.ledger
    BY <2>1
  <2> QED BY <2>2 DEF Within
<1>2. CASE ~(acc.refused \/ Refused(acc.ledger, es[i]))
  <2>1. IngestStep(acc, es[i]).ledger = Ingest(acc.ledger, es[i])
    BY <1>2 DEF IngestStep
  <2>2. \A e \in Ingest(acc.ledger, es[i]).operations :
          e \in acc.ledger.operations \/ e = es[i]
    BY DEF Ingest
  <2> QED BY <2>1, <2>2 DEF Within
<1> QED BY <1>1, <1>2

LEMMA BatchOperations ==
  ASSUME NEW l, NEW es, Len(es) \in Nat PROVE Within(IngestBatch(l, es), l, es)
<1>1. PICK f : IsRun(f, l, es, Len(es)) /\ IngestBatch(l, es) = f[Len(es)]
  BY BatchIsRun
<1> DEFINE S == {k \in Nat : k <= Len(es) => Within(f[k], l, es)}
<1>2. 0 \in S
  <2>1. f[0] = NothingYet(l)
    BY <1>1 DEF IsRun
  <2>2. Within(f[0], l, es)
    BY <2>1 DEF NothingYet, Within
  <2> QED BY <2>2
<1>3. ASSUME NEW k \in Nat, k \in S PROVE k + 1 \in S
  <2> SUFFICES ASSUME k + 1 <= Len(es) PROVE Within(f[k + 1], l, es)
    OBVIOUS
  <2>1. k + 1 \in 1 .. Len(es) /\ k <= Len(es) /\ (k + 1) - 1 = k
    OBVIOUS
  <2>2. Within(f[k], l, es)
    BY <1>3, <2>1
  <2>3. f[k + 1] = IngestStep(f[k], es[k + 1])
    BY <1>1, <2>1 DEF IsRun
  <2> QED BY <2>1, <2>2, <2>3, StepWithin
<1>4. Nat \subseteq S
  <2> HIDE DEF S
  <2> QED BY <1>2, <1>3, SetInduction
<1>5. Len(es) \in S
  BY <1>4
<1> QED BY <1>1, <1>5
=============================================================================
