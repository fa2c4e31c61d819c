-------------------------- MODULE ProfileStoreProofs --------------------------
(***************************************************************************)
(* Proofs about ProfileStore for any targets, batches and bounds.  The     *)
(* total is the number of pairs of an entry and a signal counted in it, so *)
(* what adding a signal, forgetting an entry or a part of them does to it  *)
(* is a matter of disjoint sets (CountMore, CountSplit).  ProfileOK holds  *)
(* of every profile the store makes, and what is left of a saved copy at a *)
(* time is what is left of the store's own profile (AliveAt).  The         *)
(* induction over a batch is that of LedgerOpsProofs.                      *)
(***************************************************************************)
EXTENDS ProfileStore, LedgerOpsProofs, FiniteSetTheorems

(* The signals counted in some entries, as CountOf counts them.             *)
Counted(entries, ts) == UNION {{t} \X (1 .. entries[t].count) : t \in ts}

(* One entry counts what it says.                                           *)
LEMMA OneEntry ==
  ASSUME NEW t, NEW n \in Nat
  PROVE  IsFiniteSet({t} \X (1 .. n)) /\ Cardinality({t} \X (1 .. n)) = n
<1> DEFINE f == [k \in 1 .. n |-> <<t, k>>]
<1>1. f \in Bijection(1 .. n, {t} \X (1 .. n))
  <2>1. f \in [1 .. n -> {t} \X (1 .. n)]
    OBVIOUS
  <2>2. \A a, b \in 1 .. n : f[a] = f[b] => a = b
    OBVIOUS
  <2>3. \A p \in {t} \X (1 .. n) : \E k \in 1 .. n : f[k] = p
    OBVIOUS
  <2> QED BY <2>1, <2>2, <2>3 DEF Bijection, Injection, Surjection, IsInjective
<1>2. IsFiniteSet(1 .. n) /\ Cardinality(1 .. n) = n
  <2>1. 1 \in Int /\ n \in Int
    OBVIOUS
  <2> QED BY <2>1, FS_Interval
<1> QED BY <1>1, <1>2, FS_Bijection DEF ExistsBijection

(* Some entries count no less than they have, and one more adds its own.     *)
LEMMA CountMore ==
  ASSUME NEW entries, NEW ts, NEW t, t \notin ts, entries[t].count \in Nat,
         IsFiniteSet(Counted(entries, ts))
  PROVE  /\ IsFiniteSet(Counted(entries, ts \cup {t}))
         /\ CountOf(entries, ts \cup {t}) = CountOf(entries, ts) + entries[t].count
<1> DEFINE own == {t} \X (1 .. entries[t].count)
<1>1. Counted(entries, ts \cup {t}) = Counted(entries, ts) \cup own
  BY DEF Counted
<1>2. Counted(entries, ts) \cap own = {}
  BY DEF Counted
<1>3. IsFiniteSet(own) /\ Cardinality(own) = entries[t].count
  BY OneEntry
<1>4. Cardinality(Counted(entries, ts)) \in Nat
  BY FS_CardinalityType
<1>5. /\ IsFiniteSet(Counted(entries, ts) \cup own)
      /\ Cardinality(Counted(entries, ts) \cup own) = Cardinality(Counted(entries, ts)) + entries[t].count
  <2>1. Cardinality(Counted(entries, ts) \cap own) = 0
    BY <1>2, FS_EmptySet
  <2> HIDE DEF own
  <2>2. /\ IsFiniteSet(Counted(entries, ts) \cup own)
        /\ Cardinality(Counted(entries, ts) \cup own)
             = Cardinality(Counted(entries, ts)) + Cardinality(own) - Cardinality(Counted(entries, ts) \cap own)
    BY <1>3, FS_Union
  <2> QED BY <1>3, <1>4, <2>1, <2>2
<1> QED BY <1>1, <1>5 DEF CountOf, Counted

(* Finitely many entries count finitely many signals.                       *)
LEMMA CountedFinite ==
  ASSUME NEW entries, NEW ts, IsFiniteSet(ts), \A t \in ts : entries[t].count \in Nat
  PROVE  IsFiniteSet(Counted(entries, ts)) /\ CountOf(entries, ts) \in Nat
<1> DEFINE S == {n \in Nat : \A us \in SUBSET ts :
                   Cardinality(us) = n => IsFiniteSet(Counted(entries, us))}
<1>1. 0 \in S
  <2>1. ASSUME NEW us \in SUBSET ts, Cardinality(us) = 0 PROVE Counted(entries, us) = {}
    <3>1. IsFiniteSet(us)
      BY FS_Subset
    <3>2. us = {}
      BY <2>1, <3>1, FS_EmptySet
    <3> QED BY <3>2 DEF Counted
  <2> QED BY <2>1, FS_EmptySet
<1>2. ASSUME NEW n \in Nat, n \in S PROVE n + 1 \in S
  <2> SUFFICES ASSUME NEW us \in SUBSET ts, Cardinality(us) = n + 1
               PROVE  IsFiniteSet(Counted(entries, us))
    OBVIOUS
  <2>1. IsFiniteSet(us)
    BY FS_Subset
  <2>2. PICK t \in us : TRUE
    BY <2>1, FS_EmptySet
  <2>3. Cardinality(us \ {t}) = n
    <3>1. Cardinality(us \ {t}) = Cardinality(us) - 1
      BY <2>1, <2>2, FS_RemoveElement
    <3> QED BY <3>1
  <2>4. IsFiniteSet(Counted(entries, us \ {t}))
    BY <1>2, <2>3
  <2>5. us = (us \ {t}) \cup {t} /\ t \notin us \ {t} /\ entries[t].count \in Nat
    BY <2>2
  <2>6. IsFiniteSet(Counted(entries, (us \ {t}) \cup {t}))
    BY <2>4, <2>5, CountMore
  <2> QED BY <2>5, <2>6
<1>3. Nat \subseteq S
  <2> HIDE DEF S
  <2> QED BY <1>1, <1>2, SetInduction
<1>4. IsFiniteSet(Counted(entries, ts))
  <2>1. Cardinality(ts) \in Nat
    BY FS_CardinalityType
  <2> QED BY <1>3, <2>1
<1> QED BY <1>4, FS_CardinalityType DEF CountOf, Counted

(* What is counted in two parts is counted in all.                          *)
LEMMA CountSplit ==
  ASSUME NEW entries, NEW ts, NEW us \in SUBSET ts, IsFiniteSet(ts),
         \A t \in ts : entries[t].count \in Nat
  PROVE  /\ CountOf(entries, us) \in Nat /\ CountOf(entries, ts \ us) \in Nat
         /\ CountOf(entries, ts) = CountOf(entries, us) + CountOf(entries, ts \ us)
<1>1. IsFiniteSet(us) /\ IsFiniteSet(ts \ us)
  BY FS_Subset
<1>2. /\ IsFiniteSet(Counted(entries, us)) /\ CountOf(entries, us) \in Nat
      /\ IsFiniteSet(Counted(entries, ts \ us)) /\ CountOf(entries, ts \ us) \in Nat
  BY <1>1, CountedFinite
<1>3. Counted(entries, ts) = Counted(entries, us) \cup Counted(entries, ts \ us)
  BY DEF Counted
<1>4. Counted(entries, us) \cap Counted(entries, ts \ us) = {}
  BY DEF Counted
<1> HIDE DEF Counted
<1>5. Cardinality(Counted(entries, us) \cup Counted(entries, ts \ us))
        = Cardinality(Counted(entries, us)) + Cardinality(Counted(entries, ts \ us))
  <2>1. Cardinality(Counted(entries, us)) \in Nat /\ Cardinality(Counted(entries, ts \ us)) \in Nat
    BY <1>2, FS_CardinalityType
  <2>2. Cardinality(Counted(entries, us) \cap Counted(entries, ts \ us)) = 0
    BY <1>4, FS_EmptySet
  <2>3. Cardinality(Counted(entries, us) \cup Counted(entries, ts \ us))
          = Cardinality(Counted(entries, us)) + Cardinality(Counted(entries, ts \ us))
              - Cardinality(Counted(entries, us) \cap Counted(entries, ts \ us))
    BY <1>2, FS_Union
  <2> QED BY <2>1, <2>2, <2>3
<1> QED BY <1>2, <1>3, <1>5 DEF CountOf, Counted

(* Only the counts of the entries matter.                                   *)
LEMMA CountSame ==
  ASSUME NEW e, NEW f, NEW ts, \A t \in ts : e[t].count = f[t].count
  PROVE  CountOf(e, ts) = CountOf(f, ts)
<1>1. {{t} \X (1 .. e[t].count) : t \in ts} = {{t} \X (1 .. f[t].count) : t \in ts}
  OBVIOUS
<1> QED BY <1>1 DEF CountOf

------------------------------------------------------------------------------
(* An entry the snapshot check accepts, of the parts an entry has.           *)
EntryOK(e) ==
  /\ e = [score |-> e.score, confidence |-> e.confidence, count |-> e.count,
          positive |-> e.positive, negative |-> e.negative, neutral |-> e.neutral,
          boundaries |-> e.boundaries, updated |-> e.updated, expires |-> e.expires]
  /\ e.count \in Nat /\ e.positive \in Nat /\ e.negative \in Nat /\ e.neutral \in Nat
  /\ e.expires \in Nat
  /\ EntryAccepted(e)

(* A profile of such entries whose total is what they count.                *)
ProfileOK(p) ==
  /\ p = [updated |-> p.updated, count |-> p.count, entries |-> p.entries]
  /\ p.entries = [t \in DOMAIN p.entries |-> p.entries[t]]
  /\ DOMAIN p.entries \subseteq Targets
  /\ \A t \in DOMAIN p.entries : EntryOK(p.entries[t])
  /\ p.count = CountOf(p.entries, DOMAIN p.entries)

(* Such a profile passes the check of a snapshot.                           *)
LEMMA ProfileAccepted ==
  ASSUME NEW p, ProfileOK(p) PROVE SnapshotAccepted(p) /\ p.count \in Nat
<1>1. IsFiniteSet(DOMAIN p.entries)
  BY ProfileAssumption, FS_Subset DEF ProfileOK
<1>2. CountOf(p.entries, DOMAIN p.entries) \in Nat
  BY <1>1, CountedFinite DEF ProfileOK, EntryOK
<1> QED BY <1>2 DEF ProfileOK, EntryOK, SnapshotAccepted

(* A new profile is in order.                                               *)
LEMMA EmptyProfileOK == ASSUME NEW now PROVE ProfileOK(EmptyProfile(now))
<1> DEFINE p == EmptyProfile(now)
<1>1. DOMAIN p.entries = {} /\ p.count = 0 /\ p.entries = <<>>
  BY DEF EmptyProfile
<1>2. p.entries = [t \in DOMAIN p.entries |-> p.entries[t]]
  BY <1>1
<1>3. CountOf(p.entries, {}) = 0
  BY FS_EmptySet DEF CountOf
<1> QED BY <1>1, <1>2, <1>3 DEF ProfileOK, EmptyProfile

(* Forgetting entries, and taking what they count from the total.           *)
LEMMA WithoutOK ==
  ASSUME NEW p, ProfileOK(p), NEW ts \in SUBSET DOMAIN p.entries, NEW q,
         q = [updated |-> q.updated, count |-> AtLeastZero(p.count - CountOf(p.entries, ts)),
              entries |-> Without(p, ts).entries]
  PROVE  ProfileOK(q)
<1>1. IsFiniteSet(DOMAIN p.entries)
  BY ProfileAssumption, FS_Subset DEF ProfileOK
<1>2. /\ CountOf(p.entries, ts) \in Nat /\ CountOf(p.entries, DOMAIN p.entries \ ts) \in Nat
      /\ p.count = CountOf(p.entries, ts) + CountOf(p.entries, DOMAIN p.entries \ ts)
  <2>1. \A t \in DOMAIN p.entries : p.entries[t].count \in Nat
    BY DEF ProfileOK, EntryOK
  <2>2. p.count = CountOf(p.entries, DOMAIN p.entries)
    BY DEF ProfileOK
  <2> QED BY <1>1, <2>1, <2>2, CountSplit
<1>3. q.count = CountOf(p.entries, DOMAIN p.entries \ ts)
  BY <1>2 DEF AtLeastZero
<1>4. q.entries = [t \in DOMAIN p.entries \ ts |-> p.entries[t]]
  <2>1. p = [updated |-> p.updated, count |-> p.count, entries |-> p.entries]
    BY DEF ProfileOK
  <2> QED BY <2>1 DEF Without
<1>5. CountOf(q.entries, DOMAIN p.entries \ ts) = CountOf(p.entries, DOMAIN p.entries \ ts)
  BY <1>4, CountSame
<1> QED BY <1>3, <1>4, <1>5 DEF ProfileOK

(* Pruning keeps a profile in order, and leaves what has not expired.       *)
LEMMA PrunedOK ==
  ASSUME NEW p, ProfileOK(p), NEW now
  PROVE  /\ ProfileOK(Pruned(p, now))
         /\ Pruned(p, now).entries = [t \in DOMAIN p.entries \ ExpiredTargets(p.entries, now) |-> p.entries[t]]
<1> DEFINE gone == ExpiredTargets(p.entries, now)
           q == Pruned(p, now)
<1>1. gone \in SUBSET DOMAIN p.entries
  BY DEF ExpiredTargets
<1>2. p.count \in Nat
  BY ProfileAccepted
<1>3. p = [updated |-> p.updated, count |-> p.count, entries |-> p.entries]
  BY DEF ProfileOK
<1> HIDE DEF gone
<1>4. q = [updated |-> q.updated, count |-> AtLeastZero(p.count - CountOf(p.entries, gone)),
           entries |-> Without(p, gone).entries]
  <2>1. Without(p, gone) = [updated |-> p.updated, count |-> p.count, entries |-> Without(p, gone).entries]
    BY <1>3 DEF Without
  <2>2. CASE CountOf(p.entries, gone) = 0
    <3>1. AtLeastZero(p.count - CountOf(p.entries, gone)) = p.count
      BY <1>2, <2>2 DEF AtLeastZero
    <3>2. q = Without(p, gone)
      BY <2>2 DEF Pruned, gone
    <3> QED BY <2>1, <3>1, <3>2
  <2>3. CASE CountOf(p.entries, gone) # 0
    <3>1. q = [Without(p, gone) EXCEPT !.count = AtLeastZero(p.count - CountOf(p.entries, gone)),
                                       !.updated = Later(p.updated, now)]
      BY <2>3 DEF Pruned, gone
    <3> QED BY <2>1, <3>1
  <2> QED BY <2>2, <2>3
<1> HIDE DEF q
<1>5. ProfileOK(q)
  BY <1>1, <1>4, WithoutOK
<1>6. q.entries = [t \in DOMAIN p.entries \ gone |-> p.entries[t]]
  BY <1>3, <1>4 DEF Without
<1> QED BY <1>5, <1>6 DEF q, gone

(* Trimming keeps a profile in order.                                       *)
LEMMA TrimmedOK == ASSUME NEW p, ProfileOK(p) PROVE ProfileOK(Trimmed(p))
<1> DEFINE out == Dropped(p.entries)
           q == Trimmed(p)
<1>1. out \in SUBSET DOMAIN p.entries
  BY DEF Dropped
<1>2. p = [updated |-> p.updated, count |-> p.count, entries |-> p.entries]
  BY DEF ProfileOK
<1> HIDE DEF out
<1>3. q = [updated |-> q.updated, count |-> AtLeastZero(p.count - CountOf(p.entries, out)),
           entries |-> Without(p, out).entries]
  <2>1. Without(p, out) = [updated |-> p.updated, count |-> p.count, entries |-> Without(p, out).entries]
    BY <1>2 DEF Without
  <2>2. q = [Without(p, out) EXCEPT !.count = AtLeastZero(p.count - CountOf(p.entries, out))]
    BY DEF Trimmed, out
  <2> QED BY <2>1, <2>2
<1> HIDE DEF q
<1>4. ProfileOK(q)
  BY <1>1, <1>3, WithoutOK
<1> QED BY <1>4 DEF q

------------------------------------------------------------------------------
(* A score that is clamped is in its range.                                 *)
LEMMA ClampRange == ASSUME NEW x \in Int PROVE Clamp(x) \in -One .. One
  BY ProfileAssumption DEF Clamp

(* What is known of a signal.                                               *)
LEMMA SignalParts ==
  ASSUME NEW s \in Signals
  PROVE  /\ s.target \in Targets /\ s.polarity \in {"positive", "negative", "neutral"}
         /\ s.weight \in 0 .. One /\ s.confidence \in 0 .. One /\ Delta(s) \in Int
         /\ s.expires \in Nat
         /\ Counts(s, "positive") \in Nat /\ Counts(s, "negative") \in Nat
         /\ Counts(s, "neutral") \in Nat
         /\ Counts(s, "positive") + Counts(s, "negative") + Counts(s, "neutral") = 1
<1>1. /\ s.target \in Targets /\ s.polarity \in {"positive", "negative", "neutral"}
      /\ s.weight \in 0 .. One /\ s.confidence \in 0 .. One /\ s.expires \in 0 .. Never
  BY DEF Signals
<1>2. One \in Nat /\ Never \in Nat
  BY ProfileAssumption
<1> QED BY <1>1, <1>2 DEF Delta, Counts

(* A new entry is in order, and counts one signal.                          *)
LEMMA FreshOK == ASSUME NEW s \in Signals, NEW now PROVE EntryOK(Fresh(s, now)) /\ Fresh(s, now).count = 1
<1> DEFINE e == Fresh(s, now)
<1>1. /\ e.score \in -One .. One /\ e.confidence \in 0 .. One
  BY SignalParts, ClampRange DEF Fresh
<1>2. e.positive + e.negative + e.neutral = e.count /\ e.count = 1
  BY SignalParts DEF Fresh
<1>3. /\ e.positive \in Nat /\ e.negative \in Nat /\ e.neutral \in Nat /\ e.boundaries # {}
      /\ e.expires \in Nat
  BY SignalParts DEF Fresh
<1>4. e = [score |-> e.score, confidence |-> e.confidence, count |-> e.count,
          positive |-> e.positive, negative |-> e.negative, neutral |-> e.neutral,
          boundaries |-> e.boundaries, updated |-> e.updated, expires |-> e.expires]
  BY DEF Fresh
<1> HIDE DEF e
<1>5. EntryOK(e) /\ e.count = 1
  BY <1>1, <1>2, <1>3, <1>4 DEF EntryOK, EntryAccepted
<1> QED BY <1>5 DEF e

(* An entry with one more signal is in order, and counts one more.          *)
LEMMA AppliedOK ==
  ASSUME NEW d, EntryOK(d), NEW s \in Signals, NEW now
  PROVE  EntryOK(Applied(d, s, now)) /\ Applied(d, s, now).count = d.count + 1
<1> DEFINE e == Applied(d, s, now)
<1>0. d.score \in Int /\ d.confidence \in 0 .. One /\ One \in Nat
  BY ProfileAssumption DEF EntryOK, EntryAccepted
<1>1. e.score \in -One .. One /\ e.confidence \in 0 .. One
  <2>1. d.score + Delta(s) \in Int
    BY <1>0, SignalParts
  <2>2. Clamp(d.score + Delta(s)) \in -One .. One
    BY <2>1, ClampRange
  <2> QED BY <1>0, <2>2, SignalParts DEF Applied, Later
<1>2. /\ e.positive = d.positive + Counts(s, "positive") /\ e.negative = d.negative + Counts(s, "negative")
      /\ e.neutral = d.neutral + Counts(s, "neutral") /\ e.count = d.count + 1 /\ e.boundaries # {}
      /\ e.expires \in Nat
  BY SignalParts DEF Applied, EntryOK, Later
<1>3. /\ e.positive \in Nat /\ e.negative \in Nat /\ e.neutral \in Nat /\ e.count \in Nat
      /\ e.positive + e.negative + e.neutral = e.count
  <2> HIDE DEF e
  <2>1. /\ d.positive \in Nat /\ d.negative \in Nat /\ d.neutral \in Nat /\ d.count \in Nat
        /\ d.positive + d.negative + d.neutral = d.count
    BY DEF EntryOK, EntryAccepted
  <2> QED BY <1>2, <2>1, SignalParts
<1>4. e = [score |-> e.score, confidence |-> e.confidence, count |-> e.count,
          positive |-> e.positive, negative |-> e.negative, neutral |-> e.neutral,
          boundaries |-> e.boundaries, updated |-> e.updated, expires |-> e.expires]
  BY DEF Applied
<1> HIDE DEF e
<1>5. EntryOK(e) /\ e.count = d.count + 1
  BY <1>1, <1>2, <1>3, <1>4 DEF EntryOK, EntryAccepted
<1> QED BY <1>5 DEF e

(* A profile with one more signal is in order.                              *)
LEMMA WithSignalOK ==
  ASSUME NEW p, ProfileOK(p), NEW s \in Signals, NEW now PROVE ProfileOK(WithSignal(p, s, now))
<1> DEFINE q == WithSignal(p, s, now)
           t == s.target
           old == DOMAIN p.entries \ {t}
           own == IF t \in DOMAIN p.entries THEN Applied(p.entries[t], s, now) ELSE Fresh(s, now)
<1>1. /\ q = [updated |-> q.updated, count |-> p.count + 1, entries |-> q.entries]
      /\ q.entries = [u \in DOMAIN p.entries \cup {t} |-> IF u # t THEN p.entries[u] ELSE own]
  BY DEF WithSignal
<1>2. IsFiniteSet(DOMAIN p.entries) /\ DOMAIN p.entries \subseteq Targets
  BY ProfileAssumption, FS_Subset DEF ProfileOK
<1>3. EntryOK(own) /\ own.count \in Nat
        /\ own.count = 1 + (IF t \in DOMAIN p.entries THEN p.entries[t].count ELSE 0)
  BY FreshOK, AppliedOK DEF ProfileOK, EntryOK
<1>4. t \in Targets
  BY SignalParts
<1> HIDE DEF q, own, t
<1>5. q.entries = [u \in DOMAIN q.entries |-> q.entries[u]] /\ DOMAIN q.entries = DOMAIN p.entries \cup {t}
  BY <1>1
<1>6. \A u \in DOMAIN q.entries : EntryOK(q.entries[u])
  BY <1>1, <1>3 DEF ProfileOK
<1>7. CountOf(q.entries, old) = CountOf(p.entries, old)
  <2>1. \A u \in old : q.entries[u].count = p.entries[u].count
    BY <1>1
  <2> QED BY <2>1, CountSame
<1>8. CountOf(q.entries, old \cup {t}) = CountOf(q.entries, old) + own.count
  <2>1. IsFiniteSet(old) /\ \A u \in old : q.entries[u].count \in Nat
    BY <1>2, <1>5, <1>6, FS_Subset DEF EntryOK
  <2>2. IsFiniteSet(Counted(q.entries, old))
    BY <2>1, CountedFinite
  <2>3. t \notin old /\ q.entries[t].count \in Nat /\ q.entries[t] = own
    BY <1>1, <1>3
  <2> HIDE DEF old
  <2> QED BY <2>2, <2>3, CountMore
<1>9. p.count = CountOf(p.entries, old) + IF t \in DOMAIN p.entries THEN p.entries[t].count ELSE 0
  <2>0. \A u \in DOMAIN p.entries : p.entries[u].count \in Nat
    BY DEF ProfileOK, EntryOK
  <2>1. IsFiniteSet(old) /\ IsFiniteSet(Counted(p.entries, old)) /\ CountOf(p.entries, old) \in Nat
    BY <1>2, <2>0, FS_Subset, CountedFinite
  <2>2. CASE t \in DOMAIN p.entries
    <3>1. t \notin old /\ old \cup {t} = DOMAIN p.entries
      BY <2>2
    <3> HIDE DEF old
    <3>2. p.count = CountOf(p.entries, DOMAIN p.entries)
      BY DEF ProfileOK
    <3>3. CountOf(p.entries, old \cup {t}) = CountOf(p.entries, old) + p.entries[t].count
      BY <2>0, <2>1, <2>2, <3>1, CountMore
    <3> QED BY <2>2, <3>1, <3>2, <3>3
  <2>3. CASE t \notin DOMAIN p.entries
    <3>1. old = DOMAIN p.entries
      BY <2>3
    <3>2. p.count = CountOf(p.entries, old)
      BY <3>1 DEF ProfileOK
    <3> QED BY <2>1, <2>3, <3>2
  <2> QED BY <2>2, <2>3
<1>10. CountOf(p.entries, old) \in Nat
  <2>1. IsFiniteSet(old) /\ \A u \in old : p.entries[u].count \in Nat
    BY <1>2, FS_Subset DEF ProfileOK, EntryOK
  <2> QED BY <2>1, CountedFinite
<1>11. old \cup {t} = DOMAIN q.entries
  BY <1>5
<1>12. \A u \in DOMAIN p.entries : p.entries[u].count \in Nat
  BY DEF ProfileOK, EntryOK
<1> HIDE DEF old
<1>13. q.count = CountOf(q.entries, DOMAIN q.entries)
  <2>1. q.count = p.count + 1 /\ CountOf(q.entries, DOMAIN q.entries) = CountOf(p.entries, old) + own.count
    BY <1>1, <1>7, <1>8, <1>11
  <2>2. CASE t \in DOMAIN p.entries
    <3>1. p.entries[t].count \in Nat
      BY <1>12, <2>2
    <3> QED BY <1>3, <1>9, <1>10, <2>1, <2>2, <3>1
  <2>3. CASE t \notin DOMAIN p.entries
    BY <1>3, <1>9, <1>10, <2>1, <2>3
  <2> QED BY <2>2, <2>3
<1>14. ProfileOK(q)
  <2>1. DOMAIN q.entries \subseteq Targets
    BY <1>2, <1>4, <1>5
  <2>2. q = [updated |-> q.updated, count |-> q.count, entries |-> q.entries]
    BY <1>1
  <2> QED BY <1>5, <1>6, <1>13, <2>1, <2>2 DEF ProfileOK
<1> QED BY <1>14 DEF q
------------------------------------------------------------------------------
(* One turn of the loop over a batch.                                       *)
BatchStep(p, s, now) == IF Accepted(s, now) THEN WithSignal(p, s, now) ELSE p

(* f holds the profile after each of the first n signals.                   *)
IsBatchRun(f, p, batch, now, n) ==
  f = [i \in 0 .. n |-> IF i = 0 THEN p ELSE BatchStep(f[i - 1], batch[i], now)]

(* A batch has a run, one signal after the other.                           *)
LEMMA BatchRunExists ==
  ASSUME NEW p, NEW batch, NEW now, NEW n \in Nat
  PROVE  \E f : IsBatchRun(f, p, batch, now, n)
<1> DEFINE S == {k \in Nat : \E f : IsBatchRun(f, p, batch, now, k)}
<1>1. 0 \in S
  <2> DEFINE f == [i \in 0 .. 0 |-> p]
  <2>1. IsBatchRun(f, p, batch, now, 0)
    BY DEF IsBatchRun
  <2> QED BY <2>1
<1>2. ASSUME NEW k \in Nat, k \in S PROVE k + 1 \in S
  <2>1. PICK f : IsBatchRun(f, p, batch, now, k)
    BY <1>2
  <2> DEFINE g == [i \in 0 .. k + 1 |-> IF i <= k THEN f[i] ELSE BatchStep(f[k], batch[k + 1], now)]
  <2>2. \A i \in 0 .. k : g[i] = f[i]
    OBVIOUS
  <2>3. ASSUME NEW i \in 0 .. k + 1
        PROVE  g[i] = IF i = 0 THEN p ELSE BatchStep(g[i - 1], batch[i], now)
    <3>1. CASE i <= k
      <4>1. f[i] = IF i = 0 THEN p ELSE BatchStep(f[i - 1], batch[i], now)
        BY <2>1, <3>1 DEF IsBatchRun
      <4>2. i # 0 => g[i - 1] = f[i - 1]
        BY <2>2, <3>1
      <4> HIDE DEF g
      <4> QED BY <2>2, <3>1, <4>1, <4>2
    <3>2. CASE i = k + 1
      <4>1. g[i] = BatchStep(f[k], batch[k + 1], now) /\ g[i - 1] = f[k] /\ i # 0
        BY <3>2
      <4> QED BY <3>2, <4>1
    <3> QED BY <3>1, <3>2
  <2>4. g = [i \in 0 .. k + 1 |-> g[i]]
    OBVIOUS
  <2> HIDE DEF g
  <2>5. g = [i \in 0 .. k + 1 |-> IF i = 0 THEN p ELSE BatchStep(g[i - 1], batch[i], now)]
    BY <2>3, <2>4
  <2>6. IsBatchRun(g, p, batch, now, k + 1)
    BY <2>5 DEF IsBatchRun
  <2> QED BY <2>6
<1>3. Nat \subseteq S
  <2> HIDE DEF S
  <2> QED BY <1>1, <1>2, SetInduction
<1> QED BY <1>3

(* What the loop makes is the end of a run.                                 *)
LEMMA WithBatchIsRun ==
  ASSUME NEW p, NEW batch, NEW now, Len(batch) \in Nat
  PROVE  \E f : /\ IsBatchRun(f, p, batch, now, Len(batch))
                /\ WithBatch(p, batch, now) = f[Len(batch)]
<1> DEFINE R(f) == f = [i \in 0 .. Len(batch) |->
                   IF i = 0 THEN p
                   ELSE IF Accepted(batch[i], now) THEN WithSignal(f[i - 1], batch[i], now)
                   ELSE f[i - 1]]
<1>1. ASSUME NEW f PROVE R(f) <=> IsBatchRun(f, p, batch, now, Len(batch))
  BY DEF IsBatchRun, BatchStep
<1>2. \E f : R(f)
  BY <1>1, BatchRunExists
<1>3. R(CHOOSE f : R(f))
  <2> HIDE DEF R
  <2> QED BY <1>2
<1>4. WithBatch(p, batch, now) = (CHOOSE f : R(f))[Len(batch)]
  BY DEF WithBatch
<1> HIDE DEF R
<1> QED BY <1>1, <1>3, <1>4

(* A batch of signals keeps the total and the scores of a profile in order.  *)
LEMMA WithBatchOK ==
  ASSUME NEW p, ProfileOK(p), NEW batch \in Seq(Signals), NEW now
  PROVE  ProfileOK(WithBatch(p, batch, now))
<1> DEFINE n == Len(batch)
<1>1. n \in Nat
  OBVIOUS
<1>2. PICK f : IsBatchRun(f, p, batch, now, n) /\ WithBatch(p, batch, now) = f[n]
  BY <1>1, WithBatchIsRun
<1> DEFINE S == {k \in Nat : k <= n => ProfileOK(f[k])}
<1>3. 0 \in S
  BY <1>1, <1>2 DEF IsBatchRun
<1>4. ASSUME NEW k \in Nat, k \in S PROVE k + 1 \in S
  <2> SUFFICES ASSUME k + 1 <= n PROVE ProfileOK(f[k + 1])
    OBVIOUS
  <2>1. f[k + 1] = BatchStep(f[k], batch[k + 1], now) /\ batch[k + 1] \in Signals
    BY <1>2 DEF IsBatchRun
  <2>2. ProfileOK(f[k])
    BY <1>4
  <2> QED BY <2>1, <2>2, WithSignalOK DEF BatchStep
<1>5. Nat \subseteq S
  <2> HIDE DEF S
  <2> QED BY <1>3, <1>4, SetInduction
<1> QED BY <1>1, <1>2, <1>5

------------------------------------------------------------------------------
(* The entries of a profile that do not expire by a time.                   *)
AliveAt(p, now) == [t \in DOMAIN p.entries \ ExpiredTargets(p.entries, now) |-> p.entries[t]]

(* The inductive invariant: the store's profile is in order, and so is the   *)
(* one that was saved, which has the same entries left.                     *)
StoreInv ==
  /\ clock \in Nat
  /\ profile # NoProfile => ProfileOK(profile)
  /\ saved # NoProfile =>
       /\ ProfileOK(saved) /\ ProfileOK(profile)
       /\ AliveAt(saved, clock) = AliveAt(profile, clock)

(* What is alive of a profile that was pruned is what was alive.             *)
LEMMA PrunedAlive ==
  ASSUME NEW p, ProfileOK(p), NEW now PROVE AliveAt(Pruned(p, now), now) = AliveAt(p, now)
<1>1. Pruned(p, now).entries = AliveAt(p, now)
  BY PrunedOK DEF AliveAt
<1> QED BY <1>1 DEF AliveAt, ExpiredTargets

(* What is alive later was alive before.                                    *)
LEMMA LaterAlive ==
  ASSUME NEW p, ProfileOK(p), NEW q, ProfileOK(q), NEW now \in Nat, AliveAt(p, now) = AliveAt(q, now)
  PROVE  AliveAt(p, now + 1) = AliveAt(q, now + 1)
<1> DEFINE a == AliveAt(p, now)
<1>1. \A t \in DOMAIN p.entries : p.entries[t].expires \in Nat
  BY DEF ProfileOK, EntryOK
<1>2. \A t \in DOMAIN q.entries : q.entries[t].expires \in Nat
  BY DEF ProfileOK, EntryOK
<1>3. AliveAt(p, now + 1) = [t \in {u \in DOMAIN a : a[u].expires > now + 1} |-> a[t]]
  BY <1>1 DEF AliveAt, ExpiredTargets
<1>4. AliveAt(q, now + 1) = [t \in {u \in DOMAIN a : a[u].expires > now + 1} |-> a[t]]
  <2> DEFINE b == AliveAt(q, now)
  <2>1. AliveAt(q, now + 1) = [t \in {u \in DOMAIN b : b[u].expires > now + 1} |-> b[t]]
    BY <1>2 DEF AliveAt, ExpiredTargets
  <2>2. a = b
    OBVIOUS
  <2> HIDE DEF a, b
  <2> QED BY <2>1, <2>2
<1> QED BY <1>3, <1>4

(* Nothing is stored at the start.                                          *)
LEMMA InitStoreInv == Init => StoreInv
  BY DEF Init, StoreInv

(* ingestSignals keeps the invariant.                                       *)
LEMMA IngestStoreInv ==
  ASSUME StoreInv, NEW batch \in Batches, NEW now \in 0 .. clock, IngestSignals(batch, now)
  PROVE  StoreInv'
<1>1. batch \in Seq(Signals)
  BY ProfileAssumption
<1>2. ProfileOK(Base(now))
  BY EmptyProfileOK DEF Base, StoreInv
<1>3. ProfileOK(Ingested(batch, now))
  <2>1. ProfileOK(WithBatch(Base(now), batch, now))
    BY <1>1, <1>2, WithBatchOK
  <2>2. ProfileOK(Pruned(WithBatch(Base(now), batch, now), now))
    BY <2>1, PrunedOK
  <2> QED BY <2>2, TrimmedOK DEF Ingested
<1>4. profile' = Ingested(batch, now) /\ saved' = profile' /\ clock' = clock
  BY DEF IngestSignals
<1> QED BY <1>3, <1>4 DEF StoreInv

(* Every step keeps the invariant.                                          *)
LEMMA StepStoreInv == StoreInv /\ [Next]_vars => StoreInv'
<1> SUFFICES ASSUME StoreInv, [Next]_vars PROVE StoreInv'
  OBVIOUS
<1>1. CASE \E batch \in Batches, now \in 0 .. clock : IngestSignals(batch, now)
  BY <1>1, IngestStoreInv
<1>2. CASE (\E batch \in Batches : IngestRefused(batch)) \/ UNCHANGED vars
  <2>1. UNCHANGED vars
    BY <1>2 DEF IngestRefused
  <2> QED BY <2>1 DEF StoreInv, vars, AliveAt
<1>3. CASE ReadProfile
  <2>1. /\ profile' = IF profile = NoProfile THEN NoProfile ELSE Pruned(profile, clock)
        /\ saved' = saved /\ clock' = clock
    BY <1>3 DEF ReadProfile
  <2>2. CASE profile = NoProfile
    BY <2>1, <2>2 DEF StoreInv
  <2>3. CASE profile # NoProfile
    <3>1. ProfileOK(profile)
      BY <2>3 DEF StoreInv
    <3>2. ProfileOK(Pruned(profile, clock)) /\ AliveAt(Pruned(profile, clock), clock) = AliveAt(profile, clock)
      BY <3>1, PrunedOK, PrunedAlive
    <3> QED BY <2>1, <2>3, <3>2 DEF StoreInv
  <2> QED BY <2>2, <2>3
<1>4. CASE DeleteProfile
  BY <1>4 DEF DeleteProfile, StoreInv
<1>5. CASE Tick
  <2>1. clock' = clock + 1 /\ profile' = profile /\ saved' = saved
    BY <1>5 DEF Tick
  <2>2. saved # NoProfile => AliveAt(saved, clock + 1) = AliveAt(profile, clock + 1)
    BY LaterAlive DEF StoreInv
  <2> QED BY <2>1, <2>2 DEF StoreInv
<1> QED BY <1>1, <1>2, <1>3, <1>4, <1>5 DEF Next

(* The store keeps its invariant, whatever batches it ingests, reads it     *)
(* serves and time passes in between.                                       *)
THEOREM StoreInvariant == Spec => []StoreInv
<1> QED BY InitStoreInv, StepStoreInv, PTL DEF Spec

(* Whatever sequence of batches, expiries, trims and reads made it, the     *)
(* profile of the store passes the check a persisted snapshot must pass.    *)
THEOREM ProfileStaysPersistable == Spec => []StoreStaysPersistable
<1>1. StoreInv => StoreStaysPersistable
  BY ProfileAccepted DEF StoreInv, StoreStaysPersistable
<1> QED BY StoreInvariant, <1>1, PTL

(* A snapshot that was persisted and is read back later shows the same      *)
(* entries and total as the store that went on living.                      *)
THEOREM ProfilePersistedCopyAgrees == Spec => []PersistedCopyAgrees
<1>1. StoreInv => PersistedCopyAgrees
  <2> SUFFICES ASSUME StoreInv, saved # NoProfile
               PROVE  /\ Normalized(saved, clock).entries = Pruned(profile, clock).entries
                      /\ Normalized(saved, clock).count = Pruned(profile, clock).count
    BY DEF PersistedCopyAgrees
  <2>1. ProfileOK(saved) /\ ProfileOK(profile) /\ AliveAt(saved, clock) = AliveAt(profile, clock)
    BY DEF StoreInv
  <2>2. saved = [updated |-> saved.updated, count |-> saved.count, entries |-> saved.entries]
    BY <2>1 DEF ProfileOK
  <2> DEFINE gone == ExpiredTargets(saved.entries, clock)
             q == Normalized(saved, clock)
             live == Pruned(profile, clock)
  <2>3. q.entries = AliveAt(saved, clock) /\ q.count = CountOf(saved.entries, DOMAIN saved.entries \ gone)
    BY <2>2 DEF Normalized, Without, AliveAt
  <2>4. CountOf(saved.entries, DOMAIN saved.entries \ gone)
          = CountOf(AliveAt(saved, clock), DOMAIN saved.entries \ gone)
    <3>1. \A t \in DOMAIN saved.entries \ gone : saved.entries[t].count = AliveAt(saved, clock)[t].count
      BY DEF AliveAt
    <3> QED BY <3>1, CountSame
  <2>5. DOMAIN AliveAt(saved, clock) = DOMAIN saved.entries \ gone
    BY DEF AliveAt
  <2>6. ProfileOK(live) /\ live.entries = AliveAt(profile, clock)
    BY <2>1, PrunedOK DEF AliveAt
  <2>7. live.count = CountOf(live.entries, DOMAIN live.entries)
    BY <2>6 DEF ProfileOK
  <2> HIDE DEF gone, q, live
  <2>8. q.entries = live.entries /\ q.count = live.count
    BY <2>1, <2>3, <2>4, <2>5, <2>6, <2>7
  <2> QED BY <2>8 DEF q, live
<1> QED BY StoreInvariant, <1>1, PTL
===============================================================================
