--------------------------- MODULE SchedulingProofs ---------------------------
(***************************************************************************)
(* Proofs that asynchronous work ends as if it were done in order: the     *)
(* calls for one subject (SubjectSerializer), and the three pools of       *)
(* workers of a first session (FirstSession), each of its own              *)
(* specification.                                                          *)
(*                                                                         *)
(* SubjectSerializer, for any number of calls, readers and subjects:       *)
(* FirstInFirstOut is not inductive by itself; TailIsLast and Chain say    *)
(* how the tail stored for a subject, and the tails its calls wait for,    *)
(* line up with the order in which the calls were made.  LineInv adds that  *)
(* the order is transitive: each call has one place in the line, and a step *)
(* of the promise chain is a step of SubjectQueue.                          *)
(*                                                                         *)
(* FirstSession, for any requests, profiles, answers and limits: SessionInv *)
(* says, stage by stage, that what was collected is a function of what was *)
(* answered and not of when; and sorting, by a strict order of all there   *)
(* is, gives one list.                                                     *)
(***************************************************************************)
EXTENDS SubjectSerializer, FirstSession, LedgerOpsProofs, FiniteSetTheorems

-----------------------------------------------------------------------------
(* SubjectSerializer.                                                       *)

(* The order of arrival is total on the calls of a subject.                *)
AheadOK ==
  /\ \A x \in Calls \cup Readers : \A d \in ahead[x] :
        SubjectOf[d] = SubjectOf[x] /\ pc[d] # "idle" /\ d # x
  /\ \A c, d \in Calls :
        pc[c] # "idle" /\ pc[d] # "idle" /\ SubjectOf[c] = SubjectOf[d] /\ c # d
          => c \in ahead[d] \/ d \in ahead[c]

(* The stored tail belongs to the last unsettled call.                     *)
TailIsLast ==
  \A s \in Subjects :
    /\ tails[s] = NoCall => \A c \in Made(s) : pc[c] \in Settled
    /\ tails[s] # NoCall =>
         /\ tails[s] \in Made(s) /\ pc[tails[s]] \in Active
         /\ \A c \in Made(s) : c = tails[s] \/ c \in ahead[tails[s]]

(* What a call waits for is the last call made before it, unless all of    *)
(* those had settled.                                                      *)
Chain ==
  \A x \in Calls \cup Readers : pc[x] # "idle" =>
    \/ \A c \in ahead[x] : pc[c] \in Settled
    \/ prior[x] \in ahead[x] /\ \A c \in ahead[x] : c = prior[x] \/ c \in ahead[prior[x]]

IInv ==
  /\ TypeOK /\ AheadOK /\ TailIsLast /\ Chain
  /\ FirstInFirstOut /\ ReadAfterEarlierMutations

USE SerializerAssumption
-----------------------------------------------------------------------------
(* The invariant holds before any call is made.                             *)
LEMMA InitIInv == Init => IInv
BY DEF Init, IInv, TypeOK, AheadOK, TailIsLast, Made, Chain,
   FirstInFirstOut, ReadAfterEarlierMutations, Settled, Active

(* A new call lines up behind the last unsettled one.                       *)
LEMMA EnterIInv == ASSUME IInv, NEW c \in Calls, Enter(c) PROVE IInv'
<1> USE DEF IInv, Settled, Active
<1>1. /\ pc[c] = "idle" /\ c \notin Readers /\ SubjectOf[c] \in Subjects
      /\ pc' = [pc EXCEPT ![c] = "waiting"]
      /\ prior' = [prior EXCEPT ![c] = tails[SubjectOf[c]]]
      /\ tails' = [tails EXCEPT ![SubjectOf[c]] = c]
      /\ ahead' = [ahead EXCEPT ![c] = Made(SubjectOf[c])]
  BY DEF Enter
<1>2. TypeOK'
  BY <1>1 DEF TypeOK, Made
<1>3. \A d \in Calls : c \notin ahead[d]
  BY <1>1 DEF AheadOK
<1>4. AheadOK'
  BY <1>1, <1>3 DEF TypeOK, AheadOK, Made
<1>5. TailIsLast'
  BY <1>1, <1>3 DEF TypeOK, TailIsLast, Made
<1>6. Chain'
  BY <1>1, <1>3 DEF TypeOK, Chain, AheadOK, TailIsLast, Made
<1>7. FirstInFirstOut' /\ ReadAfterEarlierMutations'
  BY <1>1, <1>3 DEF TypeOK, AheadOK, FirstInFirstOut, ReadAfterEarlierMutations
<1> QED BY <1>2, <1>4, <1>5, <1>6, <1>7

(* A resolved tail means that every earlier call has settled.               *)
LEMMA ResolvedMeansSettled ==
  ASSUME IInv, NEW x \in Calls \cup Readers, pc[x] # "idle", TailResolved(prior[x])
  PROVE  \A d \in ahead[x] : pc[d] \in Settled
<1>1. CASE prior[x] \notin ahead[x]
  BY <1>1 DEF IInv, Chain
<1>2. CASE prior[x] \in ahead[x]
  <2>1. prior[x] \in Calls /\ pc[prior[x]] \in Settled
    BY <1>2 DEF IInv, TypeOK, TailResolved
  <2>2. \A d \in ahead[prior[x]] : pc[d] \in Settled
    BY <2>1 DEF IInv, FirstInFirstOut, Settled
  <2> QED BY <2>1, <2>2 DEF IInv, Chain
<1> QED BY <1>1, <1>2

(* Starting leaves the queue as it is.                                      *)
LEMMA StartIInv == ASSUME IInv, NEW c \in Calls, Start(c) PROVE IInv'
<1> USE DEF IInv, Settled, Active
<1>1. /\ pc[c] = "waiting" /\ pc' = [pc EXCEPT ![c] = "working"]
      /\ UNCHANGED <<tails, prior, ahead>>
  BY DEF Start
<1>2. \A d \in ahead[c] : pc[d] \in Settled
  BY <1>1, ResolvedMeansSettled DEF Start
<1>3. TypeOK' /\ AheadOK' /\ TailIsLast'
  BY <1>1 DEF TypeOK, AheadOK, TailIsLast, Made
<1>4. Chain'
  BY <1>1 DEF TypeOK, Chain
<1>5. FirstInFirstOut' /\ ReadAfterEarlierMutations'
  BY <1>1, <1>2 DEF TypeOK, AheadOK, FirstInFirstOut, ReadAfterEarlierMutations
<1> QED BY <1>3, <1>4, <1>5

(* Settling removes the stored tail only when no later call replaced it.    *)
LEMMA SettleIInv ==
  ASSUME IInv, NEW c \in Calls, NEW o \in Settled, Settle(c, o) PROVE IInv'
<1> USE DEF IInv, Settled, Active
<1>1. /\ pc[c] = "working" /\ pc' = [pc EXCEPT ![c] = o]
      /\ tails' = TailsAfter(c)
      /\ UNCHANGED <<prior, ahead>> /\ SubjectOf[c] \in Subjects
  BY DEF Settle
<1>2. \A d \in ahead[c] : pc[d] \in Settled
  BY <1>1 DEF FirstInFirstOut
<1>3. TypeOK' /\ AheadOK'
  BY <1>1 DEF TypeOK, AheadOK, TailsAfter
<1>4. TailIsLast'
  BY <1>1, <1>2 DEF TypeOK, TailIsLast, AheadOK, Made, TailsAfter
<1>5. Chain' /\ FirstInFirstOut' /\ ReadAfterEarlierMutations'
  BY <1>1 DEF TypeOK, Chain, FirstInFirstOut, ReadAfterEarlierMutations
<1> QED BY <1>3, <1>4, <1>5

(* A read takes its place in the order and changes nothing else.            *)
LEMMA ReadIInv ==
  ASSUME IInv, NEW r \in Readers, ReadBegin(r) \/ ReadEnd(r) PROVE IInv'
<1> USE DEF IInv, Settled, Active
<1>1. r \notin Calls /\ SubjectOf[r] \in Subjects
  OBVIOUS
<1>2. CASE ReadBegin(r)
  <2>1. TypeOK' /\ AheadOK' /\ TailIsLast'
    BY <1>1, <1>2 DEF ReadBegin, TailAwaited, TypeOK, AheadOK, TailIsLast, Made
  <2>2. Chain'
    BY <1>1, <1>2 DEF ReadBegin, TailAwaited, TypeOK, AheadOK, TailIsLast, Made, Chain
  <2>3. FirstInFirstOut' /\ ReadAfterEarlierMutations'
    BY <1>1, <1>2 DEF ReadBegin, TailAwaited, TypeOK, FirstInFirstOut, ReadAfterEarlierMutations
  <2> QED BY <2>1, <2>2, <2>3
<1>3. CASE ReadEnd(r)
  <2>1. \A d \in ahead[r] : pc[d] \in Settled
    BY <1>3, ResolvedMeansSettled DEF ReadEnd
  <2>2. TypeOK' /\ AheadOK' /\ TailIsLast' /\ Chain'
    BY <1>1, <1>3 DEF ReadEnd, TypeOK, AheadOK, TailIsLast, Made, Chain
  <2>3. FirstInFirstOut' /\ ReadAfterEarlierMutations'
    BY <1>1, <1>3, <2>1 DEF ReadEnd, TypeOK, FirstInFirstOut, ReadAfterEarlierMutations
  <2> QED BY <2>2, <2>3
<1> QED BY <1>2, <1>3
-----------------------------------------------------------------------------
(* The strengthened invariant holds in every reachable state.               *)
THEOREM SerializerInvariant == Spec => []IInv
<1>1. IInv /\ [Next]_vars => IInv'
  <2> SUFFICES ASSUME IInv, [Next]_vars PROVE IInv'
    OBVIOUS
  <2>1. CASE Next
    BY <2>1, EnterIInv, StartIInv, SettleIInv, ReadIInv DEF Next
  <2>2. CASE UNCHANGED vars
    BY <2>2 DEF vars, IInv, TypeOK, AheadOK, TailIsLast, Made, Chain, FirstInFirstOut,
       ReadAfterEarlierMutations
  <2> QED BY <2>1, <2>2
<1> QED BY InitIInv, <1>1, PTL DEF Spec

(* runSerialized: at most one call of a subject is inside its work, calls   *)
(* enter it in the order they were made, and awaitSubjectMutations returns  *)
(* after all earlier mutations.                                             *)
THEOREM SerializerOrder ==
  Spec => [](MutualExclusion /\ FirstInFirstOut /\ ReadAfterEarlierMutations)
<1>1. IInv => MutualExclusion
  BY DEF IInv, AheadOK, FirstInFirstOut, MutualExclusion, Settled
<1>2. IInv => FirstInFirstOut /\ ReadAfterEarlierMutations
  BY DEF IInv
<1> QED BY <1>1, <1>2, SerializerInvariant, PTL

(* awaitSubjectMutations returns only after every mutation of the subject    *)
(* that was made before it has settled.                                     *)
THEOREM SerializerReadsWait == Spec => []ReadAfterEarlierMutations
BY SerializerOrder, PTL

(* The tails map holds an entry exactly for the subjects with an unsettled  *)
(* call: it neither leaks nor forgets one.                                  *)
THEOREM SerializerNoTailLeak == Spec => []NoTailLeak
<1>1. IInv => NoTailLeak
  BY DEF IInv, TypeOK, TailIsLast, Made, NoTailLeak, Active, Settled
<1> QED BY <1>1, SerializerInvariant, PTL

-----------------------------------------------------------------------------
(* Lists of a set in a strict order of its members.                          *)

(* A strict order of all members of a set, as the set of its pairs.          *)
Orders(before, S) ==
  /\ \A c \in S : <<c, c>> \notin before
  /\ \A c, d, e \in S : <<c, d>> \in before /\ <<d, e>> \in before => <<c, e>> \in before
  /\ \A c, d \in S : c # d => <<c, d>> \in before \/ <<d, c>> \in before

(* Those before a member.                                                   *)
AheadOf(c, S, before) == {d \in S : <<d, c>> \in before}

(* A list of all members of a set, each once.                               *)
Lists(list, S) ==
  /\ Cardinality(S) \in Nat /\ list \in [1 .. Cardinality(S) -> S]
  /\ \A i, j \in 1 .. Cardinality(S) : list[i] = list[j] => i = j
  /\ \A c \in S : \E i \in 1 .. Cardinality(S) : list[i] = c

(* Sorted by a strict order, a finite set is listed: the place of a member  *)
(* is the number of those before it.                                        *)
LEMMA SortedLists ==
  ASSUME NEW S, IsFiniteSet(S), NEW before, Orders(before, S)
  PROVE  /\ Lists(SortedBy(S, before), S)
         /\ \A k \in 1 .. Cardinality(S) : Cardinality(AheadOf(SortedBy(S, before)[k], S, before)) = k - 1
<1> DEFINE n == Cardinality(S)
           A(c) == AheadOf(c, S, before)
           place == [c \in S |-> Cardinality(A(c)) + 1]
<1>1. n \in Nat
  BY FS_CardinalityType
<1>2. ASSUME NEW c \in S PROVE IsFiniteSet(A(c)) /\ Cardinality(A(c)) \in Nat /\ Cardinality(A(c)) + 1 <= n
  <2>1. A(c) \subseteq S \ {c}
    BY DEF Orders, AheadOf
  <2>2. IsFiniteSet(S \ {c}) /\ Cardinality(S \ {c}) = n - 1
    BY FS_RemoveElement
  <2> HIDE DEF A
  <2>3. IsFiniteSet(A(c)) /\ Cardinality(A(c)) <= Cardinality(S \ {c})
    BY <2>1, <2>2, FS_Subset
  <2>4. Cardinality(A(c)) \in Nat
    BY <2>3, FS_CardinalityType
  <2> QED BY <1>1, <2>2, <2>3, <2>4
<1>3. ASSUME NEW c \in S, NEW d \in S, <<c, d>> \in before PROVE Cardinality(A(c)) < Cardinality(A(d))
  <2>1. A(c) \cup {c} \subseteq A(d) /\ c \notin A(c)
    BY <1>3 DEF Orders, AheadOf
  <2> HIDE DEF A
  <2>2. IsFiniteSet(A(c) \cup {c}) /\ Cardinality(A(c) \cup {c}) = Cardinality(A(c)) + 1
    BY <1>2, <2>1, FS_AddElement
  <2>3. Cardinality(A(c) \cup {c}) <= Cardinality(A(d))
    BY <1>2, <2>1, FS_Subset
  <2> QED BY <1>2, <2>2, <2>3
<1>4. place \in [S -> 1 .. n]
  <2> HIDE DEF A, n
  <2> QED BY <1>1, <1>2
<1>5. \A c, d \in S : place[c] = place[d] => c = d
  <2> SUFFICES ASSUME NEW c \in S, NEW d \in S, place[c] = place[d], c # d PROVE FALSE
    OBVIOUS
  <2>1. Cardinality(A(c)) = Cardinality(A(d)) /\ Cardinality(A(c)) \in Nat
    <3> HIDE DEF A
    <3> QED BY <1>2
  <2>2. <<c, d>> \in before \/ <<d, c>> \in before
    BY DEF Orders
  <2> HIDE DEF A
  <2> QED BY <1>3, <2>1, <2>2
<1>6. IsFiniteSet(1 .. n) /\ Cardinality(1 .. n) = n
  <2>1. 1 \in Int /\ n \in Int
    BY <1>1
  <2> HIDE DEF n
  <2> QED BY <1>1, <2>1, FS_Interval
<1>7. place \in Surjection(S, 1 .. n)
  <2>1. place \in Injection(S, 1 .. n)
    <3> HIDE DEF place, n
    <3> QED BY <1>4, <1>5 DEF Injection, IsInjective
  <2> HIDE DEF place
  <2>2. Cardinality(S) = Cardinality(1 .. n)
    BY <1>6
  <2> HIDE DEF n
  <2> QED BY <1>6, <2>1, <2>2, FS_Injection
<1>8. \A k \in 1 .. n : \E c \in S : Cardinality(A(c)) = k - 1
  <2>1. ASSUME NEW k \in 1 .. n PROVE \E c \in S : Cardinality(A(c)) = k - 1
    <3>1. PICK c \in S : place[c] = k
      <4> HIDE DEF place, n
      <4> QED BY <1>7 DEF Surjection
    <3>2. Cardinality(A(c)) + 1 = k /\ Cardinality(A(c)) \in Nat
      <4> HIDE DEF A, n
      <4> QED BY <1>2, <3>1
    <3>3. Cardinality(A(c)) = k - 1
      <4> HIDE DEF A, n
      <4> QED BY <1>1, <3>2
    <3> QED BY <3>3
  <2> QED BY <2>1
<1> DEFINE list == SortedBy(S, before)
<1>9. list = [k \in 1 .. n |-> CHOOSE c \in S : Cardinality(A(c)) = k - 1]
  BY DEF SortedBy, AheadOf
<1>10. \A k \in 1 .. n : list[k] \in S /\ Cardinality(A(list[k])) = k - 1
  <2> HIDE DEF list, A, n
  <2> QED BY <1>8, <1>9
<1> HIDE DEF list
<1>11. DOMAIN list = 1 .. n /\ list \in [1 .. n -> S]
  <2> HIDE DEF n, A
  <2> QED BY <1>9, <1>10
<1>12. \A i, j \in 1 .. n : list[i] = list[j] => i = j
  <2> HIDE DEF n, A
  <2> QED BY <1>1, <1>10
<1>13. ASSUME NEW c \in S PROVE \E i \in 1 .. n : list[i] = c
  <2>1. place[c] \in 1 .. n
    <3> HIDE DEF place, n
    <3> QED BY <1>4
  <2>2. Cardinality(A(list[place[c]])) = place[c] - 1 /\ list[place[c]] \in S
    <3> HIDE DEF place, n, A
    <3> QED BY <1>10, <2>1
  <2>3. place[list[place[c]]] = place[c]
    <3>1. place[list[place[c]]] = Cardinality(A(list[place[c]])) + 1
      <4> DEFINE x == list[place[c]]
      <4>1. x \in S
        BY <2>2
      <4> HIDE DEF x, A
      <4>2. place[x] = Cardinality(A(x)) + 1
        BY <4>1
      <4> QED BY <4>2 DEF x
    <3> HIDE DEF place, n, A
    <3> QED BY <1>1, <2>1, <2>2, <3>1
  <2>4. list[place[c]] = c
    <3> HIDE DEF place, n, A
    <3> QED BY <1>5, <2>2, <2>3
  <2> QED BY <2>1, <2>4
<1> QED BY <1>1, <1>10, <1>11, <1>12, <1>13 DEF Lists, list

-----------------------------------------------------------------------------
(* SubjectSerializer as a queue.                                            *)

(* A set of calls of one subject, of which some came before others.         *)
Linear(U, before) ==
  /\ \A c \in U : c \notin before[c]
  /\ \A c, d \in U : d \in before[c] => before[d] \subseteq before[c]
  /\ \A c, d \in U : c # d => c \in before[d] \/ d \in before[c]

(* What the queue of a subject is mapped to: each call at the place its      *)
(* predecessors in the set leave.                                           *)
Queued(U, before) ==
  [i \in 1 .. Cardinality(U) |-> CHOOSE c \in U : Cardinality(before[c] \cap U) = i - 1]

(* A list of the calls with each at its place.                              *)
InPlace(list, U, before) ==
  /\ list \in [1 .. Cardinality(U) -> U]
  /\ \A k \in 1 .. Cardinality(U) : Cardinality(before[list[k]] \cap U) = k - 1

(* There is one list with each call at its place, and it is the mapped one.  *)
LEMMA QueuedIs ==
  ASSUME NEW U, IsFiniteSet(U), NEW before, Linear(U, before)
  PROVE  /\ Cardinality(U) \in Nat
         /\ InPlace(Queued(U, before), U, before)
         /\ \A list : InPlace(list, U, before) => list = Queued(U, before)
<1> DEFINE pairs == {p \in U \X U : p[1] \in before[p[2]]}
           Q == Queued(U, before)
           n == Cardinality(U)
<1>1. Orders(pairs, U)
  <2>1. \A c, d \in U : <<c, d>> \in pairs <=> c \in before[d]
    OBVIOUS
  <2> HIDE DEF pairs
  <2> QED BY <2>1 DEF Orders, Linear
<1>2. \A c \in U : AheadOf(c, U, pairs) = before[c] \cap U
  BY DEF AheadOf
<1>3. SortedBy(U, pairs) = Q
  <2>1. \A c \in U : {d \in U : <<d, c>> \in pairs} = before[c] \cap U
    OBVIOUS
  <2> HIDE DEF pairs
  <2>2. \A k : (CHOOSE c \in U : Cardinality({d \in U : <<d, c>> \in pairs}) = k - 1)
             = (CHOOSE c \in U : Cardinality(before[c] \cap U) = k - 1)
    <3>1. \A k : \A c \in U : (Cardinality({d \in U : <<d, c>> \in pairs}) = k - 1)
                        <=> (Cardinality(before[c] \cap U) = k - 1)
      BY <2>1, Zenon
    <3> QED BY <3>1
  <2>3. SortedBy(U, pairs) = [k \in 1 .. n |-> CHOOSE c \in U : Cardinality({d \in U : <<d, c>> \in pairs}) = k - 1]
    BY DEF SortedBy
  <2>4. Q = [k \in 1 .. n |-> CHOOSE c \in U : Cardinality(before[c] \cap U) = k - 1]
    BY DEF Queued
  <2> HIDE DEF n, Q
  <2> QED BY <2>2, <2>3, <2>4
<1> HIDE DEF pairs
<1>4. /\ Lists(Q, U)
      /\ \A k \in 1 .. n : Cardinality(AheadOf(Q[k], U, pairs)) = k - 1
  BY <1>1, <1>3, SortedLists
<1> HIDE DEF Q
<1>5. InPlace(Q, U, before) /\ n \in Nat
  BY <1>2, <1>4 DEF InPlace, Lists
<1>6. ASSUME NEW list, InPlace(list, U, before) PROVE list = Q
  <2>1. ASSUME NEW k \in 1 .. n PROVE list[k] = Q[k]
    <3>1. list[k] \in U /\ Cardinality(before[list[k]] \cap U) = k - 1
      BY <1>6 DEF InPlace
    <3>2. PICK i \in 1 .. n : Q[i] = list[k]
      BY <1>4, <3>1 DEF Lists
    <3>3. Cardinality(before[Q[i]] \cap U) = i - 1
      BY <1>5 DEF InPlace
    <3>4. i = k
      BY <1>5, <3>1, <3>2, <3>3
    <3> QED BY <3>2, <3>4
  <2> QED BY <1>5, <1>6, <2>1 DEF InPlace
<1> QED BY <1>5, <1>6 DEF Q

(* With a call, a set of calls becomes another in which all come before it.  *)
Joins(c, U, before, V, after) ==
  /\ c \notin U /\ (\A d : d \in V <=> d \in U \/ d = c) /\ U \subseteq after[c]
  /\ \A d \in U : after[d] = before[d] /\ c \notin before[d]

(* A call that comes after all others is queued behind them.                *)
LEMMA QueuedJoins ==
  ASSUME NEW U, IsFiniteSet(U), NEW before, Linear(U, before),
         NEW c, NEW V, NEW after, Joins(c, U, before, V, after), Linear(V, after)
  PROVE  Queued(V, after) = Append(Queued(U, before), c)
<1> DEFINE n == Cardinality(U)
           Q == Queued(U, before)
           R == Append(Q, c)
<1> USE DEF Joins
<1>1. n \in Nat /\ InPlace(Q, U, before)
  BY QueuedIs
<1>2. IsFiniteSet(V) /\ Cardinality(V) = n + 1
  <2>1. V = U \cup {c}
    OBVIOUS
  <2> QED BY <2>1, FS_AddElement
<1>3. /\ \A d \in U : after[d] \cap V = before[d] \cap U
      /\ after[c] \cap V = U
  BY DEF Linear
<1>4. Q \in Seq(U) /\ Len(Q) = n
  <2> HIDE DEF Q, n
  <2> QED BY <1>1 DEF InPlace, n
<1> HIDE DEF Q
<1>5. R \in [1 .. n + 1 -> V] /\ (\A k \in 1 .. n : R[k] = Q[k]) /\ R[n + 1] = c
  <2>1. Q \in Seq(V) /\ c \in V
    BY <1>4
  <2> HIDE DEF n
  <2>2. R \in Seq(V) /\ Len(R) = n + 1
    BY <1>1, <1>4, <2>1
  <2>3. \A k \in 1 .. n : R[k] = Q[k]
    BY <1>1, <1>4, <2>1
  <2>4. R[n + 1] = c
    BY <1>1, <1>4, <2>1
  <2> HIDE DEF R
  <2> QED BY <2>2, <2>3, <2>4
<1> HIDE DEF R
<1>6. ASSUME NEW k \in 1 .. n + 1 PROVE Cardinality(after[R[k]] \cap V) = k - 1
  <2>1. CASE k = n + 1
    <3>1. R[k] = c /\ after[R[k]] \cap V = U
      BY <1>3, <1>5, <2>1
    <3>2. Cardinality(after[R[k]] \cap V) = n
      BY <3>1
    <3> HIDE DEF n
    <3> QED BY <1>1, <2>1, <3>2
  <2>2. CASE k \in 1 .. n
    <3>1. R[k] \in U /\ R[k] = Q[k]
      BY <1>1, <1>5, <2>2 DEF InPlace
    <3>2. after[R[k]] \cap V = before[Q[k]] \cap U
      BY <1>3, <3>1
    <3> QED BY <1>1, <2>2, <3>2 DEF InPlace
  <2>3. k = n + 1 \/ k \in 1 .. n
    BY <1>1
  <2> QED BY <2>1, <2>2, <2>3
<1>7. InPlace(R, V, after)
  <2> HIDE DEF n
  <2> QED BY <1>2, <1>5, <1>6 DEF InPlace
<1>8. R = Queued(V, after)
  BY <1>2, <1>7, QueuedIs
<1> QED BY <1>8 DEF R, Q

(* The call that comes before all others is the head of the queue, and the  *)
(* queue without it is the tail.                                            *)
LEMMA QueuedLeaves ==
  ASSUME NEW U, IsFiniteSet(U), NEW before, Linear(U, before),
         NEW c \in U, before[c] \cap U = {}
  PROVE  /\ Queued(U, before) # <<>> /\ Head(Queued(U, before)) = c
         /\ Queued(U \ {c}, before) = Tail(Queued(U, before))
<1> DEFINE n == Cardinality(U)
           V == U \ {c}
           Q == Queued(U, before)
           R == Tail(Q)
<1>1. n \in Nat /\ InPlace(Q, U, before) /\ n > 0
  <2>1. n \in Nat /\ InPlace(Q, U, before)
    BY QueuedIs
  <2>2. n # 0
    BY FS_EmptySet
  <2> QED BY <2>1, <2>2
<1>2. IsFiniteSet(V) /\ Cardinality(V) = n - 1
  BY FS_RemoveElement
<1>4. Q \in Seq(U) /\ Len(Q) = n
  <2> HIDE DEF Q, n
  <2> QED BY <1>1 DEF InPlace, n
<1> HIDE DEF Q
<1>5. ASSUME NEW d \in U, d # c PROVE c \in before[d]
  BY <1>5 DEF Linear
<1>6. Cardinality(before[Q[1]] \cap U) = 0 /\ Q[1] \in U
  <2>1. 1 \in 1 .. n
    BY <1>1
  <2> HIDE DEF n
  <2> QED BY <1>1, <2>1 DEF InPlace, n
<1>7. Q[1] = c
  <2>1. IsFiniteSet(before[Q[1]] \cap U)
    BY FS_Intersection
  <2>2. before[Q[1]] \cap U = {}
    BY <1>6, <2>1, FS_EmptySet
  <2> QED BY <1>5, <1>6, <2>2
<1>8. ASSUME NEW k \in 2 .. n PROVE Q[k] # c /\ Q[k] \in U /\ Cardinality(before[Q[k]] \cap U) = k - 1
  <2>1. k \in 1 .. n
    BY <1>1, <1>8
  <2>2. Q[k] \in U /\ Cardinality(before[Q[k]] \cap U) = k - 1
    BY <1>1, <2>1 DEF InPlace
  <2>3. Cardinality(before[c] \cap U) = 0
    BY FS_EmptySet
  <2>4. k - 1 # 0
    BY <1>1, <1>8
  <2>5. Q[k] # c
    <3> SUFFICES ASSUME Q[k] = c PROVE FALSE
      OBVIOUS
    <3>1. Cardinality(before[c] \cap U) = k - 1
      BY <2>2
    <3> QED BY <2>3, <2>4, <3>1
  <2> QED BY <2>2, <2>5
<1>9. ASSUME NEW d \in U, d # c PROVE Cardinality(before[d] \cap V) = Cardinality(before[d] \cap U) - 1
  <2>1. before[d] \cap V = (before[d] \cap U) \ {c} /\ c \in before[d] \cap U
    BY <1>5, <1>9
  <2>2. IsFiniteSet(before[d] \cap U)
    BY FS_Intersection
  <2> DEFINE W == before[d] \cap U
  <2>3. IsFiniteSet(W) /\ c \in W
    BY <2>1, <2>2
  <2> HIDE DEF W
  <2>4. Cardinality(W \ {c}) = Cardinality(W) - 1
    BY <2>3, FS_RemoveElement
  <2> QED BY <2>1, <2>4 DEF W
<1>10. R \in [1 .. n - 1 -> U] /\ \A k \in 1 .. n - 1 : R[k] = Q[k + 1] /\ k + 1 \in 2 .. n
  <2> HIDE DEF n
  <2>1. R \in Seq(U) /\ Len(R) = n - 1
    BY <1>1, <1>4
  <2>2. \A k \in 1 .. n - 1 : R[k] = Q[k + 1] /\ k + 1 \in 2 .. n
    BY <1>1, <1>4
  <2> HIDE DEF R
  <2> QED BY <1>1, <2>1, <2>2
<1>11. InPlace(R, V, before)
  <2>1. R \in [1 .. n - 1 -> V]
    <3>1. \A k \in 1 .. n - 1 : R[k] \in V
      <4> HIDE DEF n, R
      <4> QED BY <1>8, <1>10
    <3> HIDE DEF R, V, n
    <3> QED BY <1>10, <3>1
  <2>2. ASSUME NEW k \in 1 .. n - 1 PROVE Cardinality(before[R[k]] \cap V) = k - 1
    <3>1. R[k] = Q[k + 1] /\ k + 1 \in 2 .. n
      BY <1>10
    <3>2. R[k] \in U /\ R[k] # c /\ Cardinality(before[R[k]] \cap U) = k
      <4> HIDE DEF R, n
      <4> QED BY <1>8, <3>1, <1>1
    <3> HIDE DEF R, V, n
    <3> QED BY <1>9, <3>2
  <2> HIDE DEF R, V, n
  <2> QED BY <1>2, <2>1, <2>2 DEF InPlace
<1>12. R = Queued(V, before)
  <2>1. Linear(V, before)
    BY DEF Linear
  <2> HIDE DEF V, R
  <2> QED BY <1>2, <1>11, <2>1, QueuedIs
<1>13. Q # <<>> /\ Head(Q) = c
  <2> HIDE DEF n
  <2> QED BY <1>1, <1>4, <1>7
<1> QED BY <1>12, <1>13 DEF Q

(* The order of arrival is transitive, and finitely many calls were made:    *)
(* each subject's unsettled calls stand in one line.                        *)
LineInv ==
  /\ IInv
  /\ \A c, d \in Calls : d \in ahead[c] => ahead[d] \subseteq ahead[c]
  /\ \A s \in Subjects : IsFiniteSet(Made(s))

(* Before any call there is nobody to stand in line.                        *)
LEMMA InitLineInv == Init => LineInv
<1> SUFFICES ASSUME Init PROVE LineInv
  OBVIOUS
<1>1. \A s : Made(s) = {}
  BY DEF Init, Made
<1>2. IsFiniteSet({})
  BY FS_EmptySet
<1> QED BY <1>1, <1>2, InitIInv DEF Init, LineInv

(* A step keeps the line: a call that is made comes after all that were.    *)
LEMMA StepLineInv == LineInv /\ IInv' /\ [Next]_vars => LineInv'
<1> SUFFICES ASSUME LineInv, IInv', [Next]_vars PROVE LineInv'
  OBVIOUS
<1> USE DEF Settled
<1>1. TypeOK
  BY DEF LineInv, IInv
<1>2. CASE \E c \in Calls : Enter(c)
  <2>1. PICK c \in Calls : Enter(c)
    BY <1>2
  <2>2. /\ pc[c] = "idle" /\ SubjectOf[c] \in Subjects
        /\ pc' = [pc EXCEPT ![c] = "waiting"]
        /\ ahead' = [ahead EXCEPT ![c] = Made(SubjectOf[c])]
    BY <2>1 DEF Enter
  <2>3. \A d \in Made(SubjectOf[c]) : ahead[d] \subseteq Made(SubjectOf[c])
    BY <1>1 DEF LineInv, IInv, AheadOK, TypeOK, Made
  <2>4. \A d \in Calls : c \notin ahead[d]
    BY <2>2 DEF LineInv, IInv, AheadOK
  <2>5. c \notin Made(SubjectOf[c])
    BY <2>2 DEF Made
  <2>6. \A d, e \in Calls : e \in ahead'[d] => ahead'[e] \subseteq ahead'[d]
    <3> SUFFICES ASSUME NEW d \in Calls, NEW e \in Calls, e \in ahead'[d] PROVE ahead'[e] \subseteq ahead'[d]
      OBVIOUS
    <3>1. \A x \in Calls : ahead'[x] = IF x = c THEN Made(SubjectOf[c]) ELSE ahead[x]
      BY <1>1, <2>2 DEF TypeOK
    <3>2. e # c
      BY <2>4, <2>5, <3>1
    <3>3. CASE d = c
      BY <2>3, <3>1, <3>2, <3>3
    <3>4. CASE d # c
      BY <3>1, <3>2, <3>4 DEF LineInv
    <3> QED BY <3>3, <3>4
  <2>7. ASSUME NEW s \in Subjects PROVE IsFiniteSet(Made(s)')
    <3>1. Made(s)' \subseteq Made(s) \cup {c}
      BY <1>1, <2>2 DEF TypeOK, Made
    <3>2. IsFiniteSet(Made(s) \cup {c})
      BY FS_AddElement DEF LineInv
    <3> QED BY <3>1, <3>2, FS_Subset
  <2> QED BY <2>6, <2>7 DEF LineInv
<1>3. CASE UNCHANGED ahead /\ \A c \in Calls : pc'[c] = "idle" <=> pc[c] = "idle"
  <2>1. \A s : Made(s)' = Made(s)
    BY <1>3 DEF Made
  <2> QED BY <1>3, <2>1 DEF LineInv
<1>4. CASE \E r \in Readers : ReadBegin(r)
  <2>1. PICK r \in Readers : ReadBegin(r)
    BY <1>4
  <2>2. \A c \in Calls : ahead'[c] = ahead[c] /\ pc'[c] = pc[c]
    BY <1>1, <2>1 DEF ReadBegin, TypeOK
  <2>3. \A s : Made(s)' = Made(s)
    BY <2>2 DEF Made
  <2> QED BY <2>2, <2>3 DEF LineInv
<1>5. ASSUME NEW c \in Calls, Start(c) \/ \E o \in Settled : Settle(c, o) PROVE LineInv'
  <2>1. UNCHANGED ahead /\ \A d \in Calls : pc'[d] = "idle" <=> pc[d] = "idle"
    BY <1>1, <1>5 DEF Start, Settle, TypeOK
  <2> QED BY <1>3, <2>1
<1>6. ASSUME NEW r \in Readers, ReadEnd(r) PROVE LineInv'
  <2>1. UNCHANGED ahead /\ \A d \in Calls : pc'[d] = "idle" <=> pc[d] = "idle"
    BY <1>1, <1>6 DEF ReadEnd, TypeOK
  <2> QED BY <1>3, <2>1
<1>7. CASE UNCHANGED vars
  BY <1>3, <1>7 DEF vars
<1> QED BY <1>2, <1>4, <1>5, <1>6, <1>7 DEF Next

(* The unsettled calls of a subject stand in one line.                      *)
LEMMA UnsettledInLine ==
  LineInv => \A s \in Subjects : IsFiniteSet(Unsettled(s)) /\ Linear(Unsettled(s), ahead)
<1> SUFFICES ASSUME LineInv, NEW s \in Subjects
             PROVE  IsFiniteSet(Unsettled(s)) /\ Linear(Unsettled(s), ahead)
  OBVIOUS
<1>1. Unsettled(s) \subseteq Made(s) /\ IsFiniteSet(Made(s))
  BY DEF Unsettled, Made, Active, LineInv
<1>2. IsFiniteSet(Unsettled(s))
  BY <1>1, FS_Subset
<1>3. Linear(Unsettled(s), ahead)
  BY DEF Linear, Unsettled, Active, LineInv, IInv, AheadOK
<1> QED BY <1>2, <1>3

(* They do after a step.                                                    *)
LEMMA StillInLine ==
  LineInv' => (\A s \in Subjects : IsFiniteSet(Unsettled(s)) /\ Linear(Unsettled(s), ahead))'
BY UnsettledInLine, PTL

(* The queue of the abstract specification, and its calls at work.          *)
MappedQueue == [s \in Subjects |-> Queued(Unsettled(s), ahead)]
Working == {c \in Calls : pc[c] = "working"}

(* The place of a call depends on who came before it, and on nothing else.  *)
LEMMA QueuedSame ==
  ASSUME NEW U, NEW before, NEW after, \A c \in U : after[c] = before[c]
  PROVE  Queued(U, after) = Queued(U, before)
<1>1. \A k : \A c \in U : (Cardinality(after[c] \cap U) = k - 1) <=> (Cardinality(before[c] \cap U) = k - 1)
  BY Zenon
<1>2. \A k : (CHOOSE c \in U : Cardinality(after[c] \cap U) = k - 1)
           = (CHOOSE c \in U : Cardinality(before[c] \cap U) = k - 1)
  BY <1>1
<1> DEFINE n == Cardinality(U)
<1>3. Queued(U, before) = [k \in 1 .. n |-> CHOOSE c \in U : Cardinality(before[c] \cap U) = k - 1]
  BY DEF Queued
<1>4. Queued(U, after) = [k \in 1 .. n |-> CHOOSE c \in U : Cardinality(after[c] \cap U) = k - 1]
  BY DEF Queued
<1> HIDE DEF n
<1> QED BY <1>2, <1>3, <1>4

(* A step of one call of a subject leaves the other subjects' queues.       *)
LEMMA OthersStay ==
  ASSUME NEW s \in Subjects, Unsettled(s)' = Unsettled(s),
         \A c \in Unsettled(s) : ahead'[c] = ahead[c]
  PROVE  MappedQueue'[s] = MappedQueue[s]
<1>1. MappedQueue'[s] = Queued(Unsettled(s)', ahead') /\ MappedQueue[s] = Queued(Unsettled(s), ahead)
  BY DEF MappedQueue
<1>2. Queued(Unsettled(s), ahead') = Queued(Unsettled(s), ahead)
  BY QueuedSame
<1> QED BY <1>1, <1>2

(* Before any call the queues are empty.                                    *)
LEMMA InitQueue == Init => Queue!Init
<1> SUFFICES ASSUME Init PROVE Queue!Init
  OBVIOUS
<1>1. \A s : Unsettled(s) = {}
  BY DEF Init, Unsettled, Active
<1>2. \A s \in Subjects : MappedQueue[s] = <<>>
  <2>1. Linear({}, ahead) /\ IsFiniteSet({}) /\ Cardinality({}) = 0
    BY FS_EmptySet DEF Linear
  <2>2. Queued({}, ahead) \in [1 .. 0 -> {}]
    BY <2>1, QueuedIs DEF InPlace
  <2>3. Queued({}, ahead) = <<>>
    BY <2>2
  <2> QED BY <1>1, <2>3 DEF MappedQueue
<1>3. MappedQueue = [s \in Subjects |-> <<>>]
  BY <1>2 DEF MappedQueue
<1>4. Working = {}
  BY DEF Init, Working
<1> QED BY <1>3, <1>4 DEF Queue!Init, MappedQueue, Queued, Working

(* runSerialized up to its await is the joining of a queue.                 *)
LEMMA EnterJoins ==
  ASSUME LineInv, LineInv', NEW c \in Calls, Enter(c)
  PROVE  /\ MappedQueue' = [MappedQueue EXCEPT ![SubjectOf[c]] = Append(@, c)]
         /\ \A i \in DOMAIN MappedQueue[SubjectOf[c]] : MappedQueue[SubjectOf[c]][i] # c
         /\ UNCHANGED Working
<1> DEFINE s == SubjectOf[c]
           U == Unsettled(s)
<1>1. /\ pc[c] = "idle" /\ s \in Subjects /\ TypeOK
      /\ pc' = [pc EXCEPT ![c] = "waiting"]
      /\ ahead' = [ahead EXCEPT ![c] = Made(s)]
  BY DEF Enter, LineInv, IInv
<1>2. IsFiniteSet(U) /\ Linear(U, ahead) /\ Linear(Unsettled(s)', ahead')
  <2>2. \A t \in Subjects : Linear(Unsettled(t)', ahead')
    BY StillInLine
  <2>3. \A t \in Subjects : IsFiniteSet(Unsettled(t)) /\ Linear(Unsettled(t), ahead)
    BY UnsettledInLine
  <2> HIDE DEF s
  <2>4. IsFiniteSet(Unsettled(s)) /\ Linear(Unsettled(s), ahead) /\ Linear(Unsettled(s)', ahead')
    BY <1>1, <2>2, <2>3
  <2> QED BY <2>4
<1>3. Unsettled(s)' = U \cup {c} /\ c \notin U
  BY <1>1 DEF Unsettled, Active, TypeOK
<1>4. U \subseteq ahead'[c]
  BY <1>1 DEF Unsettled, Active, Made, TypeOK
<1>5. \A d \in U : ahead'[d] = ahead[d] /\ c \notin ahead[d]
  BY <1>1, <1>3 DEF LineInv, IInv, AheadOK, TypeOK, Unsettled
<1>6. MappedQueue'[s] = Append(MappedQueue[s], c)
  <2>1. MappedQueue'[s] = Queued(Unsettled(s)', ahead') /\ MappedQueue[s] = Queued(U, ahead)
    BY <1>1 DEF MappedQueue
  <2> HIDE DEF U, s
  <2> DEFINE V == Unsettled(s)'
             after == ahead'
  <2>2. IsFiniteSet(U) /\ Linear(U, ahead) /\ Linear(V, after) /\ Joins(c, U, ahead, V, after)
    BY <1>2, <1>3, <1>4, <1>5 DEF Joins
  <2> HIDE DEF V, after
  <2>3. Queued(V, after) = Append(Queued(U, ahead), c)
    BY <2>2, QueuedJoins
  <2> QED BY <2>1, <2>3 DEF V, after
<1>7. \A t \in Subjects : t # s => MappedQueue'[t] = MappedQueue[t]
  <2> SUFFICES ASSUME NEW t \in Subjects, t # s PROVE MappedQueue'[t] = MappedQueue[t]
    OBVIOUS
  <2>1. Unsettled(t)' = Unsettled(t) /\ \A d \in Unsettled(t) : ahead'[d] = ahead[d]
    BY <1>1 DEF Unsettled, TypeOK
  <2> QED BY <2>1, OthersStay
<1>8. \A i \in DOMAIN MappedQueue[s] : MappedQueue[s][i] # c
  <2>1. MappedQueue[s] \in [1 .. Cardinality(U) -> U]
    BY <1>1, <1>2, QueuedIs DEF MappedQueue, InPlace
  <2> QED BY <1>3, <2>1
<1>9. UNCHANGED Working
  BY <1>1 DEF Working, TypeOK
<1>10. MappedQueue' = [MappedQueue EXCEPT ![s] = Append(@, c)]
  <2>1. /\ MappedQueue' = [t \in Subjects |-> MappedQueue'[t]]
        /\ MappedQueue = [t \in Subjects |-> MappedQueue[t]]
    BY DEF MappedQueue
  <2> HIDE DEF s
  <2> QED BY <1>1, <1>6, <1>7, <2>1
<1> QED BY <1>8, <1>9, <1>10

(* What a call waited for has resolved: it is the head of its queue.        *)
LEMMA StartRuns ==
  ASSUME LineInv, NEW c \in Calls, Start(c)
  PROVE  /\ MappedQueue[SubjectOf[c]] # <<>> /\ Head(MappedQueue[SubjectOf[c]]) = c
         /\ c \notin Working /\ Working' = Working \cup {c}
         /\ UNCHANGED MappedQueue
<1> DEFINE s == SubjectOf[c]
           U == Unsettled(s)
<1>1. /\ pc[c] = "waiting" /\ s \in Subjects /\ TypeOK /\ IInv
      /\ pc' = [pc EXCEPT ![c] = "working"] /\ UNCHANGED ahead
  BY DEF Start, LineInv, IInv
<1>2. ahead[c] \cap U = {} /\ c \in U
  <2>1. \A d \in ahead[c] : pc[d] \in Settled
    BY <1>1, ResolvedMeansSettled DEF Start
  <2> QED BY <1>1, <2>1 DEF Unsettled, Active, Settled
<1>3. MappedQueue[s] # <<>> /\ Head(MappedQueue[s]) = c
  <2>1. MappedQueue[s] = Queued(U, ahead) /\ IsFiniteSet(U) /\ Linear(U, ahead)
    BY <1>1, UnsettledInLine DEF MappedQueue
  <2> HIDE DEF U, s
  <2> QED BY <1>2, <2>1, QueuedLeaves
<1>4. c \notin Working /\ Working' = Working \cup {c}
  BY <1>1 DEF Working, TypeOK
<1>5. UNCHANGED MappedQueue
  <2>1. \A t \in Subjects : Unsettled(t)' = Unsettled(t)
    BY <1>1 DEF Unsettled, Active, TypeOK
  <2>2. \A t \in Subjects : MappedQueue'[t] = MappedQueue[t]
    BY <1>1, <2>1, OthersStay
  <2> QED BY <2>2 DEF MappedQueue
<1> QED BY <1>3, <1>4, <1>5

(* The finally block is the head leaving its queue.                         *)
LEMMA SettleLeaves ==
  ASSUME LineInv, NEW c \in Calls, NEW o \in Settled, Settle(c, o)
  PROVE  /\ c \in Working /\ Working' = Working \ {c}
         /\ MappedQueue' = [MappedQueue EXCEPT ![SubjectOf[c]] = Tail(@)]
<1> DEFINE s == SubjectOf[c]
           U == Unsettled(s)
<1>1. /\ pc[c] = "working" /\ s \in Subjects /\ TypeOK /\ IInv
      /\ pc' = [pc EXCEPT ![c] = o] /\ UNCHANGED ahead
  BY DEF Settle, LineInv, IInv
<1>2. ahead[c] \cap U = {} /\ c \in U
  BY <1>1 DEF IInv, FirstInFirstOut, Unsettled, Active, Settled
<1>3. Unsettled(s)' = U \ {c}
  BY <1>1 DEF Unsettled, Active, Settled, TypeOK
<1>4. MappedQueue'[s] = Tail(MappedQueue[s])
  <2>1. /\ MappedQueue[s] = Queued(U, ahead) /\ MappedQueue'[s] = Queued(Unsettled(s)', ahead)
        /\ IsFiniteSet(U) /\ Linear(U, ahead)
    BY <1>1, UnsettledInLine DEF MappedQueue
  <2> HIDE DEF U, s
  <2> QED BY <1>2, <1>3, <2>1, QueuedLeaves
<1>5. \A t \in Subjects : t # s => MappedQueue'[t] = MappedQueue[t]
  <2> SUFFICES ASSUME NEW t \in Subjects, t # s PROVE MappedQueue'[t] = MappedQueue[t]
    OBVIOUS
  <2>1. Unsettled(t)' = Unsettled(t)
    BY <1>1 DEF Unsettled, TypeOK
  <2> QED BY <1>1, <2>1, OthersStay
<1>6. MappedQueue' = [MappedQueue EXCEPT ![s] = Tail(@)]
  <2>1. /\ MappedQueue' = [t \in Subjects |-> MappedQueue'[t]]
        /\ MappedQueue = [t \in Subjects |-> MappedQueue[t]]
    BY DEF MappedQueue
  <2> HIDE DEF s
  <2> QED BY <1>1, <1>4, <1>5, <2>1
<1>7. c \in Working /\ Working' = Working \ {c}
  BY <1>1 DEF Working, TypeOK, Settled
<1> QED BY <1>6, <1>7

(* Reads and stuttering leave the queues and the calls at work.             *)
LEMMA OthersStutter ==
  ASSUME LineInv, (\E r \in Readers : ReadBegin(r) \/ ReadEnd(r)) \/ UNCHANGED vars
  PROVE  UNCHANGED <<MappedQueue, Working>>
<1>1. TypeOK
  BY DEF LineInv, IInv
<1>2. \A c \in Calls : pc'[c] = pc[c] /\ ahead'[c] = ahead[c]
  BY <1>1 DEF ReadBegin, ReadEnd, vars, TypeOK
<1>3. \A t \in Subjects : Unsettled(t)' = Unsettled(t) /\ \A c \in Unsettled(t) : ahead'[c] = ahead[c]
  BY <1>2 DEF Unsettled
<1>4. \A t \in Subjects : MappedQueue'[t] = MappedQueue[t]
  BY <1>3, OthersStay
<1>5. UNCHANGED MappedQueue
  BY <1>4 DEF MappedQueue
<1>6. UNCHANGED Working
  BY <1>2 DEF Working
<1> QED BY <1>5, <1>6

(* A step of the promise chain is a step of the queue, or changes nothing    *)
(* there.                                                                   *)
LEMMA StepQueue == LineInv /\ LineInv' /\ [Next]_vars => [Queue!Next]_(Queue!vars)
<1> SUFFICES ASSUME LineInv, LineInv', [Next]_vars PROVE [Queue!Next]_(Queue!vars)
  OBVIOUS
<1>1. ASSUME NEW c \in Calls, Enter(c) PROVE Queue!Join(c)
  BY <1>1, EnterJoins DEF Queue!Join, MappedQueue, Queued, Working
<1>2. ASSUME NEW c \in Calls, Start(c) PROVE Queue!Run(c)
  BY <1>2, StartRuns DEF Queue!Run, MappedQueue, Queued, Working
<1>3. ASSUME NEW c \in Calls, NEW o \in Settled, Settle(c, o) PROVE Queue!Leave(c)
  BY <1>3, SettleLeaves DEF Queue!Leave, MappedQueue, Queued, Working
<1>4. CASE (\E r \in Readers : ReadBegin(r) \/ ReadEnd(r)) \/ UNCHANGED vars
  BY <1>4, OthersStutter DEF Queue!vars, MappedQueue, Queued, Working
<1> QED BY <1>1, <1>2, <1>3, <1>4 DEF Next, Queue!Next

(* The promise chain of runSerialized behaves as a first-in first-out queue  *)
(* per subject: the safety part of ImplementsQueue, for any calls, readers   *)
(* and subjects.                                                            *)
THEOREM SerializerRefinesQueue == Spec => Queue!Init /\ [][Queue!Next]_(Queue!vars)
<1>1. Spec => []LineInv
  BY InitLineInv, StepLineInv, SerializerInvariant, PTL DEF Spec
<1> QED BY <1>1, InitQueue, StepQueue, PTL DEF Spec

-----------------------------------------------------------------------------
(* FirstSession: sums, and what is merged.                                  *)

(* A tuple of six numbers that exceeds another: a strict order of them all.  *)
Six == [1 .. 6 -> Int]

(* A tuple of six integers is one of them.                                  *)
LEMMA TupleIsSix ==
  ASSUME NEW a \in Int, NEW b \in Int, NEW c \in Int, NEW d \in Int, NEW e \in Int, NEW f \in Int
  PROVE  <<a, b, c, d, e, f>> \in Six
BY DEF Six

(* Compared from the head, such tuples are in a strict order of all: the    *)
(* first place that differs decides.                                        *)
LEMMA ExceedsOrders ==
  /\ \A p \in Six : ~Exceeds(p, p)
  /\ \A p, q, r \in Six : Exceeds(p, q) /\ Exceeds(q, r) => Exceeds(p, r)
  /\ \A p, q \in Six : p # q => Exceeds(p, q) \/ Exceeds(q, p)
<1>0. \A p \in Six : DOMAIN p = 1 .. 6 /\ \A i \in 1 .. 6 : p[i] \in Int
  BY DEF Six
<1>1. ASSUME NEW p \in Six PROVE ~Exceeds(p, p)
  BY <1>0 DEF Exceeds
<1>2. ASSUME NEW p \in Six, NEW q \in Six, NEW r \in Six, Exceeds(p, q), Exceeds(q, r) PROVE Exceeds(p, r)
  <2>1. PICK i \in 1 .. 6 : p[i] > q[i] /\ \A j \in 1 .. i - 1 : p[j] = q[j]
    BY <1>0, <1>2 DEF Exceeds
  <2>2. PICK k \in 1 .. 6 : q[k] > r[k] /\ \A j \in 1 .. k - 1 : q[j] = r[j]
    BY <1>0, <1>2 DEF Exceeds
  <2>3. CASE i <= k
    <3>1. p[i] > r[i]
      <4>1. i = k \/ q[i] = r[i]
        BY <2>2, <2>3
      <4> QED BY <1>0, <2>1, <2>2, <4>1
    <3>2. \A j \in 1 .. i - 1 : p[j] = r[j]
      BY <2>1, <2>2, <2>3
    <3> QED BY <1>0, <3>1, <3>2 DEF Exceeds
  <2>4. CASE k < i
    <3>1. p[k] > r[k]
      BY <1>0, <2>1, <2>2, <2>4
    <3>2. \A j \in 1 .. k - 1 : p[j] = r[j]
      BY <2>1, <2>2, <2>4
    <3> QED BY <1>0, <3>1, <3>2 DEF Exceeds
  <2> QED BY <2>3, <2>4
<1>3. ASSUME NEW p \in Six, NEW q \in Six, p # q PROVE Exceeds(p, q) \/ Exceeds(q, p)
  <2> DEFINE D == {i \in 1 .. 6 : p[i] # q[i]}
  <2>1. D # {}
    BY <1>3 DEF Six
  <2>2. D \in SUBSET Nat
    OBVIOUS
  <2>3. PICK i \in D : \A m \in D : i <= m
    <3> HIDE DEF D
    <3> QED BY <2>1, <2>2, LeastElement
  <2>4. i \in 1 .. 6 /\ \A j \in 1 .. i - 1 : p[j] = q[j]
    BY <2>3
  <2>5. p[i] > q[i] \/ q[i] > p[i]
    BY <1>0, <2>3
  <2> QED BY <1>0, <2>4, <2>5 DEF Exceeds
<1> QED BY <1>1, <1>2, <1>3

------------------------------------------------------------------------------
(* f holds the sums of the first numbers of w.                              *)
IsSum(f, w, n) == f = [i \in 0 .. n |-> IF i = 0 THEN 0 ELSE f[i - 1] + w[i]]

(* Such sums exist, by induction over the length,                           *)
LEMMA SumExists == ASSUME NEW n \in Nat, NEW w PROVE \E f : IsSum(f, w, n)
<1> DEFINE S == {m \in Nat : \E f : IsSum(f, w, m)}
<1>1. 0 \in S
  <2>1. IsSum([i \in 0 .. 0 |-> 0], w, 0)
    BY DEF IsSum
  <2> QED BY <2>1
<1>2. ASSUME NEW m \in Nat, m \in S PROVE m + 1 \in S
  <2>1. PICK f : IsSum(f, w, m)
    BY <1>2
  <2> DEFINE g == [i \in 0 .. m + 1 |-> IF i <= m THEN f[i] ELSE f[m] + w[m + 1]]
  <2>2. \A i \in 0 .. m : g[i] = f[i]
    OBVIOUS
  <2>3. ASSUME NEW i \in 0 .. m + 1 PROVE g[i] = IF i = 0 THEN 0 ELSE g[i - 1] + w[i]
    <3>1. CASE i <= m
      <4>1. f[i] = IF i = 0 THEN 0 ELSE f[i - 1] + w[i]
        BY <2>1, <3>1 DEF IsSum
      <4>2. i # 0 => g[i - 1] = f[i - 1]
        BY <2>2, <3>1
      <4> HIDE DEF g
      <4> QED BY <2>2, <3>1, <4>1, <4>2
    <3>2. CASE i = m + 1
      <4>1. g[i] = f[m] + w[m + 1] /\ g[i - 1] = f[m] /\ i # 0
        BY <3>2
      <4> QED BY <3>2, <4>1
    <3> QED BY <3>1, <3>2
  <2>4. g = [i \in 0 .. m + 1 |-> g[i]]
    OBVIOUS
  <2> HIDE DEF g
  <2>5. IsSum(g, w, m + 1)
    BY <2>3, <2>4 DEF IsSum
  <2> QED BY <2>5
<1>3. Nat \subseteq S
  <2> HIDE DEF S
  <2> QED BY <1>1, <1>2, SetInduction
<1> QED BY <1>3

(* ... and of integers they are integers.                                   *)
LEMMA SumIsInt ==
  ASSUME NEW n \in Nat, NEW w, \A i \in 1 .. n : w[i] \in Int, NEW f, IsSum(f, w, n) PROVE f[n] \in Int
<1> DEFINE T == {m \in Nat : m <= n => f[m] \in Int}
<1>1. 0 \in T
  BY DEF IsSum
<1>2. ASSUME NEW m \in Nat, m \in T PROVE m + 1 \in T
  <2> SUFFICES ASSUME m + 1 <= n PROVE f[m + 1] \in Int
    OBVIOUS
  <2>1. f[m + 1] = f[m] + w[m + 1] /\ m + 1 \in 1 .. n
    BY DEF IsSum
  <2> QED BY <1>2, <2>1
<1>3. Nat \subseteq T
  <2> HIDE DEF T
  <2> QED BY <1>1, <1>2, SetInduction
<1> QED BY <1>3

(* What is clamped is a percentage.                                         *)
LEMMA ClampedIsInt == \A n \in Int : Clamped(n) \in 0 .. 100
BY DEF Clamped

(* The weight of an entry is an integer.                                    *)
LEMMA WeightIsInt == ASSUME NEW e, e.score \in Int, e.confidence \in Int PROVE EntryWeight(e) \in Int
<1>1. Clamped(e.score) \in Int /\ Clamped(e.confidence) \in Int
  BY ClampedIsInt
<1> QED BY <1>1 DEF EntryWeight

(* The affinity of any candidate to a profile is an integer: its recursion  *)
(* is such a sum.                                                           *)
LEMMA AffinityIsInt ==
  ASSUME NEW c, NEW profile \in Profiles PROVE Affinity(c, profile) \in Int
<1> DEFINE matched == MatchedEntries(c, profile)
           n == Len(profile)
           w == [i \in 1 .. n |-> IF i \in matched THEN EntryWeight(profile[i]) ELSE 0]
<1>1. /\ n \in Nat /\ profile \in Seq(Range(profile))
      /\ \A e \in Range(profile) : e.score \in Int /\ e.confidence \in Int
  BY SessionAssumption
<1>2. \A i \in 1 .. n : w[i] \in Int
  <2>1. \A i \in 1 .. n : EntryWeight(profile[i]) \in Int
    BY <1>1, WeightIsInt DEF Range
  <2> QED BY <2>1
<1> DEFINE R(f) == f = [i \in 0 .. n |->
                       IF i = 0 THEN 0 ELSE f[i - 1] + (IF i \in matched THEN EntryWeight(profile[i]) ELSE 0)]
<1>3. ASSUME NEW f PROVE R(f) <=> IsSum(f, w, n)
  <2> DEFINE a == [i \in 0 .. n |->
                     IF i = 0 THEN 0 ELSE f[i - 1] + (IF i \in matched THEN EntryWeight(profile[i]) ELSE 0)]
             b == [i \in 0 .. n |-> IF i = 0 THEN 0 ELSE f[i - 1] + w[i]]
  <2>1. \A i \in 1 .. n : w[i] = IF i \in matched THEN EntryWeight(profile[i]) ELSE 0
    OBVIOUS
  <2>2. \A i \in 0 .. n : a[i] = b[i]
    <3> HIDE DEF w, matched, n
    <3> QED BY <1>1, <2>1
  <2>3. a = b
    <3> HIDE DEF w, matched, n
    <3> QED BY <2>2
  <2> HIDE DEF w, matched, n
  <2> QED BY <2>3 DEF IsSum
<1>4. R(CHOOSE f : R(f))
  <2>1. \E f : R(f)
    BY <1>1, <1>3, SumExists
  <2> HIDE DEF R
  <2> QED BY <2>1
<1>5. Affinity(c, profile) = (CHOOSE f : R(f))[n]
  BY DEF Affinity
<1> HIDE DEF n, w, matched, R
<1> QED BY <1>1, <1>2, <1>3, <1>4, <1>5, SumIsInt

(* The rank of a candidate is six integers, and the last one names it.      *)
LEMMA RankIsSix ==
  ASSUME NEW c, c.observed \in Nat, c.native \in Nat, NEW profile \in Profiles, NEW languages,
         c.verification \in Verifications
  PROVE  Rank(c, profile, languages) \in Six /\ Rank(c, profile, languages)[6] = -c.native
<1>1. Affinity(c, profile) \in Int
  BY AffinityIsInt
<1>2. VerificationStrength(c.verification) \in Int
  BY DEF VerificationStrength, Verifications
<1>3. LanguageRank(Language(c, languages)) \in Int
  BY DEF LanguageRank
<1>4. Cardinality(MatchedEntries(c, profile)) \in Int
  <2>1. MatchedEntries(c, profile) \subseteq 1 .. Len(profile) /\ Len(profile) \in Nat
    BY SessionAssumption DEF MatchedEntries, IndexedEntries
  <2>2. IsFiniteSet(1 .. Len(profile))
    <3>1. 1 \in Int /\ Len(profile) \in Int
      BY <2>1
    <3> QED BY <3>1, FS_Interval
  <2>3. IsFiniteSet(MatchedEntries(c, profile))
    BY <2>1, <2>2, FS_Subset
  <2> QED BY <2>3, FS_CardinalityType
<1>5. -c.native \in Int /\ c.observed \in Int
  OBVIOUS
<1> QED BY <1>1, <1>2, <1>3, <1>4, <1>5, TupleIsSix DEF Rank

------------------------------------------------------------------------------
(* Finitely many sources, numbered, each with a list of candidates that may be *)
(* reported.                                                                *)
ReportsOK(outcomes) ==
  /\ DOMAIN outcomes \in SUBSET Nat /\ IsFiniteSet(DOMAIN outcomes)
  /\ \A i \in DOMAIN outcomes : outcomes[i].candidates \in Seq(MayBeReported)

(* What may be reported is typed.                                           *)
LEMMA ReportedTyped ==
  ASSUME NEW c \in MayBeReported
  PROVE  /\ DOMAIN c = CandidateFields
         /\ c.verification \in Verifications
         /\ c.observed \in Nat /\ c.uri \in Nat /\ c.native \in Nat
         /\ VerificationStrength(c.verification) \in Nat
BY SessionAssumption DEF VerificationStrength, Verifications

(* A finite set of naturals has a largest member.                           *)
LEMMA LargestIs ==
  ASSUME NEW S \in SUBSET Nat, IsFiniteSet(S), S # {} PROVE Max(S) \in S /\ \A n \in S : n <= Max(S)
<1> DEFINE before == {p \in S \X S : p[1] > p[2]}
           first == SortedBy(S, before)[1]
<1>1. Orders(before, S)
  BY DEF Orders
<1>2. Cardinality(S) \in Nat /\ Cardinality(S) # 0
  BY FS_CardinalityType, FS_EmptySet
<1>3. 1 \in 1 .. Cardinality(S)
  BY <1>2
<1>4. first \in S /\ Cardinality(AheadOf(first, S, before)) = 0
  <2> HIDE DEF before
  <2>1. /\ Lists(SortedBy(S, before), S)
        /\ Cardinality(AheadOf(SortedBy(S, before)[1], S, before)) = 1 - 1
    BY <1>1, <1>3, SortedLists
  <2> QED BY <1>3, <2>1 DEF Lists
<1>5. AheadOf(first, S, before) = {}
  <2>1. AheadOf(first, S, before) \in SUBSET S
    BY DEF AheadOf
  <2>2. IsFiniteSet(AheadOf(first, S, before))
    BY <2>1, FS_Subset
  <2> HIDE DEF first, before
  <2> QED BY <1>4, <2>2, FS_EmptySet
<1> HIDE DEF first
<1>6. \A n \in S : ~(n > first)
  BY <1>4, <1>5 DEF AheadOf
<1>7. \A n \in S : n <= first
  BY <1>4, <1>6
<1> QED BY <1>4, <1>7 DEF Max

(* The representative of some reports is one of them.                        *)
LEMMA RepresentativeIs ==
  ASSUME NEW group, DOMAIN group \in SUBSET Nat, IsFiniteSet(DOMAIN group), DOMAIN group # {},
         \A i \in DOMAIN group : group[i] \in MayBeReported
  PROVE  \E i \in DOMAIN group : Representative(group) = group[i]
<1> DEFINE S == DOMAIN group
           s(i) == VerificationStrength(group[i].verification)
           o(i) == group[i].observed
           u(i) == group[i].uri
           Outranks(i, j) == Stronger(group[i], group[j]) \/ (~Stronger(group[j], group[i]) /\ i < j)
           before == {p \in S \X S : Outranks(p[1], p[2])}
           first == SortedBy(S, before)[1]
<1>1. \A i \in S : s(i) \in Nat /\ o(i) \in Nat /\ u(i) \in Nat /\ i \in Nat
  BY ReportedTyped
<1>2. \A i, j \in S : Stronger(group[i], group[j]) <=>
        s(i) > s(j) \/ (s(i) = s(j) /\ o(i) > o(j)) \/ (s(i) = s(j) /\ o(i) = o(j) /\ u(i) < u(j))
  BY DEF Stronger
<1>3. Orders(before, S)
  <2> HIDE DEF s, o, u
  <2>1. \A i \in S : ~Outranks(i, i)
    BY <1>1, <1>2
  <2>2. \A i, j, k \in S : Outranks(i, j) /\ Outranks(j, k) => Outranks(i, k)
    BY <1>1, <1>2
  <2>3. \A i, j \in S : i # j => Outranks(i, j) \/ Outranks(j, i)
    BY <1>1, <1>2
  <2>4. \A i, j \in S : <<i, j>> \in before <=> Outranks(i, j)
    OBVIOUS
  <2> HIDE DEF Outranks, before, S
  <2> QED BY <2>1, <2>2, <2>3, <2>4 DEF Orders
<1>4. Cardinality(S) \in Nat /\ Cardinality(S) # 0
  BY FS_CardinalityType, FS_EmptySet
<1>5. 1 \in 1 .. Cardinality(S)
  BY <1>4
<1>6. first \in S /\ Cardinality(AheadOf(first, S, before)) = 0
  <2> HIDE DEF before, S
  <2>0. IsFiniteSet(S)
    BY DEF S
  <2>1. /\ Lists(SortedBy(S, before), S)
        /\ Cardinality(AheadOf(SortedBy(S, before)[1], S, before)) = 1 - 1
    BY <1>3, <1>5, <2>0, SortedLists
  <2> QED BY <1>5, <2>1 DEF Lists
<1>7. AheadOf(first, S, before) = {}
  <2>1. AheadOf(first, S, before) \in SUBSET S
    BY DEF AheadOf
  <2>2. IsFiniteSet(AheadOf(first, S, before))
    BY <2>1, FS_Subset
  <2> HIDE DEF first, before
  <2> QED BY <1>6, <2>2, FS_EmptySet
<1> HIDE DEF first
<1>8. \A j \in S : ~Outranks(j, first)
  BY <1>6, <1>7 DEF AheadOf
<1>9. \A j \in S : ~Stronger(group[j], group[first]) /\ (j < first => Stronger(group[first], group[j]))
  BY <1>8
<1>10. \E i \in S : \A j \in S : ~Stronger(group[j], group[i]) /\ (j < i => Stronger(group[i], group[j]))
  BY <1>6, <1>9
<1> QED BY <1>10 DEF Representative

(* The reports of a candidate: one of each source that reported it.          *)
LEMMA ReportsTyped ==
  ASSUME NEW outcomes, ReportsOK(outcomes), NEW id \in ReportedIds(outcomes)
  PROVE  LET group == ReportsOf(outcomes, id)
         IN  /\ DOMAIN group \in SUBSET DOMAIN outcomes /\ DOMAIN group # {}
             /\ \A i \in DOMAIN group : group[i] \in Range(outcomes[i].candidates) /\ group[i].id = id
<1> DEFINE I == {i \in DOMAIN outcomes : \E c \in Range(outcomes[i].candidates) : c.id = id}
           group == ReportsOf(outcomes, id)
<1>1. I # {}
  BY DEF ReportedIds
<1>2. group = [i \in I |-> CHOOSE c \in Range(outcomes[i].candidates) : c.id = id]
  BY DEF ReportsOf
<1>3. \A i \in I : group[i] \in Range(outcomes[i].candidates) /\ group[i].id = id
  BY <1>2
<1> QED BY <1>1, <1>2, <1>3

(* A merged candidate is one that was reported, but for what is merged.      *)
LEMMA MergedIs ==
  ASSUME NEW outcomes, ReportsOK(outcomes), NEW id \in ReportedIds(outcomes)
  PROVE  LET c == MergedCandidate(ReportsOf(outcomes, id))
         IN  /\ c.id = id /\ c.observed \in Nat
             /\ \E i \in DOMAIN outcomes : \E d \in Range(outcomes[i].candidates) :
                  /\ d \in MayBeReported /\ d.id = id /\ d.verification = c.verification
                  /\ d.native = c.native /\ CandidateId(d) = CandidateId(c)
<1> DEFINE group == ReportsOf(outcomes, id)
           c == MergedCandidate(group)
           rep == Representative(group)
<1>1. /\ DOMAIN group \in SUBSET DOMAIN outcomes /\ DOMAIN group # {}
      /\ \A i \in DOMAIN group : group[i] \in Range(outcomes[i].candidates) /\ group[i].id = id
  BY ReportsTyped
<1>2. \A i \in DOMAIN outcomes : Range(outcomes[i].candidates) \subseteq MayBeReported
  BY DEF ReportsOK, Range
<1>3. /\ DOMAIN group \in SUBSET Nat /\ IsFiniteSet(DOMAIN group)
      /\ \A i \in DOMAIN group : group[i] \in MayBeReported
  BY <1>1, <1>2, FS_Subset DEF ReportsOK
<1>4. PICK i \in DOMAIN group : rep = group[i]
  <2> HIDE DEF group
  <2> QED BY <1>1, <1>3, RepresentativeIs
<1>5. rep \in MayBeReported /\ rep.id = id /\ DOMAIN rep = CandidateFields
  BY <1>1, <1>3, <1>4, ReportedTyped
<1>6. /\ c.id = rep.id /\ c.native = rep.native /\ c.verification = rep.verification
      /\ c.kind = rep.kind /\ c.protocol = rep.protocol /\ c.provider = rep.provider
      /\ c.observed = LastSeen(group)
  <2> HIDE DEF group, rep
  <2>1. DOMAIN rep = CandidateFields
    BY <1>5
  <2> QED BY <2>1 DEF MergedCandidate, rep, CandidateFields
<1>7. LastSeen(group) \in Nat
  <2> DEFINE seen == {d.observed : d \in Range(group)}
  <2>1. seen \in SUBSET Nat /\ seen # {}
    <3>1. \A d \in Range(group) : d.observed \in Nat
      BY <1>3, ReportedTyped DEF Range
    <3>2. Range(group) # {}
      BY <1>1 DEF Range
    <3> HIDE DEF group
    <3> QED BY <3>1, <3>2
  <2>2. IsFiniteSet(seen)
    <3> DEFINE f == [j \in DOMAIN group |-> group[j].observed]
    <3>1. f \in Surjection(DOMAIN group, seen)
      <4> HIDE DEF group
      <4> QED BY DEF Surjection, Range
    <3> HIDE DEF f, group, seen
    <3> QED BY <1>3, <3>1, FS_Surjection
  <2>3. Max(seen) \in seen
    <3> HIDE DEF seen
    <3> QED BY <2>1, <2>2, LargestIs
  <2> QED BY <2>1, <2>3 DEF LastSeen
<1>8. CandidateId(rep) = CandidateId(c)
  BY <1>6 DEF CandidateId
<1>9. i \in DOMAIN outcomes /\ rep \in Range(outcomes[i].candidates)
  BY <1>1, <1>4
<1> HIDE DEF group, rep, c
<1>10. /\ c.id = id /\ c.observed \in Nat
       /\ \E k \in DOMAIN outcomes : \E d \in Range(outcomes[k].candidates) :
            /\ d \in MayBeReported /\ d.id = id /\ d.verification = c.verification
            /\ d.native = c.native /\ CandidateId(d) = CandidateId(c)
  BY <1>5, <1>6, <1>7, <1>8, <1>9
<1> QED BY <1>10 DEF c, group

------------------------------------------------------------------------------
(* What is merged of finitely many reports is finite.                       *)
LEMMA ImageIsFinite ==
  ASSUME NEW S, IsFiniteSet(S), NEW f, DOMAIN f = S, NEW T, \A y \in T : \E x \in S : y = f[x]
  PROVE  IsFiniteSet(T)
<1> DEFINE all == {f[x] : x \in S}
           g == [x \in S |-> f[x]]
<1>1. g \in Surjection(S, all)
  BY DEF Surjection
<1>2. T \subseteq all
  OBVIOUS
<1> HIDE DEF g, all
<1>3. IsFiniteSet(all)
  BY <1>1, FS_Surjection
<1> QED BY <1>2, <1>3, FS_Subset

(* Finitely many ids are reported.                                          *)
LEMMA ReportedFinite ==
  ASSUME NEW outcomes, ReportsOK(outcomes) PROVE IsFiniteSet(ReportedIds(outcomes))
<1> DEFINE D == DOMAIN outcomes
           ids(i) == {c.id : c \in Range(outcomes[i].candidates)}
           all == [i \in D |-> ids(i)]
           some == {ids(i) : i \in D}
<1>1. ASSUME NEW i \in D PROVE IsFiniteSet(ids(i))
  <2> DEFINE list == outcomes[i].candidates
             n == Len(list)
             f == [k \in 1 .. n |-> list[k].id]
  <2>1. list \in Seq(MayBeReported) /\ n \in Nat /\ DOMAIN list = 1 .. n
    BY DEF ReportsOK
  <2>2. IsFiniteSet(1 .. n)
    <3>1. 1 \in Int /\ n \in Int
      BY <2>1
    <3> HIDE DEF n
    <3> QED BY <3>1, FS_Interval
  <2>3. \A y \in ids(i) : \E k \in 1 .. n : y = f[k]
    <3> HIDE DEF n, list
    <3> QED BY <2>1 DEF Range, list
  <2>4. DOMAIN f = 1 .. n
    OBVIOUS
  <2> HIDE DEF f, n, list, ids
  <2> QED BY <2>2, <2>3, <2>4, ImageIsFinite
<1>2. IsFiniteSet(some)
  <2>1. DOMAIN all = D /\ IsFiniteSet(D)
    BY DEF ReportsOK
  <2>2. \A y \in some : \E i \in D : y = all[i]
    OBVIOUS
  <2> HIDE DEF all, D, some
  <2> QED BY <2>1, <2>2, ImageIsFinite
<1>3. \A T \in some : IsFiniteSet(T)
  <2> HIDE DEF ids
  <2> QED BY <1>1
<1>4. IsFiniteSet(UNION some)
  <2> HIDE DEF some
  <2> QED BY <1>2, <1>3, FS_UNION
<1>5. ReportedIds(outcomes) = UNION some
  BY DEF ReportedIds
<1> QED BY <1>4, <1>5

(* So there are finitely many merged candidates.                            *)
LEMMA MergedFinite ==
  ASSUME NEW outcomes, ReportsOK(outcomes) PROVE IsFiniteSet(MergedCandidates(outcomes))
<1> DEFINE S == ReportedIds(outcomes)
           f == [id \in S |-> MergedCandidate(ReportsOf(outcomes, id))]
<1>1. IsFiniteSet(S)
  BY ReportedFinite
<1>2. \A c \in MergedCandidates(outcomes) : \E id \in S : c = f[id]
  BY DEF MergedCandidates
<1>3. DOMAIN f = S
  OBVIOUS
<1> HIDE DEF f, S
<1> QED BY <1>1, <1>2, <1>3, ImageIsFinite

(* Merged candidates are told apart by their id, and by their number.        *)
LEMMA MergedTyped ==
  ASSUME NEW outcomes, ReportsOK(outcomes), NEW c \in MergedCandidates(outcomes)
  PROVE  /\ c.id \in ReportedIds(outcomes) /\ c = MergedCandidate(ReportsOf(outcomes, c.id))
         /\ c.observed \in Nat
         /\ \E i \in DOMAIN outcomes : \E d \in Range(outcomes[i].candidates) :
              /\ d \in MayBeReported /\ d.id = c.id /\ d.verification = c.verification
              /\ d.native = c.native /\ CandidateId(d) = CandidateId(c)
<1>1. PICK id \in ReportedIds(outcomes) : c = MergedCandidate(ReportsOf(outcomes, id))
  BY DEF MergedCandidates
<1>2. /\ MergedCandidate(ReportsOf(outcomes, id)).id = id
      /\ MergedCandidate(ReportsOf(outcomes, id)).observed \in Nat
      /\ \E i \in DOMAIN outcomes : \E d \in Range(outcomes[i].candidates) :
           /\ d \in MayBeReported /\ d.id = id
           /\ d.verification = MergedCandidate(ReportsOf(outcomes, id)).verification
           /\ d.native = MergedCandidate(ReportsOf(outcomes, id)).native
           /\ CandidateId(d) = CandidateId(MergedCandidate(ReportsOf(outcomes, id)))
  BY MergedIs
<1> QED BY <1>1, <1>2

(* If all of them are sound, their ids are of what they are: no two have    *)
(* the same id or the same number.                                          *)
LEMMA MergedUnique ==
  ASSUME NEW outcomes, ReportsOK(outcomes), Mergeable(outcomes)
  PROVE  /\ \A c \in MergedCandidates(outcomes) :
              c.native \in Nat /\ c.observed \in Nat /\ c.id[4] = c.native
              /\ c.verification \in Verifications
         /\ \A c, d \in MergedCandidates(outcomes) : c.id = d.id => c = d
         /\ \A c, d \in MergedCandidates(outcomes) : c.native = d.native => c = d
<1>1. \A c, d \in MergedCandidates(outcomes) : c.id = d.id => c = d
  BY MergedTyped
<1>2. ASSUME NEW c \in MergedCandidates(outcomes)
      PROVE  /\ c.native \in Nat /\ c.observed \in Nat /\ c.id = CandidateId(c) /\ c.id[4] = c.native
             /\ c.verification \in Verifications
             /\ \E e \in MayBeReported : e.native = c.native /\ CandidateId(e) = CandidateId(c)
  <2>1. PICK i \in DOMAIN outcomes : \E e \in Range(outcomes[i].candidates) :
              /\ e \in MayBeReported /\ e.id = c.id /\ e.verification = c.verification
              /\ e.native = c.native /\ CandidateId(e) = CandidateId(c)
    BY MergedTyped
  <2>2. PICK e \in MayBeReported : e.verification = c.verification
              /\ e.native = c.native /\ CandidateId(e) = CandidateId(c)
    BY <2>1
  <2>3. c.id = CandidateId(c)
    BY DEF Mergeable, CandidateSound
  <2>4. c.id[4] = c.native
    BY <2>3 DEF CandidateId
  <2>5. c.observed \in Nat
    BY MergedTyped
  <2>6. e.native \in Nat
        /\ e.verification \in Verifications
    BY ReportedTyped
  <2> QED BY <2>2, <2>3, <2>4, <2>5, <2>6
<1>3. ASSUME NEW c \in MergedCandidates(outcomes), NEW d \in MergedCandidates(outcomes), c.native = d.native
      PROVE  c = d
  <2>1. PICK e \in MayBeReported : e.native = c.native /\ CandidateId(e) = CandidateId(c)
    BY <1>2
  <2>2. PICK f \in MayBeReported : f.native = d.native /\ CandidateId(f) = CandidateId(d)
    BY <1>2
  <2>3. CandidateId(e) = CandidateId(f)
    BY <1>3, <2>1, <2>2, SessionAssumption
  <2>4. c.id = CandidateId(c) /\ d.id = CandidateId(d)
    BY <1>2
  <2>5. c.id = d.id
    BY <2>1, <2>2, <2>3, <2>4
  <2> QED BY <1>1, <2>5
<1> QED BY <1>1, <1>2, <1>3

------------------------------------------------------------------------------
(* At most so many of a list: its first ones.                               *)
LEMMA AtMostIs ==
  ASSUME NEW n \in Nat, NEW S, NEW list \in [1 .. n -> S], NEW maximum \in Nat
  PROVE  \E m \in 0 .. n : AtMost(list, maximum) = [i \in 1 .. m |-> list[i]]
<1>1. list \in Seq(S) /\ Len(list) = n
  OBVIOUS
<1> DEFINE m == IF Len(list) < maximum THEN Len(list) ELSE maximum
<1>2. m \in 0 .. n
  BY <1>1
<1>3. SubSeq(list, 1, m) = [i \in 1 .. m |-> list[i]]
  <2> HIDE DEF m
  <2> QED BY <1>1, <1>2
<1>4. AtMost(list, maximum) = SubSeq(list, 1, m)
  BY DEF AtMost
<1> HIDE DEF m
<1> QED BY <1>2, <1>3, <1>4

(* What is generated: merged candidates, none of them twice.                 *)
LEMMA GeneratedIs ==
  ASSUME NEW outcomes, ReportsOK(outcomes), Mergeable(outcomes), NEW profile \in Profiles, NEW languages
  PROVE  LET list == GeneratedFrom(outcomes, profile, languages)
         IN  /\ list \in Seq(MergedCandidates(outcomes))
             /\ \A i, j \in DOMAIN list : list[i].id = list[j].id => i = j
<1> DEFINE merged == MergedCandidates(outcomes)
           S == {c \in merged : MatchedEntries(c, profile) # {}}
           rank(c) == Rank(c, profile, languages)
           before == {p \in S \X S : Exceeds(rank(p[1]), rank(p[2]))}
           sorted == SortedBy(S, before)
           list == GeneratedFrom(outcomes, profile, languages)
<1>1. IsFiniteSet(S)
  <2>1. IsFiniteSet(merged)
    BY MergedFinite
  <2> HIDE DEF merged
  <2> QED BY <2>1, FS_Subset
<1>2. /\ \A c, d \in merged : c.id = d.id => c = d
      /\ \A c, d \in merged : c.native = d.native => c = d
      /\ \A c \in merged : c.native \in Nat /\ c.observed \in Nat
           /\ c.verification \in Verifications
  BY MergedUnique
<1>3. \A c \in S : rank(c) \in Six /\ rank(c)[6] = -c.native
  BY <1>2, RankIsSix
<1>4. \A c, d \in S : c # d => rank(c) # rank(d)
  <2> SUFFICES ASSUME NEW c \in S, NEW d \in S, rank(c) = rank(d) PROVE c = d
    OBVIOUS
  <2>1. c \in merged /\ d \in merged
    OBVIOUS
  <2>2. c.native \in Nat /\ d.native \in Nat
    BY <1>2, <2>1
  <2>3. -c.native = -d.native
    <3> HIDE DEF S, rank, merged
    <3> QED BY <1>3
  <2>4. c.native = d.native
    BY <2>2, <2>3
  <2> QED BY <1>2, <2>1, <2>4
<1>5. Orders(before, S)
  <2>1. \A c, d \in S : <<c, d>> \in before <=> Exceeds(rank(c), rank(d))
    OBVIOUS
  <2> HIDE DEF before, rank, S
  <2>2. \A c \in S : <<c, c>> \notin before
    BY <1>3, <2>1, ExceedsOrders
  <2>3. ASSUME NEW c \in S, NEW d \in S, NEW e \in S, <<c, d>> \in before, <<d, e>> \in before
        PROVE  <<c, e>> \in before
    <3>1. Exceeds(rank(c), rank(d)) /\ Exceeds(rank(d), rank(e))
      BY <2>1, <2>3
    <3>2. rank(c) \in Six /\ rank(d) \in Six /\ rank(e) \in Six
      BY <1>3
    <3>3. Exceeds(rank(c), rank(e))
      BY <3>1, <3>2, ExceedsOrders
    <3> QED BY <2>1, <3>3
  <2>4. ASSUME NEW c \in S, NEW d \in S, c # d PROVE <<c, d>> \in before \/ <<d, c>> \in before
    BY <1>3, <1>4, <2>1, <2>4, ExceedsOrders
  <2> QED BY <2>2, <2>3, <2>4 DEF Orders
<1>6. Lists(sorted, S)
  <2> HIDE DEF before, S
  <2> QED BY <1>1, <1>5, SortedLists
<1>7. list = AtMost(sorted, MaxGenerated)
  BY DEF GeneratedFrom
<1>8. PICK m \in 0 .. Cardinality(S) : list = [i \in 1 .. m |-> sorted[i]]
  <2>1. Cardinality(S) \in Nat /\ sorted \in [1 .. Cardinality(S) -> S]
    <3> HIDE DEF sorted, S
    <3> QED BY <1>6 DEF Lists
  <2>2. MaxGenerated \in Nat
    BY SessionAssumption
  <2> DEFINE n == Cardinality(S)
  <2> HIDE DEF n, sorted, S, list
  <2>3. n \in Nat /\ sorted \in [1 .. n -> S]
    BY <2>1 DEF n
  <2>4. \E m \in 0 .. n : AtMost(sorted, MaxGenerated) = [i \in 1 .. m |-> sorted[i]]
    BY <2>2, <2>3, AtMostIs
  <2> QED BY <1>7, <2>4 DEF n
<1>9. Cardinality(S) \in Nat /\ \A i \in 1 .. m : i \in 1 .. Cardinality(S)
  <2> HIDE DEF sorted, S
  <2> QED BY <1>6 DEF Lists
<1>10. \A i \in 1 .. m : list[i] \in S
  <2> HIDE DEF sorted, S, list
  <2> QED BY <1>6, <1>8, <1>9 DEF Lists
<1>11. S \subseteq merged
  OBVIOUS
<1>12. list \in Seq(merged) /\ DOMAIN list = 1 .. m
  <2>1. m \in Nat
    <3> HIDE DEF S
    <3> QED BY <1>9
  <2>2. list \in [1 .. m -> merged]
    <3> HIDE DEF sorted, S, list, merged
    <3> QED BY <1>8, <1>10, <1>11
  <2> HIDE DEF list, merged
  <2> QED BY <2>1, <2>2
<1>13. \A i, j \in 1 .. m : list[i].id = list[j].id => i = j
  <2> SUFFICES ASSUME NEW i \in 1 .. m, NEW j \in 1 .. m, list[i].id = list[j].id PROVE i = j
    OBVIOUS
  <2>1. list[i] = list[j]
    <3> HIDE DEF S, list, merged
    <3> QED BY <1>2, <1>10, <1>11
  <2>2. sorted[i] = sorted[j] /\ i \in 1 .. Cardinality(S) /\ j \in 1 .. Cardinality(S)
    <3> HIDE DEF S, list, merged, sorted
    <3> QED BY <1>8, <1>9, <2>1
  <2> HIDE DEF S, sorted
  <2> QED BY <1>6, <2>2 DEF Lists
<1> HIDE DEF list, merged
<1>14. list \in Seq(merged) /\ \A i, j \in DOMAIN list : list[i].id = list[j].id => i = j
  BY <1>12, <1>13
<1> QED BY <1>14 DEF list, merged

(* Only the candidates of the outcomes count, not what else is noted of them.   *)
LEMMA SameReports ==
  ASSUME NEW first, NEW second, DOMAIN first = DOMAIN second,
         \A i \in DOMAIN first : first[i].candidates = second[i].candidates
  PROVE  /\ MergedCandidates(first) = MergedCandidates(second)
         /\ Mergeable(first) <=> Mergeable(second)
         /\ \A profile, languages :
              GeneratedFrom(first, profile, languages) = GeneratedFrom(second, profile, languages)
<1>1. ReportedIds(first) = ReportedIds(second)
  BY DEF ReportedIds
<1>2. ASSUME NEW id PROVE ReportsOf(first, id) = ReportsOf(second, id)
  <2> DEFINE I == {i \in DOMAIN first : \E c \in Range(first[i].candidates) : c.id = id}
             J == {i \in DOMAIN second : \E c \in Range(second[i].candidates) : c.id = id}
             u(i) == CHOOSE c \in Range(first[i].candidates) : c.id = id
             v(i) == CHOOSE c \in Range(second[i].candidates) : c.id = id
  <2>1. I = J
    OBVIOUS
  <2>2. \A i \in I : u(i) = v(i)
    OBVIOUS
  <2>3. ReportsOf(first, id) = [i \in I |-> u(i)] /\ ReportsOf(second, id) = [i \in J |-> v(i)]
    BY DEF ReportsOf
  <2> HIDE DEF I, J, u, v
  <2> QED BY <2>1, <2>2, <2>3
<1>3. MergedCandidates(first) = MergedCandidates(second)
  BY <1>1, <1>2 DEF MergedCandidates
<1> QED BY <1>3 DEF Mergeable, GeneratedFrom

------------------------------------------------------------------------------
(* Scores of finitely many candidates, told apart by their numbers.          *)
ScoredOK(S, ids) ==
  /\ IsFiniteSet(S)
  /\ \A p \in S : p.score \in Int /\ p.id \in ids /\ p.id[4] \in Nat
  /\ \A p, q \in S : p.id[4] = q.id[4] => p = q

(* Some of them are such scores.                                            *)
LEMMA SomeScored ==
  ASSUME NEW ids, NEW S, ScoredOK(S, ids), NEW T \in SUBSET S PROVE ScoredOK(T, ids)
<1>1. IsFiniteSet(T)
  BY FS_Subset DEF ScoredOK
<1> QED BY <1>1 DEF ScoredOK

(* The highest first, and of equal ones by number, is a strict order of all *)
(* of them.                                                                 *)
LEMMA HigherOrders ==
  ASSUME NEW ids, NEW S, ScoredOK(S, ids) PROVE Orders(HigherFirst(S), S)
<1> DEFINE before == HigherFirst(S)
           score(p) == p.score
           number(p) == p.id[4]
<1>1. \A p, q \in S : <<p, q>> \in before <=>
        score(p) > score(q) \/ (score(p) = score(q) /\ number(p) < number(q))
  BY DEF HigherFirst
<1>2. \A p \in S : score(p) \in Int /\ number(p) \in Nat
  BY DEF ScoredOK
<1>3. \A p, q \in S : number(p) = number(q) => p = q
  BY DEF ScoredOK
<1> HIDE DEF before, score, number
<1>4. \A p \in S : <<p, p>> \notin before
  BY <1>1, <1>2
<1>5. \A p, q, r \in S : <<p, q>> \in before /\ <<q, r>> \in before => <<p, r>> \in before
  BY <1>1, <1>2
<1>6. \A p, q \in S : p # q => <<p, q>> \in before \/ <<q, p>> \in before
  BY <1>1, <1>2, <1>3
<1>7. Orders(before, S)
  BY <1>4, <1>5, <1>6 DEF Orders
<1> QED BY <1>7 DEF before

(* So sorting lists them.                                                   *)
LEMMA ScoredLists ==
  ASSUME NEW ids, NEW S, ScoredOK(S, ids) PROVE Lists(SortedBy(S, HigherFirst(S)), S)
<1>1. Orders(HigherFirst(S), S)
  BY HigherOrders
<1>2. IsFiniteSet(S)
  BY DEF ScoredOK
<1> QED BY <1>1, <1>2, SortedLists

(* Some of the first places are a natural number of places.                 *)
LEMMA CountBefore ==
  ASSUME NEW n \in Nat, NEW T \in SUBSET (1 .. n) PROVE Cardinality(T) \in Nat
<1>1. IsFiniteSet(1 .. n)
  <2>1. 1 \in Int /\ n \in Int
    OBVIOUS
  <2> QED BY <2>1, FS_Interval
<1>2. IsFiniteSet(T)
  BY <1>1, FS_Subset
<1> QED BY <1>2, FS_CardinalityType

(* Reranking changes scores only.                                           *)
LEMMA AdjustedScored ==
  ASSUME NEW ids, NEW S, ScoredOK(S, ids), NEW metadata PROVE ScoredOK(Adjusted(S, metadata), ids)
<1> DEFINE sorted == SortedBy(S, HigherFirst(S))
           n == Cardinality(S)
           category(p) == metadata[p.id].category
           before(i) == Cardinality({j \in 1 .. i - 1 : category(sorted[j]) = category(sorted[i])})
           points(i) == sorted[i].score
                          + (IF category(sorted[i]) # NoText /\ before(i) > 0 THEN -20 * before(i) ELSE 20)
                          + (IF metadata[sorted[i].id].seenRecently THEN 0 ELSE 15)
           T == Adjusted(S, metadata)
<1>1. n \in Nat /\ sorted \in [1 .. n -> S] /\ DOMAIN sorted = 1 .. n
      /\ \A i, j \in 1 .. n : sorted[i] = sorted[j] => i = j
  <2>1. Lists(sorted, S)
    BY ScoredLists
  <2> HIDE DEF sorted
  <2> QED BY <2>1 DEF Lists
<1>2. T = {[id |-> sorted[i].id, score |-> points(i)] : i \in DOMAIN sorted}
  BY DEF Adjusted
<1>3. ASSUME NEW i \in 1 .. n PROVE points(i) \in Int
  <2>1. sorted[i] \in S /\ sorted[i].score \in Int
    <3>1. sorted[i] \in S
      <4> HIDE DEF sorted, n
      <4> QED BY <1>1
    <3> HIDE DEF sorted
    <3> QED BY <3>1 DEF ScoredOK
  <2>2. before(i) \in Nat
    <3>1. i - 1 \in Nat
      <4> HIDE DEF n
      <4> QED BY <1>1
    <3> DEFINE E == {j \in 1 .. i - 1 : category(sorted[j]) = category(sorted[i])}
    <3>2. E \in SUBSET (1 .. i - 1)
      OBVIOUS
    <3> HIDE DEF E
    <3>3. Cardinality(E) \in Nat
      BY <3>1, <3>2, CountBefore
    <3> QED BY <3>3 DEF E
  <2>3. (-20) * before(i) \in Int
    <3> HIDE DEF before
    <3> QED BY <2>2
  <2> HIDE DEF before, sorted, category
  <2> QED BY <2>1, <2>2, <2>3
<1>4. \A i \in 1 .. n : sorted[i] \in S
  <2> HIDE DEF sorted, n
  <2> QED BY <1>1
<1>5. IsFiniteSet(T)
  <2> DEFINE f == [i \in 1 .. n |-> [id |-> sorted[i].id, score |-> points(i)]]
  <2>1. \A p \in T : \E i \in 1 .. n : p = f[i]
    <3> HIDE DEF points, T
    <3> QED BY <1>1, <1>2
  <2>2. IsFiniteSet(1 .. n)
    <3>1. 1 \in Int /\ n \in Int
      <4> HIDE DEF n
      <4> QED BY <1>1
    <3> HIDE DEF n
    <3> QED BY <3>1, FS_Interval
  <2>3. DOMAIN f = 1 .. n
    OBVIOUS
  <2> HIDE DEF f, n, T
  <2> QED BY <2>1, <2>2, <2>3, ImageIsFinite
<1>6. ASSUME NEW p \in T
      PROVE  \E i \in 1 .. n : p.id = sorted[i].id /\ p.score = points(i)
                               /\ p = [id |-> sorted[i].id, score |-> points(i)]
  <2>1. PICK i \in 1 .. n : p = [id |-> sorted[i].id, score |-> points(i)]
    <3> HIDE DEF points, T, sorted
    <3> QED BY <1>1, <1>2
  <2> HIDE DEF points, T, sorted
  <2> QED BY <2>1
<1>7. \A p \in T : p.score \in Int /\ p.id \in ids /\ p.id[4] \in Nat
  <2> SUFFICES ASSUME NEW p \in T PROVE p.score \in Int /\ p.id \in ids /\ p.id[4] \in Nat
    OBVIOUS
  <2>1. PICK i \in 1 .. n : p.id = sorted[i].id /\ p.score = points(i)
    BY <1>6
  <2>2. sorted[i] \in S
    BY <1>4
  <2>3. sorted[i].id \in ids /\ sorted[i].id[4] \in Nat
    <3> HIDE DEF sorted
    <3> QED BY <2>2 DEF ScoredOK
  <2> HIDE DEF points, T, sorted, n
  <2> QED BY <1>3, <2>1, <2>3
<1>8. \A p, q \in T : p.id[4] = q.id[4] => p = q
  <2> SUFFICES ASSUME NEW p \in T, NEW q \in T, p.id[4] = q.id[4] PROVE p = q
    OBVIOUS
  <2>1. PICK i \in 1 .. n : p.id = sorted[i].id /\ p = [id |-> sorted[i].id, score |-> points(i)]
    BY <1>6
  <2>2. PICK j \in 1 .. n : q.id = sorted[j].id /\ q = [id |-> sorted[j].id, score |-> points(j)]
    BY <1>6
  <2>3. sorted[i] \in S /\ sorted[j] \in S /\ sorted[i].id[4] = sorted[j].id[4]
    <3> HIDE DEF sorted, n, points, T
    <3> QED BY <1>4, <2>1, <2>2
  <2>4. sorted[i] = sorted[j]
    <3> HIDE DEF sorted
    <3> QED BY <2>3 DEF ScoredOK
  <2>5. i = j
    <3> HIDE DEF sorted, n
    <3> QED BY <1>1, <2>4
  <2> HIDE DEF sorted, points
  <2> QED BY <2>1, <2>2, <2>5
<1> HIDE DEF T
<1>9. ScoredOK(T, ids)
  BY <1>5, <1>7, <1>8 DEF ScoredOK
<1> QED BY <1>9 DEF T

(* Who is served is scored and not excluded.                                *)
LEMMA ServedIs ==
  ASSUME NEW ids, NEW S, ScoredOK(S, ids), NEW excluded, NEW minScore, NEW limit \in Nat
  PROVE  LET list == ServedList(S, excluded, minScore, limit)
         IN  \A i \in DOMAIN list : list[i].id \in ids /\ list[i].id \notin excluded
<1> DEFINE T == {p \in S : p.id \notin excluded /\ p.score >= minScore}
           sorted == SortedBy(T, HigherFirst(T))
           list == ServedList(S, excluded, minScore, limit)
           n == Cardinality(T)
<1>1. ScoredOK(T, ids)
  <2>1. T \in SUBSET S
    OBVIOUS
  <2> HIDE DEF T
  <2> QED BY <2>1, SomeScored
<1>2. Lists(sorted, T)
  <2> HIDE DEF T
  <2> QED BY <1>1, ScoredLists
<1>3. n \in Nat /\ sorted \in [1 .. n -> T]
  <2> HIDE DEF sorted, T
  <2> QED BY <1>2 DEF Lists
<1>4. list = AtMost(sorted, limit)
  BY DEF ServedList
<1>5. \E m \in 0 .. n : AtMost(sorted, limit) = [i \in 1 .. m |-> sorted[i]]
  <2> HIDE DEF list, n, T, sorted
  <2> QED BY <1>3, AtMostIs
<1>6. PICK m \in 0 .. n : list = [i \in 1 .. m |-> sorted[i]]
  <2> HIDE DEF list, n, sorted
  <2> QED BY <1>4, <1>5
<1>7. \A i \in DOMAIN list : list[i] \in T
  <2> HIDE DEF list, n, sorted, T
  <2> QED BY <1>3, <1>6
<1>8. \A p \in T : p.id \in ids /\ p.id \notin excluded
  BY DEF ScoredOK
<1> HIDE DEF list, T
<1>9. \A i \in DOMAIN list : list[i].id \in ids /\ list[i].id \notin excluded
  BY <1>7, <1>8
<1> QED BY <1>9 DEF list

------------------------------------------------------------------------------
(* Features are numbers.                                                    *)
FeatureOK(feature) == feature.entity \in Int /\ feature.graph \in Int /\ feature.embedding \in Int

(* A feature the session accepts is numbers.                                *)
LEMMA SoundFeature == ASSUME NEW feature, FeatureSound(feature) PROVE FeatureOK(feature)
<1>1. \A f \in {"entity", "graph", "embedding"} : feature[f] \in -100 .. 100
  BY DEF FeatureSound
<1>2. feature["entity"] \in -100 .. 100 /\ feature["graph"] \in -100 .. 100
      /\ feature["embedding"] \in -100 .. 100
  BY <1>1
<1> QED BY <1>2 DEF FeatureOK

(* So a score is an integer.                                                *)
LEMMA ScoreIsInt ==
  ASSUME NEW c, NEW profile \in Profiles, NEW languages, NEW feature, FeatureOK(feature)
  PROVE  HybridScore(c, profile, languages, feature) \in Int
<1>1. Affinity(c, profile) \in Int
  BY AffinityIsInt
<1>2. Clamped(Affinity(c, profile)) \in Int
  BY <1>1, ClampedIsInt
<1> DEFINE match == CASE Language(c, languages) = "incompatible" -> 0
                      [] Language(c, languages) = "compatible" -> 100
                      [] OTHER -> 85
<1>3. match \in Int
  OBVIOUS
<1>4. DeterministicScore(c, profile, languages) = (Clamped(Affinity(c, profile)) * match) \div 100
  BY DEF DeterministicScore
<1>5. DeterministicScore(c, profile, languages) \in Int
  <2> HIDE DEF match
  <2> QED BY <1>2, <1>3, <1>4
<1>6. (35 * feature.embedding) \div 100 \in Int
  BY DEF FeatureOK
<1> QED BY <1>5, <1>6 DEF HybridScore, FeatureOK

------------------------------------------------------------------------------
(* The jobs a pool is through with.                                         *)
Through(p) == (1 .. p.next - 1) \ p.inflight

(* A worker is at every job begun and not done, and when all rest, every    *)
(* job has been begun.                                                      *)
PoolOK(p) ==
  /\ p \in [size : Nat, next : Nat, inflight : SUBSET Nat]
  /\ p.next \in 1 .. p.size + 1 /\ p.inflight \subseteq 1 .. p.next - 1
  /\ p.inflight = {} => p.next = p.size + 1

(* A pool starts with nothing done.                                         *)
LEMMA PoolStarts ==
  ASSUME NEW n \in Nat, NEW concurrency \in Nat \ {0}
  PROVE  LET p == PoolOf(n, concurrency) IN PoolOK(p) /\ p.size = n /\ Through(p) = {}
BY DEF PoolOf, PoolOK, Through

(* A worker that is through with its job adds just that one to what is      *)
(* done.                                                                    *)
LEMMA PoolAdvances ==
  ASSUME NEW p, PoolOK(p), NEW i \in p.inflight
  PROVE  /\ PoolOK(Advanced(p, i)) /\ Advanced(p, i).size = p.size
         /\ Through(Advanced(p, i)) = Through(p) \cup {i}
         /\ i \notin Through(p) /\ i \in 1 .. p.size
<1> DEFINE q == Advanced(p, i)
<1>1. p.next \in Nat /\ p.size \in Nat /\ i \in Nat /\ i < p.next /\ p.inflight \subseteq 1 .. p.next - 1
      /\ p.next <= p.size + 1 /\ 1 <= i
  BY DEF PoolOK
<1>2. CASE p.next <= p.size
  <2>1. q = [p EXCEPT !.next = p.next + 1, !.inflight = (p.inflight \ {i}) \cup {p.next}]
    BY <1>2 DEF Advanced
  <2> DEFINE flying == (p.inflight \ {i}) \cup {p.next}
             after == p.next + 1
  <2>2. flying \in SUBSET Nat /\ after \in Nat /\ p \in [size : Nat, next : Nat, inflight : SUBSET Nat]
    BY <1>1 DEF PoolOK
  <2>3. q = [p EXCEPT !.next = after, !.inflight = flying]
    BY <2>1
  <2> HIDE DEF flying, after, q
  <2>4. q.next = after /\ q.inflight = flying /\ q.size = p.size
        /\ q \in [size : Nat, next : Nat, inflight : SUBSET Nat]
    BY <2>2, <2>3
  <2>5. q.next = p.next + 1 /\ q.inflight = (p.inflight \ {i}) \cup {p.next} /\ q.size = p.size
        /\ q \in [size : Nat, next : Nat, inflight : SUBSET Nat]
    BY <2>4 DEF flying, after
  <2>6. PoolOK(q) /\ Through(q) = Through(p) \cup {i}
    BY <1>1, <1>2, <2>5 DEF PoolOK, Through
  <2> QED BY <1>1, <1>2, <2>5, <2>6 DEF Through, q
<1>3. CASE ~(p.next <= p.size)
  <2>1. q = [p EXCEPT !.inflight = p.inflight \ {i}]
    BY <1>3 DEF Advanced
  <2>2. q.next = p.next /\ q.inflight = p.inflight \ {i} /\ q.size = p.size
        /\ q \in [size : Nat, next : Nat, inflight : SUBSET Nat]
    BY <1>1, <2>1 DEF PoolOK
  <2> HIDE DEF q
  <2>3. PoolOK(q) /\ Through(q) = Through(p) \cup {i}
    BY <1>1, <1>3, <2>2 DEF PoolOK, Through
  <2> QED BY <1>1, <1>3, <2>2, <2>3 DEF Through, q
<1> QED BY <1>2, <1>3

(* When all workers rest, all is done.                                      *)
LEMMA PoolEnds ==
  ASSUME NEW p, PoolOK(p), p.inflight = {} PROVE Through(p) = 1 .. p.size
BY DEF PoolOK, Through

------------------------------------------------------------------------------
(* The stages that have a ranking, and those that know who is eligible.     *)
AfterGenerating == {"evaluating", "features", "reranking", "explaining", "served"}
AfterEvaluating == {"features", "reranking", "explaining", "served"}
(* ... and all of them.                                                     *)
SessionStages == {"idle", "profile", "generating", "rejected"} \cup AfterGenerating

(* The request and the profile are there once they are needed, and the      *)
(* sources have different names; nothing is recommended before the end.     *)
StageOK ==
  /\ DOMAIN stage = {"at", "request", "profile"} /\ stage.at \in SessionStages
  /\ stage.at # "idle" => stage.request \in Requests
  /\ stage.at \in {"generating"} \cup AfterGenerating =>
       /\ stage.profile \in Profiles
       /\ \A i, j \in DOMAIN SessionSources : SessionSources[i].name = SessionSources[j].name => i = j
  /\ stage.at # "served" => recommended = <<>>

(* The records keep their fields, and the pool is one.                      *)
ShapesOK ==
  /\ DOMAIN answered = {"source", "verdict", "feature", "category"}
  /\ DOMAIN judged = {"eligible", "failures"}
  /\ PoolOK(pool)

(* Nobody has been asked.                                                   *)
NothingAsked == answered = NothingAnswered /\ results = <<>>

(* What a source was believed may be reported, and by that source.          *)
SourcesHeard ==
  \A i \in DOMAIN SessionSources :
    LET name == SessionSources[i].name IN
    name \in DOMAIN answered.source =>
      /\ answered.source[name].candidates \in Seq(MayBeReported)
      /\ \A c \in Range(answered.source[name].candidates) :
           c.verification \in AllowedVerifications(SessionSources[i].authority)

(* While the sources are asked: an index has a result when its job is done, *)
(* it is the outcome of that source, and who is not done has not answered.  *)
GeneratingOK ==
  /\ pool.size = Len(SessionSources)
  /\ DOMAIN results = Through(pool)
  /\ \A i \in Through(pool) : results[i].candidates = OutcomesInOrder[i].candidates
  /\ \A i \in DOMAIN SessionSources \ Through(pool) : SessionSources[i].name \notin DOMAIN answered.source
  /\ answered.verdict = <<>> /\ answered.feature = <<>>

(* Afterwards: the ranking is the one of the outcomes in order, which       *)
(* merge; and verdicts are verdicts.                                        *)
GeneratedOK ==
  /\ Mergeable(OutcomesInOrder)
  /\ generated = GeneratedFrom(OutcomesInOrder, stage.profile, stage.request.languages)
  /\ \A x \in DOMAIN answered.verdict :
       LET said == answered.verdict[x] IN
       /\ said.same \in BOOLEAN /\ said.eligible \in BOOLEAN
       /\ said = [id |-> said.id, same |-> said.same, eligible |-> said.eligible]

(* The evaluator spoke of whom it was asked about, and found it eligible.   *)
HeardOf(c) == c.id \in DOMAIN answered.verdict /\ answered.verdict[c.id].id = c.id
FoundEligible == {c \in Range(generated) : HeardOf(c) /\ answered.verdict[c.id].eligible}

(* While it is asked: an index has a result when the evaluator spoke of     *)
(* that candidate, and it is the verdict given.                             *)
EvaluatingOK ==
  /\ pool.size = Len(generated) /\ DOMAIN results \subseteq Through(pool)
  /\ \A i \in DOMAIN generated :
       /\ i \notin Through(pool) => generated[i].id \notin DOMAIN answered.verdict
       /\ i \in DOMAIN results <=> HeardOf(generated[i])
       /\ i \in DOMAIN results => results[i] = answered.verdict[generated[i].id]
  /\ answered.feature = <<>>

(* Afterwards: eligible are those found so, unchanged, and features are     *)
(* numbers.                                                                 *)
JudgedOK ==
  /\ judged.eligible = FoundEligible
  /\ \A c \in FoundEligible : answered.verdict[c.id].same
  /\ \A x \in DOMAIN answered.feature : FeatureOK(answered.feature[x])

(* While features are asked for: by index, those of the eligible in order.  *)
FeaturesOK ==
  /\ pool.size <= Cardinality(judged.eligible) /\ DOMAIN results = Through(pool)
  /\ \A i \in DOMAIN Ordered :
       /\ i \in Through(pool) =>
            Ordered[i].id \in DOMAIN answered.feature /\ results[i] = answered.feature[Ordered[i].id]
       /\ i \notin Through(pool) => Ordered[i].id \notin DOMAIN answered.feature

(* The feature of a candidate, however it came.                             *)
FeatureOf(c) == IF c.id \in DOMAIN answered.feature THEN answered.feature[c.id] ELSE NoFeature

(* The scores before reranking.                                             *)
PlainScored ==
  {[id |-> c.id,
    score |-> HybridScore(c, stage.profile, stage.request.languages, FeatureOf(c))]
     : c \in {c \in FoundEligible : c.id \notin stage.request.excluded}}

(* What one worker would have served, as candidates.                        *)
ServedInOrder ==
  LET list == ServedList(ScoredInOrder, stage.request.excluded, stage.request.minScore,
                           stage.request.limit)
  IN  [i \in DOMAIN list |-> CandidateOf(list[i].id)]

(* The inductive invariant: at every stage, what has been collected is a    *)
(* function of the answers alone, not of the order they came in.            *)
SessionInv ==
  /\ StageOK /\ ShapesOK
  /\ stage.at \in {"idle", "profile"} => NothingAsked
  /\ stage.at \in {"generating"} \cup AfterGenerating => SourcesHeard
  /\ stage.at = "generating" => GeneratingOK
  /\ stage.at \in AfterGenerating => GeneratedOK
  /\ stage.at = "evaluating" => EvaluatingOK
  /\ stage.at \in AfterEvaluating => JudgedOK
  /\ stage.at = "features" => FeaturesOK
  /\ stage.at = "reranking" => scored = PlainScored /\ stage.request.rerank
  /\ stage.at = "explaining" => scored = ScoredInOrder
  /\ stage.at = "served" => recommended = ServedInOrder

(* The inductive invariant holds at first.                                  *)
LEMMA SessionStarts == SessionInit => SessionInv
<1> SUFFICES ASSUME SessionInit PROVE SessionInv
  OBVIOUS
<1>1. PoolOK(pool)
  <2>1. 0 \in Nat /\ 1 \in Nat \ {0}
    OBVIOUS
  <2> QED BY <2>1, PoolStarts DEF SessionInit
<1>2. stage.at = "idle" /\ DOMAIN stage = {"at", "request", "profile"} /\ recommended = <<>>
      /\ DOMAIN judged = {"eligible", "failures"} /\ NothingAsked
      /\ DOMAIN answered = {"source", "verdict", "feature", "category"}
  BY DEF SessionInit, NoSession, NoJudgement, NothingAnswered, NothingAsked
<1> QED BY <1>1, <1>2 DEF SessionInv, StageOK, ShapesOK, AfterGenerating, AfterEvaluating, SessionStages

(* The sources are a list, each of them known.                              *)
LEMMA SourcesTyped ==
  ASSUME SessionInv, stage.at # "idle"
  PROVE  Len(SessionSources) \in Nat /\ DOMAIN SessionSources = 1 .. Len(SessionSources)
         /\ \A i \in DOMAIN SessionSources : SessionSources[i].name \in DOMAIN Answers
<1>1. stage.request \in Requests
  BY DEF SessionInv, StageOK
<1>2. SessionSources \in Seq(Range(SessionSources))
      /\ \A source \in Range(SessionSources) : source.name \in DOMAIN Answers
  BY <1>1, SessionAssumption DEF SessionSources
<1> QED BY <1>2 DEF Range

(* The outcomes in order are finitely many lists of what may be reported.   *)
LEMMA OutcomesTyped ==
  ASSUME SessionInv, stage.at \in {"generating"} \cup AfterGenerating
  PROVE  ReportsOK(OutcomesInOrder) /\ DOMAIN OutcomesInOrder = DOMAIN SessionSources
<1>1. Len(SessionSources) \in Nat /\ DOMAIN SessionSources = 1 .. Len(SessionSources)
  BY SourcesTyped DEF AfterGenerating
<1>2. DOMAIN OutcomesInOrder = DOMAIN SessionSources
  BY DEF OutcomesInOrder
<1>3. IsFiniteSet(1 .. Len(SessionSources))
  <2>1. 1 \in Int /\ Len(SessionSources) \in Int
    BY <1>1
  <2> QED BY <2>1, FS_Interval
<1>4. \A i \in DOMAIN SessionSources : OutcomesInOrder[i].candidates \in Seq(MayBeReported)
  <2>1. <<>> \in Seq(MayBeReported)
    OBVIOUS
  <2>2. SourcesHeard
    BY DEF SessionInv
  <2> QED BY <2>1, <2>2 DEF OutcomesInOrder, SourcesHeard
<1> QED BY <1>1, <1>2, <1>3, <1>4 DEF ReportsOK

(* The ranking is of merged candidates, each once.                          *)
LEMMA GeneratedTyped ==
  ASSUME SessionInv, stage.at \in AfterGenerating
  PROVE  /\ Len(generated) \in Nat /\ DOMAIN generated = 1 .. Len(generated)
         /\ IsFiniteSet(Range(generated)) /\ Range(generated) \subseteq MergedCandidates(OutcomesInOrder)
         /\ \A i, j \in DOMAIN generated : generated[i].id = generated[j].id => i = j
         /\ \A c \in MergedCandidates(OutcomesInOrder) : c.native \in Nat /\ c.id[4] = c.native
         /\ \A c, d \in MergedCandidates(OutcomesInOrder) : c.id = d.id => c = d
         /\ \A c, d \in MergedCandidates(OutcomesInOrder) : c.native = d.native => c = d
<1>1. ReportsOK(OutcomesInOrder) /\ Mergeable(OutcomesInOrder) /\ stage.profile \in Profiles
  BY OutcomesTyped DEF SessionInv, StageOK, GeneratedOK
<1>2. /\ generated \in Seq(MergedCandidates(OutcomesInOrder))
      /\ \A i, j \in DOMAIN generated : generated[i].id = generated[j].id => i = j
  <2>1. generated = GeneratedFrom(OutcomesInOrder, stage.profile, stage.request.languages)
    BY DEF SessionInv, GeneratedOK
  <2> QED BY <1>1, <2>1, GeneratedIs
<1>3. Len(generated) \in Nat /\ DOMAIN generated = 1 .. Len(generated)
      /\ Range(generated) \subseteq MergedCandidates(OutcomesInOrder)
  BY <1>2 DEF Range
<1>4. IsFiniteSet(Range(generated))
  <2>1. IsFiniteSet(MergedCandidates(OutcomesInOrder))
    BY <1>1, MergedFinite
  <2> QED BY <1>3, <2>1, FS_Subset
<1>5. /\ \A c \in MergedCandidates(OutcomesInOrder) : c.native \in Nat /\ c.id[4] = c.native
      /\ \A c, d \in MergedCandidates(OutcomesInOrder) : c.id = d.id => c = d
      /\ \A c, d \in MergedCandidates(OutcomesInOrder) : c.native = d.native => c = d
  BY <1>1, MergedUnique
<1> QED BY <1>2, <1>3, <1>4, <1>5

(* The eligible are finitely many of those.                                 *)
LEMMA EligibleTyped ==
  ASSUME SessionInv, stage.at \in AfterEvaluating
  PROVE  /\ judged.eligible = FoundEligible /\ IsFiniteSet(FoundEligible)
         /\ FoundEligible \subseteq Range(generated)
         /\ \A c \in FoundEligible : c.native \in Nat /\ c.id[4] = c.native
         /\ \A c, d \in FoundEligible : c.id = d.id => c = d
         /\ \A c, d \in FoundEligible : c.native = d.native => c = d
<1>1. judged.eligible = FoundEligible /\ stage.at \in AfterGenerating
  BY DEF SessionInv, JudgedOK, AfterEvaluating, AfterGenerating
<1>2. FoundEligible \subseteq Range(generated)
  BY DEF FoundEligible
<1>3. IsFiniteSet(FoundEligible)
  BY <1>1, <1>2, GeneratedTyped, FS_Subset
<1>4. FoundEligible \subseteq MergedCandidates(OutcomesInOrder)
  BY <1>1, <1>2, GeneratedTyped
<1> QED BY <1>1, <1>2, <1>3, <1>4, GeneratedTyped

(* In order, they are listed, each once.                                    *)
LEMMA OrderedLists ==
  ASSUME SessionInv, stage.at \in AfterEvaluating
  PROVE  /\ Lists(Ordered, judged.eligible)
         /\ \A i, j \in DOMAIN Ordered : Ordered[i].id = Ordered[j].id => i = j
<1> DEFINE S == judged.eligible
           before == {p \in S \X S : p[1].native < p[2].native}
           number(c) == c.native
<1>1. /\ IsFiniteSet(S) /\ \A c \in S : number(c) \in Nat
      /\ \A c, d \in S : c.id = d.id => c = d
      /\ \A c, d \in S : number(c) = number(d) => c = d
  BY EligibleTyped
<1>2. \A c, d \in S : <<c, d>> \in before <=> number(c) < number(d)
  OBVIOUS
<1> HIDE DEF number
<1>3. Orders(before, S)
  <2> HIDE DEF before, S
  <2>1. \A c \in S : <<c, c>> \notin before
    BY <1>1, <1>2
  <2>2. \A c, d, e \in S : <<c, d>> \in before /\ <<d, e>> \in before => <<c, e>> \in before
    BY <1>1, <1>2
  <2>3. \A c, d \in S : c # d => <<c, d>> \in before \/ <<d, c>> \in before
    BY <1>1, <1>2
  <2> QED BY <2>1, <2>2, <2>3 DEF Orders
<1>4. Ordered = SortedBy(S, before)
  BY DEF Ordered
<1>5. Lists(Ordered, S)
  <2> HIDE DEF before, S
  <2> QED BY <1>1, <1>3, <1>4, SortedLists
<1>6. \A i, j \in DOMAIN Ordered : Ordered[i].id = Ordered[j].id => i = j
  <2> HIDE DEF before, S
  <2> QED BY <1>1, <1>5 DEF Lists
<1> QED BY <1>5, <1>6

------------------------------------------------------------------------------
(* What stays as it is when nobody new is heard.                            *)
LEMMA SourcesStay ==
  ASSUME stage'.request = stage.request, answered'.source = answered.source
  PROVE  /\ SessionSources' = SessionSources /\ OutcomesInOrder' = OutcomesInOrder
         /\ SourcesHeard => SourcesHeard'
<1>1. SessionSources' = SessionSources
  BY DEF SessionSources
<1> QED BY <1>1 DEF OutcomesInOrder, SourcesHeard

(* ... and nothing is generated,                                            *)
LEMMA GeneratedStays ==
  ASSUME stage'.request = stage.request, stage'.profile = stage.profile,
         answered'.source = answered.source, answered'.verdict = answered.verdict, generated' = generated
  PROVE  /\ GeneratedOK => GeneratedOK'
         /\ FoundEligible' = FoundEligible /\ \A c : HeardOf(c) <=> HeardOf(c)'
<1>1. OutcomesInOrder' = OutcomesInOrder
  BY SourcesStay
<1>2. GeneratedOK => GeneratedOK'
  <2>1. Mergeable(OutcomesInOrder) => Mergeable(OutcomesInOrder)'
    BY <1>1
  <2> QED BY <1>1, <2>1 DEF GeneratedOK
<1>3. FoundEligible' = FoundEligible
  BY DEF FoundEligible, HeardOf
<1> QED BY <1>2, <1>3 DEF HeardOf

(* ... and nobody judged.                                                   *)
LEMMA JudgedStays ==
  ASSUME stage'.request = stage.request, stage'.profile = stage.profile,
         answered'.source = answered.source, answered'.verdict = answered.verdict, generated' = generated,
         judged'.eligible = judged.eligible
  PROVE  /\ Ordered' = Ordered
         /\ answered'.feature = answered.feature => (JudgedOK => JudgedOK') /\ PlainScored' = PlainScored
<1>1. FoundEligible' = FoundEligible
  BY GeneratedStays
<1>2. Ordered' = Ordered
  BY DEF Ordered
<1>3. ASSUME answered'.feature = answered.feature
      PROVE  (JudgedOK => JudgedOK') /\ PlainScored' = PlainScored
  <2>1. JudgedOK => JudgedOK'
    BY <1>1, <1>3 DEF JudgedOK
  <2>2. \A c : FeatureOf(c)' = FeatureOf(c)
    BY <1>3 DEF FeatureOf
  <2> QED BY <1>1, <2>1, <2>2 DEF PlainScored
<1> QED BY <1>2, <1>3

(* A stage that follows another: only where the session is changes.          *)
LEMMA StageSet ==
  ASSUME SessionInv, NEW at, stage' = [stage EXCEPT !.at = at]
  PROVE  /\ stage'.at = at /\ stage'.request = stage.request /\ stage'.profile = stage.profile
         /\ DOMAIN stage' = {"at", "request", "profile"}
BY DEF SessionInv, StageOK

(* A session may be rejected at any time before it is served.               *)
LEMMA SessionEnds ==
  ASSUME SessionInv, stage.at # "idle", stage.at # "served", Reject, ShapesOK', recommended' = recommended
  PROVE  SessionInv'
<1>1. stage'.at = "rejected" /\ stage'.request = stage.request
      /\ DOMAIN stage' = {"at", "request", "profile"}
  BY StageSet DEF Reject
<1>2. StageOK'
  BY <1>1 DEF SessionInv, StageOK, AfterGenerating, SessionStages
<1> QED BY <1>1, <1>2 DEF SessionInv, AfterGenerating, AfterEvaluating

(* Every action keeps the inductive invariant: the request,                 *)
LEMMA SessionBegins ==
  ASSUME SessionInv, NEW request \in Requests, StartSession(request) PROVE SessionInv'
<1>1. /\ stage'.at = "profile" /\ stage'.request = request /\ DOMAIN stage' = {"at", "request", "profile"}
      /\ stage.at = "idle"
  BY DEF StartSession, SessionInv, StageOK
<1>2. StageOK'
  BY <1>1 DEF SessionInv, StageOK, AfterGenerating, SessionStages, StartSession
<1>3. ShapesOK' /\ NothingAsked'
  BY <1>1 DEF SessionInv, ShapesOK, NothingAsked, StartSession
<1> QED BY <1>1, <1>2, <1>3 DEF SessionInv, AfterGenerating, AfterEvaluating

(* the profile,                                                             *)
LEMMA ProfileIsRead ==
  ASSUME SessionInv, NEW profile \in Profiles, ProfileRead(profile) PROVE SessionInv'
<1>1. stage.at = "profile" /\ NothingAsked /\ stage.request \in Requests
      /\ DOMAIN stage = {"at", "request", "profile"} /\ recommended = <<>>
  BY DEF ProfileRead, SessionInv, StageOK
<1>2. UNCHANGED <<results, generated, judged, scored, recommended, answered, sessionFaults>>
  BY DEF ProfileRead
<1>3. CASE Reject /\ UNCHANGED pool
  BY <1>1, <1>2, <1>3, SessionEnds DEF SessionInv, ShapesOK
<1>4. CASE /\ IsInjective([i \in DOMAIN SessionSources |-> SessionSources[i].name])
           /\ stage' = [stage EXCEPT !.at = "generating", !.profile = profile]
           /\ pool' = PoolOf(Len(SessionSources), SourceConcurrency)
  <2>1. /\ stage'.at = "generating" /\ stage'.request = stage.request /\ stage'.profile = profile
        /\ DOMAIN stage' = {"at", "request", "profile"}
    BY <1>1, <1>4
  <2>2. Len(SessionSources) \in Nat /\ DOMAIN SessionSources = 1 .. Len(SessionSources)
    BY <1>1, SourcesTyped
  <2>3. PoolOK(pool)' /\ pool'.size = Len(SessionSources) /\ Through(pool)' = {}
    BY <1>4, <2>2, PoolStarts, SessionAssumption
  <2>4. SessionSources' = SessionSources
    BY <2>1 DEF SessionSources
  <2>5. \A i, j \in DOMAIN SessionSources : SessionSources[i].name = SessionSources[j].name => i = j
    BY <1>4 DEF IsInjective
  <2>6. StageOK'
    BY <1>1, <1>2, <2>1, <2>4, <2>5 DEF StageOK, AfterGenerating, SessionStages
  <2>7. ShapesOK'
    BY <1>2, <2>3 DEF SessionInv, ShapesOK
  <2>8. /\ answered'.source = <<>> /\ answered'.verdict = <<>> /\ answered'.feature = <<>>
        /\ results' = <<>>
    BY <1>1, <1>2 DEF NothingAsked, NothingAnswered
  <2>9. SourcesHeard'
    BY <2>8 DEF SourcesHeard
  <2>10. GeneratingOK'
    BY <2>3, <2>4, <2>8 DEF GeneratingOK
  <2> QED BY <2>1, <2>6, <2>7, <2>9, <2>10 DEF SessionInv, AfterGenerating, AfterEvaluating
<1> QED BY <1>3, <1>4 DEF ProfileRead

------------------------------------------------------------------------------
(* The outcome of a source.                                                 *)
LEMMA JobSettledIs ==
  ASSUME SessionInv, NEW i \in pool.inflight, NEW result, JobSettled(i, result)
  PROVE  /\ PoolOK(pool)' /\ pool'.size = pool.size /\ Through(pool)' = Through(pool) \cup {i}
         /\ i \notin Through(pool) /\ i \in 1 .. pool.size
         /\ DOMAIN results' = DOMAIN results \cup {i} /\ results'[i] = result
         /\ \A j \in DOMAIN results : j # i => results'[j] = results[j]
<1>1. PoolOK(pool)
  BY DEF SessionInv, ShapesOK
<1>2. pool' = Advanced(pool, i)
  BY DEF JobSettled
<1>3. /\ PoolOK(pool)' /\ pool'.size = pool.size /\ Through(pool)' = Through(pool) \cup {i}
      /\ i \notin Through(pool) /\ i \in 1 .. pool.size
  BY <1>1, <1>2, PoolAdvances
<1>4. results' = Put(results, i, result)
  BY DEF JobSettled, Recorded
<1> QED BY <1>3, <1>4 DEF Put

(* a source that is skipped or throws,                                      *)
LEMMA SourceIsSilent ==
  ASSUME SessionInv, stage.at = "generating", NEW i \in pool.inflight, NEW result,
         result.candidates = <<>>, JobSettled(i, result),
         UNCHANGED <<stage, generated, judged, scored, recommended, answered>>
  PROVE  SessionInv'
<1>1. /\ PoolOK(pool)' /\ pool'.size = pool.size /\ Through(pool)' = Through(pool) \cup {i}
      /\ i \notin Through(pool) /\ i \in 1 .. pool.size
      /\ DOMAIN results' = DOMAIN results \cup {i} /\ results'[i] = result
      /\ \A j \in DOMAIN results : j # i => results'[j] = results[j]
  BY JobSettledIs
<1>2. GeneratingOK /\ SourcesHeard
  BY DEF SessionInv
<1>3. SessionSources' = SessionSources /\ OutcomesInOrder' = OutcomesInOrder /\ SourcesHeard'
  BY <1>2, SourcesStay
<1>4. DOMAIN SessionSources = 1 .. pool.size
  BY <1>2, SourcesTyped DEF GeneratingOK
<1>5. OutcomesInOrder[i].candidates = <<>>
  BY <1>1, <1>2, <1>4 DEF GeneratingOK, OutcomesInOrder
<1>6. GeneratingOK'
  BY <1>1, <1>2, <1>3, <1>5 DEF GeneratingOK
<1>7. StageOK'
  BY <1>3 DEF SessionInv, StageOK
<1>8. ShapesOK'
  BY <1>1 DEF SessionInv, ShapesOK
<1> QED BY <1>3, <1>6, <1>7, <1>8 DEF SessionInv, AfterGenerating, AfterEvaluating

(* an answer, sound or not,                                                 *)
LEMMA SourceIsHeard ==
  ASSUME SessionInv, NEW i \in pool.inflight, stage.at = "generating",
         NEW answer \in Answers[SessionSources[i].name], SourceAnswers(i, answer)
  PROVE  SessionInv'
<1> DEFINE sound == AnswerSound(SessionSources[i], Asked(i), answer)
           outcome == [candidates |-> IF sound THEN answer.candidates ELSE <<>>, failed |-> ~sound]
           name == SessionSources[i].name
<1>0. JobSettled(i, outcome) /\ answered' = [answered EXCEPT !.source = Put(@, name, outcome)]
      /\ UNCHANGED <<stage, generated, judged, scored, recommended>>
  BY DEF SourceAnswers
<1>1. /\ PoolOK(pool)' /\ pool'.size = pool.size /\ Through(pool)' = Through(pool) \cup {i}
      /\ i \notin Through(pool) /\ i \in 1 .. pool.size
      /\ DOMAIN results' = DOMAIN results \cup {i} /\ results'[i] = outcome
      /\ \A j \in DOMAIN results : j # i => results'[j] = results[j]
  <2> HIDE DEF outcome
  <2> QED BY <1>0, JobSettledIs
<1>2. GeneratingOK /\ SourcesHeard /\ StageOK /\ ShapesOK
  BY DEF SessionInv
<1>3. SessionSources' = SessionSources
  BY <1>0 DEF SessionSources
<1>4. DOMAIN SessionSources = 1 .. pool.size /\ name \in DOMAIN Answers
  BY <1>1, <1>2, SourcesTyped DEF GeneratingOK
<1>5. \A j \in DOMAIN SessionSources : j # i => SessionSources[j].name # name
  BY <1>1, <1>2, <1>4 DEF StageOK
<1>6. /\ DOMAIN answered' = DOMAIN answered
      /\ answered'.verdict = answered.verdict /\ answered'.feature = answered.feature
      /\ DOMAIN answered'.source = DOMAIN answered.source \cup {name}
      /\ answered'.source[name] = outcome
      /\ \A n \in DOMAIN answered.source : n # name => answered'.source[n] = answered.source[n]
  <2>1. DOMAIN answered = {"source", "verdict", "feature", "category"}
    BY <1>2 DEF ShapesOK
  <2>2. answered' = [answered EXCEPT !.source = Put(answered.source, name, outcome)]
    BY <1>0
  <2>3. answered'.source = Put(answered.source, name, outcome)
        /\ DOMAIN answered' = DOMAIN answered
        /\ answered'.verdict = answered.verdict /\ answered'.feature = answered.feature
    <3> HIDE DEF outcome, name
    <3> QED BY <2>1, <2>2
  <2> HIDE DEF outcome, name
  <2> QED BY <2>3 DEF Put
<1>7. /\ outcome.candidates \in Seq(MayBeReported)
      /\ \A c \in Range(outcome.candidates) : c.verification \in AllowedVerifications(SessionSources[i].authority)
  <2>1. CASE sound
    <3>1. outcome.candidates = answer.candidates
      BY <2>1
    <3>2. answer.candidates \in Seq(Range(answer.candidates))
      BY <1>4, SessionAssumption
    <3>3. Range(answer.candidates) \subseteq MayBeReported
      BY <1>4 DEF MayBeReported
    <3>4. answer.candidates \in Seq(MayBeReported)
      <4> DEFINE cs == answer.candidates
                 R == Range(cs)
      <4>1. cs \in Seq(R) /\ R \subseteq MayBeReported
        BY <3>2, <3>3
      <4> HIDE DEF cs, R
      <4>2. cs \in Seq(MayBeReported)
        BY <4>1
      <4> QED BY <4>2 DEF cs
    <3>5. \A c \in Range(answer.candidates) : c.verification \in AllowedVerifications(SessionSources[i].authority)
      BY <2>1 DEF AnswerSound, WithinAuthority
    <3> HIDE DEF outcome
    <3> QED BY <3>1, <3>4, <3>5
  <2>2. CASE ~sound
    <3>1. outcome.candidates = <<>>
      BY <2>2
    <3> HIDE DEF outcome
    <3> QED BY <3>1 DEF Range
  <2> QED BY <2>1, <2>2
<1> HIDE DEF outcome, name
<1>8. SourcesHeard'
  <2> SUFFICES ASSUME NEW j \in DOMAIN SessionSources,
                      SessionSources[j].name \in DOMAIN answered'.source
               PROVE  /\ answered'.source[SessionSources[j].name].candidates \in Seq(MayBeReported)
                      /\ \A c \in Range(answered'.source[SessionSources[j].name].candidates) :
                           c.verification \in AllowedVerifications(SessionSources[j].authority)
    BY <1>3 DEF SourcesHeard
  <2>1. CASE j = i
    BY <1>6, <1>7, <2>1 DEF name
  <2>2. CASE j # i
    BY <1>2, <1>5, <1>6, <2>2 DEF SourcesHeard
  <2> QED BY <2>1, <2>2
<1>9. /\ OutcomesInOrder'[i].candidates = outcome.candidates
      /\ \A j \in DOMAIN SessionSources : j # i => OutcomesInOrder'[j] = OutcomesInOrder[j]
  <2>1. SessionSources[i].name = name /\ i \in DOMAIN SessionSources
    BY <1>1, <1>4 DEF name
  <2>2. OutcomesInOrder'[i] = outcome
    BY <1>3, <1>6, <2>1 DEF OutcomesInOrder
  <2>3. \A j \in DOMAIN SessionSources : j # i => OutcomesInOrder'[j] = OutcomesInOrder[j]
    BY <1>3, <1>5, <1>6 DEF OutcomesInOrder
  <2> QED BY <2>2, <2>3
<1>10. GeneratingOK'
  <2>1. pool'.size = Len(SessionSources') /\ DOMAIN results' = Through(pool)'
    BY <1>1, <1>2, <1>3 DEF GeneratingOK
  <2>2. \A j \in Through(pool) : j \in DOMAIN SessionSources
    BY <1>1, <1>2, <1>4 DEF GeneratingOK, Through, ShapesOK, PoolOK
  <2>3. \A j \in Through(pool)' : results'[j].candidates = OutcomesInOrder'[j].candidates
    BY <1>1, <1>2, <1>9, <2>2 DEF GeneratingOK
  <2>4. \A j \in DOMAIN SessionSources \ Through(pool)' : SessionSources[j].name \notin DOMAIN answered'.source
    BY <1>1, <1>2, <1>5, <1>6 DEF GeneratingOK
  <2> QED BY <1>2, <1>3, <1>6, <2>1, <2>3, <2>4 DEF GeneratingOK
<1>11. StageOK' /\ ShapesOK'
  BY <1>0, <1>1, <1>2, <1>3, <1>6 DEF StageOK, ShapesOK
<1>12. stage'.at = "generating"
  BY <1>0
<1> QED BY <1>8, <1>10, <1>11, <1>12 DEF SessionInv, AfterGenerating, AfterEvaluating

------------------------------------------------------------------------------
(* the ranking: the results by index are the outcomes in order,             *)
LEMMA CandidatesAreCollected ==
  ASSUME SessionInv, CollectCandidates PROVE SessionInv'
<1> DEFINE outcomes == [i \in 1 .. pool.size |-> results[i]]
           languages == stage.request.languages
<1>1. /\ stage.at = "generating" /\ GeneratingOK /\ SourcesHeard /\ StageOK /\ ShapesOK
      /\ stage.profile \in Profiles /\ pool.inflight = {}
      /\ UNCHANGED <<judged, scored, recommended, answered, sessionFaults>>
  BY DEF CollectCandidates, SessionInv, StageOK
<1>2. Through(pool) = 1 .. pool.size
  BY <1>1, PoolEnds DEF ShapesOK
<1>3. ReportsOK(OutcomesInOrder) /\ DOMAIN OutcomesInOrder = 1 .. pool.size
  BY <1>1, OutcomesTyped, SourcesTyped DEF GeneratingOK
<1>4. DOMAIN outcomes = DOMAIN OutcomesInOrder
      /\ \A i \in DOMAIN outcomes : outcomes[i].candidates = OutcomesInOrder[i].candidates
  BY <1>1, <1>2, <1>3 DEF GeneratingOK
<1>5. /\ Mergeable(outcomes) <=> Mergeable(OutcomesInOrder)
      /\ GeneratedFrom(outcomes, stage.profile, languages)
           = GeneratedFrom(OutcomesInOrder, stage.profile, languages)
  <2> HIDE DEF outcomes
  <2> QED BY <1>4, SameReports
<1>6. \/ /\ Mergeable(outcomes)
         /\ generated' = GeneratedFrom(outcomes, stage.profile, languages)
         /\ EnterStage("evaluating", Len(generated'), SessionConcurrency)
      \/ Reject /\ UNCHANGED <<generated, pool, results>>
  BY DEF CollectCandidates
<1> HIDE DEF outcomes, languages
<1>7. CASE Reject /\ UNCHANGED <<generated, pool, results>>
  BY <1>1, <1>7, SessionEnds DEF ShapesOK
<1>8. CASE /\ Mergeable(outcomes)
           /\ generated' = GeneratedFrom(outcomes, stage.profile, languages)
           /\ EnterStage("evaluating", Len(generated'), SessionConcurrency)
  <2>1. Mergeable(OutcomesInOrder) /\ generated' = GeneratedFrom(OutcomesInOrder, stage.profile, languages)
    BY <1>5, <1>8
  <2>2. generated' \in Seq(MergedCandidates(OutcomesInOrder))
    BY <1>1, <1>3, <2>1, GeneratedIs
  <2>3. Len(generated') \in Nat /\ DOMAIN generated' = 1 .. Len(generated')
    BY <2>2
  <2>4. /\ stage' = [stage EXCEPT !.at = "evaluating"] /\ results' = <<>>
        /\ pool' = PoolOf(Len(generated'), SessionConcurrency)
    BY <1>8 DEF EnterStage
  <2>5. PoolOK(pool)' /\ pool'.size = Len(generated') /\ Through(pool)' = {}
    BY <2>3, <2>4, PoolStarts, SessionAssumption
  <2>6. stage'.at = "evaluating" /\ stage'.request = stage.request /\ stage'.profile = stage.profile
        /\ DOMAIN stage' = {"at", "request", "profile"}
    BY <2>4, StageSet
  <2>7. SessionSources' = SessionSources /\ OutcomesInOrder' = OutcomesInOrder /\ SourcesHeard'
    BY <1>1, <2>6, SourcesStay
  <2>8. answered'.verdict = <<>> /\ answered'.feature = <<>>
    BY <1>1 DEF GeneratingOK
  <2>9. GeneratedOK'
    <3>1. Mergeable(OutcomesInOrder)'
      BY <2>1, <2>7
    <3> QED BY <2>1, <2>6, <2>7, <2>8, <3>1 DEF GeneratedOK, languages
  <2>10. EvaluatingOK'
    BY <2>3, <2>4, <2>5, <2>8 DEF EvaluatingOK, HeardOf
  <2>11. StageOK'
    BY <1>1, <2>6, <2>7 DEF StageOK, AfterGenerating, SessionStages
  <2>12. ShapesOK'
    BY <1>1, <2>5 DEF ShapesOK
  <2> QED BY <2>6, <2>7, <2>9, <2>10, <2>11, <2>12 DEF SessionInv, AfterGenerating, AfterEvaluating
<1> QED BY <1>6, <1>7, <1>8

(* The verdict the evaluator gives when asked about the i-th candidate.       *)
LEMMA VerdictIsHeard ==
  ASSUME SessionInv, NEW i \in pool.inflight, NEW id, NEW same \in BOOLEAN, NEW eligible \in BOOLEAN,
         EvaluatorAnswers(i, [id |-> id, same |-> same, eligible |-> eligible])
  PROVE  SessionInv'
<1> DEFINE said == [id |-> id, same |-> same, eligible |-> eligible]
           asked == generated[i].id
<1>1. /\ stage.at = "evaluating" /\ EvaluatingOK /\ GeneratedOK /\ SourcesHeard /\ StageOK /\ ShapesOK
      /\ answered' = [answered EXCEPT !.verdict = Put(@, asked, said)]
      /\ UNCHANGED <<stage, generated, scored, recommended>>
      /\ \/ said.id = asked /\ JobSettled(i, said) /\ UNCHANGED judged
         \/ /\ said.id # asked /\ pool' = Advanced(pool, i) /\ UNCHANGED results
            /\ judged' = [judged EXCEPT !.failures = @ + 1]
  BY DEF EvaluatorAnswers, ResultIsOf, SessionInv, AfterGenerating
<1>2. /\ said.id = id /\ said.same \in BOOLEAN /\ said.eligible \in BOOLEAN
      /\ said = [id |-> said.id, same |-> said.same, eligible |-> said.eligible]
  OBVIOUS
<1> HIDE DEF said, asked
<1>3. /\ PoolOK(pool)' /\ pool'.size = pool.size /\ Through(pool)' = Through(pool) \cup {i}
      /\ i \notin Through(pool) /\ i \in 1 .. pool.size
  <2>1. pool' = Advanced(pool, i) /\ PoolOK(pool)
    BY <1>1 DEF JobSettled, ShapesOK
  <2> QED BY <2>1, PoolAdvances
<1>4. DOMAIN judged' = {"eligible", "failures"}
  BY <1>1 DEF ShapesOK
<1>5. /\ DOMAIN answered' = DOMAIN answered
      /\ answered'.source = answered.source /\ answered'.feature = answered.feature
      /\ DOMAIN answered'.verdict = DOMAIN answered.verdict \cup {asked}
      /\ answered'.verdict[asked] = said
      /\ \A x \in DOMAIN answered.verdict : x # asked => answered'.verdict[x] = answered.verdict[x]
  <2>1. DOMAIN answered = {"source", "verdict", "feature", "category"}
    BY <1>1 DEF ShapesOK
  <2>2. answered' = [answered EXCEPT !.verdict = Put(answered.verdict, asked, said)]
    BY <1>1
  <2>3. answered'.verdict = Put(answered.verdict, asked, said)
        /\ DOMAIN answered' = DOMAIN answered
        /\ answered'.source = answered.source /\ answered'.feature = answered.feature
    BY <2>1, <2>2
  <2> QED BY <2>3 DEF Put
<1>6. SessionSources' = SessionSources /\ OutcomesInOrder' = OutcomesInOrder /\ SourcesHeard'
  BY <1>1, <1>5, SourcesStay
<1>7. GeneratedOK'
  <2>1. Mergeable(OutcomesInOrder)'
    BY <1>1, <1>6 DEF GeneratedOK
  <2>2. generated' = GeneratedFrom(OutcomesInOrder', stage'.profile, stage'.request.languages)
    BY <1>1, <1>6 DEF GeneratedOK
  <2>3. ASSUME NEW x \in DOMAIN answered'.verdict
        PROVE  /\ answered'.verdict[x].same \in BOOLEAN /\ answered'.verdict[x].eligible \in BOOLEAN
               /\ answered'.verdict[x] = [id |-> answered'.verdict[x].id, same |-> answered'.verdict[x].same,
                                          eligible |-> answered'.verdict[x].eligible]
    <3>1. CASE x = asked
      BY <1>2, <1>5, <3>1
    <3>2. CASE x # asked
      BY <1>1, <1>5, <3>2 DEF GeneratedOK
    <3> QED BY <3>1, <3>2
  <2> QED BY <2>1, <2>2, <2>3 DEF GeneratedOK
<1>8. /\ DOMAIN generated = 1 .. pool.size /\ generated[i].id = asked
      /\ \A j \in DOMAIN generated : j # i => generated[j].id # asked
  <2>1. DOMAIN generated = 1 .. pool.size
    BY <1>1, GeneratedTyped DEF AfterGenerating, EvaluatingOK
  <2> QED BY <1>1, <1>3, <2>1, GeneratedTyped DEF AfterGenerating, asked
<1>9. /\ i \notin DOMAIN results
      /\ said.id = asked => DOMAIN results' = DOMAIN results \cup {i} /\ results'[i] = said
      /\ said.id # asked => results' = results
      /\ \A j \in DOMAIN results : results'[j] = results[j]
  <2>1. i \notin DOMAIN results
    BY <1>1, <1>3 DEF EvaluatingOK
  <2>2. CASE JobSettled(i, said) /\ said.id = asked
    BY <2>1, <2>2, JobSettledIs
  <2>3. CASE UNCHANGED results /\ said.id # asked
    BY <2>1, <2>3
  <2> QED BY <1>1, <2>2, <2>3
<1>10. EvaluatingOK'
  <2>1. pool'.size = Len(generated') /\ DOMAIN results' \subseteq Through(pool)' /\ answered'.feature = <<>>
    BY <1>1, <1>3, <1>5, <1>9 DEF EvaluatingOK
  <2>2. ASSUME NEW j \in DOMAIN generated
        PROVE  /\ j \notin Through(pool)' => generated[j].id \notin DOMAIN answered'.verdict
               /\ j \in DOMAIN results' <=>
                    generated[j].id \in DOMAIN answered'.verdict
                      /\ answered'.verdict[generated[j].id].id = generated[j].id
               /\ j \in DOMAIN results' => results'[j] = answered'.verdict[generated[j].id]
    <3>1. CASE j = i
      BY <1>3, <1>5, <1>8, <1>9, <3>1
    <3>2. CASE j # i
      <4>1. generated[j].id # asked
        BY <1>8, <3>2
      <4>2. j \in DOMAIN results' <=> j \in DOMAIN results
        BY <1>9, <3>2
      <4> QED BY <1>1, <1>3, <1>5, <1>9, <3>2, <4>1, <4>2 DEF EvaluatingOK, HeardOf
    <3> QED BY <3>1, <3>2
  <2>3. generated' = generated
    BY <1>1
  <2> QED BY <2>1, <2>2, <2>3 DEF EvaluatingOK, HeardOf
<1>11. StageOK' /\ ShapesOK' /\ stage'.at = "evaluating"
  BY <1>1, <1>3, <1>4, <1>5, <1>6 DEF StageOK, ShapesOK
<1> QED BY <1>6, <1>7, <1>10, <1>11 DEF SessionInv, AfterGenerating, AfterEvaluating

(* an evaluation that throws,                                               *)
LEMMA EvaluatorIsSilent ==
  ASSUME SessionInv, NEW i \in pool.inflight, EvaluatorThrows(i) PROVE SessionInv'
<1>1. /\ stage.at = "evaluating" /\ EvaluatingOK /\ GeneratedOK /\ SourcesHeard /\ StageOK /\ ShapesOK
      /\ pool' = Advanced(pool, i) /\ judged' = [judged EXCEPT !.failures = @ + 1]
      /\ UNCHANGED <<stage, results, generated, scored, recommended, answered>>
  BY DEF EvaluatorThrows, SessionInv, AfterGenerating
<1>2. /\ PoolOK(pool)' /\ pool'.size = pool.size /\ Through(pool)' = Through(pool) \cup {i}
  BY <1>1, PoolAdvances DEF ShapesOK
<1>3. DOMAIN judged' = {"eligible", "failures"}
  BY <1>1 DEF ShapesOK
<1>4. SessionSources' = SessionSources /\ SourcesHeard' /\ GeneratedOK' /\ \A c : HeardOf(c) <=> HeardOf(c)'
  BY <1>1, SourcesStay, GeneratedStays
<1>5. EvaluatingOK'
  BY <1>1, <1>2, <1>4 DEF EvaluatingOK
<1>6. StageOK' /\ ShapesOK' /\ stage'.at = "evaluating"
  BY <1>1, <1>2, <1>3, <1>4 DEF StageOK, ShapesOK
<1> QED BY <1>4, <1>5, <1>6 DEF SessionInv, AfterGenerating, AfterEvaluating

------------------------------------------------------------------------------
(* the eligible: the last verdict on a candidate is the only one,           *)
LEMMA VerdictsAreCollected ==
  ASSUME SessionInv, CollectVerdicts PROVE SessionInv'
<1>1. /\ stage.at = "evaluating" /\ EvaluatingOK /\ GeneratedOK /\ SourcesHeard /\ StageOK /\ ShapesOK
      /\ pool.inflight = {}
      /\ UNCHANGED <<generated, scored, recommended, answered, sessionFaults>>
      /\ \/ /\ \A c \in EligibleNow : VerdictOn(c).same
            /\ judged' = [judged EXCEPT !.eligible = EligibleNow]
            /\ EnterStage("features", IF stage.request.features THEN Cardinality(EligibleNow) ELSE 0,
                     SessionConcurrency)
         \/ Reject /\ UNCHANGED <<judged, pool, results>>
  BY DEF CollectVerdicts, SessionInv, AfterGenerating
<1>2. CASE Reject /\ UNCHANGED <<judged, pool, results>>
  BY <1>1, <1>2, SessionEnds DEF ShapesOK
<1>3. CASE /\ \A c \in EligibleNow : VerdictOn(c).same
           /\ judged' = [judged EXCEPT !.eligible = EligibleNow]
           /\ EnterStage("features", IF stage.request.features THEN Cardinality(EligibleNow) ELSE 0,
                    SessionConcurrency)
  <2>1. Len(generated) \in Nat /\ DOMAIN generated = 1 .. Len(generated) /\ IsFiniteSet(Range(generated))
        /\ \A i, j \in DOMAIN generated : generated[i].id = generated[j].id => i = j
    BY <1>1, GeneratedTyped DEF AfterGenerating
  <2>2. DOMAIN results \subseteq DOMAIN generated
    BY <1>1, <2>1, PoolEnds DEF ShapesOK, EvaluatingOK
  <2>3. ASSUME NEW i \in DOMAIN generated
        PROVE  /\ VerdictsOn(generated[i]) # {} <=> HeardOf(generated[i])
               /\ HeardOf(generated[i]) =>
                    VerdictOn(generated[i]) = answered.verdict[generated[i].id]
    <3>1. \A j \in DOMAIN results : results[j].id = generated[j].id
      BY <1>1, <2>2 DEF EvaluatingOK, HeardOf
    <3>2. VerdictsOn(generated[i]) \subseteq {i}
      BY <2>1, <2>2, <3>1 DEF VerdictsOn
    <3>3. i \in VerdictsOn(generated[i]) <=> i \in DOMAIN results
      BY <3>1 DEF VerdictsOn
    <3>4. i \in DOMAIN results <=> HeardOf(generated[i])
      BY <1>1 DEF EvaluatingOK
    <3>5. ASSUME HeardOf(generated[i]) PROVE VerdictOn(generated[i]) = answered.verdict[generated[i].id]
      <4>1. VerdictsOn(generated[i]) = {i} /\ i \in Nat
        BY <2>1, <3>2, <3>3, <3>4, <3>5
      <4>2. Max({i}) = i
        BY <4>1 DEF Max
      <4>3. VerdictOn(generated[i]) = results[i]
        BY <4>1, <4>2 DEF VerdictOn
      <4> QED BY <1>1, <3>4, <3>5, <4>3 DEF EvaluatingOK
    <3> QED BY <3>2, <3>3, <3>4, <3>5
  <2>4. EligibleNow = FoundEligible /\ \A c \in FoundEligible : answered.verdict[c.id].same
    <3>1. ASSUME NEW c \in Range(generated)
          PROVE  /\ VerdictsOn(c) # {} <=> HeardOf(c)
                 /\ HeardOf(c) => VerdictOn(c) = answered.verdict[c.id]
      BY <2>3 DEF Range
    <3>2. EligibleNow = FoundEligible
      BY <3>1 DEF EligibleNow, FoundEligible
    <3>3. \A c \in FoundEligible : VerdictOn(c) = answered.verdict[c.id]
      BY <3>1 DEF FoundEligible
    <3> QED BY <1>3, <3>2, <3>3
  <2>5. Cardinality(EligibleNow) \in Nat
    <3>1. EligibleNow \subseteq Range(generated)
      BY DEF EligibleNow
    <3> QED BY <2>1, <3>1, FS_Subset, FS_CardinalityType
  <2> DEFINE n == IF stage.request.features THEN Cardinality(EligibleNow) ELSE 0
  <2>6. n \in Nat /\ n <= Cardinality(EligibleNow)
    BY <2>5
  <2>7. /\ stage' = [stage EXCEPT !.at = "features"] /\ results' = <<>>
        /\ pool' = PoolOf(n, SessionConcurrency)
    BY <1>3 DEF EnterStage
  <2>8. PoolOK(pool)' /\ pool'.size = n /\ Through(pool)' = {}
    <3> HIDE DEF n
    <3> QED BY <2>6, <2>7, PoolStarts, SessionAssumption
  <2>9. stage'.at = "features" /\ stage'.request = stage.request /\ stage'.profile = stage.profile
        /\ DOMAIN stage' = {"at", "request", "profile"}
    BY <2>7, StageSet
  <2> HIDE DEF n
  <2>10. /\ DOMAIN judged' = {"eligible", "failures"} /\ judged'.eligible = EligibleNow
    BY <1>1, <1>3 DEF ShapesOK
  <2>11. SessionSources' = SessionSources /\ SourcesHeard'
    BY <1>1, <2>9, SourcesStay
  <2>12. GeneratedOK' /\ FoundEligible' = FoundEligible
    BY <1>1, <2>9, GeneratedStays
  <2>13. answered'.verdict = answered.verdict /\ answered'.feature = <<>>
    BY <1>1 DEF EvaluatingOK
  <2>14. JudgedOK'
    BY <2>4, <2>10, <2>12, <2>13 DEF JudgedOK
  <2>15. FeaturesOK'
    BY <2>6, <2>7, <2>8, <2>10, <2>13 DEF FeaturesOK
  <2>16. StageOK' /\ ShapesOK'
    BY <1>1, <2>8, <2>9, <2>10, <2>11 DEF StageOK, ShapesOK, AfterGenerating, SessionStages
  <2> QED BY <2>9, <2>11, <2>12, <2>14, <2>15, <2>16 DEF SessionInv, AfterGenerating, AfterEvaluating
<1> QED BY <1>1, <1>2, <1>3

(* a feature,                                                               *)
LEMMA FeatureIsResolved ==
  ASSUME SessionInv, NEW i \in pool.inflight, NEW feature, FeatureResolved(i, feature) PROVE SessionInv'
<1> DEFINE asked == Ordered[i].id
<1>1. /\ stage.at = "features" /\ FeaturesOK /\ JudgedOK /\ GeneratedOK /\ SourcesHeard /\ StageOK /\ ShapesOK
      /\ answered' = [answered EXCEPT !.feature = Put(@, asked, feature)]
      /\ UNCHANGED <<generated, judged, scored, recommended>>
      /\ \/ FeatureSound(feature) /\ JobSettled(i, feature) /\ UNCHANGED stage
         \/ Reject /\ UNCHANGED <<pool, results>>
  BY DEF FeatureResolved, SessionInv, AfterGenerating, AfterEvaluating
<1> HIDE DEF asked
<1>2. /\ DOMAIN answered' = DOMAIN answered
      /\ answered'.source = answered.source /\ answered'.verdict = answered.verdict
      /\ DOMAIN answered'.feature = DOMAIN answered.feature \cup {asked}
      /\ answered'.feature[asked] = feature
      /\ \A x \in DOMAIN answered.feature : x # asked => answered'.feature[x] = answered.feature[x]
  <2>1. DOMAIN answered = {"source", "verdict", "feature", "category"}
    BY <1>1 DEF ShapesOK
  <2>2. answered' = [answered EXCEPT !.feature = Put(answered.feature, asked, feature)]
    BY <1>1
  <2>3. answered'.feature = Put(answered.feature, asked, feature)
        /\ DOMAIN answered' = DOMAIN answered
        /\ answered'.source = answered.source /\ answered'.verdict = answered.verdict
    BY <2>1, <2>2
  <2> QED BY <2>3 DEF Put
<1>3. CASE Reject /\ UNCHANGED <<pool, results>>
  <2>1. ShapesOK'
    BY <1>1, <1>2, <1>3 DEF ShapesOK
  <2> QED BY <1>1, <1>3, <2>1, SessionEnds
<1>4. CASE FeatureSound(feature) /\ JobSettled(i, feature) /\ UNCHANGED stage
  <2>1. /\ PoolOK(pool)' /\ pool'.size = pool.size /\ Through(pool)' = Through(pool) \cup {i}
        /\ i \notin Through(pool) /\ i \in 1 .. pool.size
        /\ DOMAIN results' = DOMAIN results \cup {i} /\ results'[i] = feature
        /\ \A j \in DOMAIN results : j # i => results'[j] = results[j]
    BY <1>4, JobSettledIs
  <2>2. /\ DOMAIN Ordered = 1 .. Cardinality(judged.eligible) /\ Cardinality(judged.eligible) \in Nat
        /\ \A j, k \in DOMAIN Ordered : Ordered[j].id = Ordered[k].id => j = k
    BY <1>1, OrderedLists DEF Lists, AfterEvaluating
  <2>3. pool.size <= Cardinality(judged.eligible) /\ pool.size \in Nat
    BY <1>1 DEF FeaturesOK, ShapesOK, PoolOK
  <2>4. i \in DOMAIN Ordered /\ Ordered[i].id = asked
        /\ \A j \in DOMAIN Ordered : j # i => Ordered[j].id # asked
    <3>1. i \in DOMAIN Ordered
      BY <2>1, <2>2, <2>3
    <3> QED BY <2>2, <3>1 DEF asked
  <2>5. SessionSources' = SessionSources /\ SourcesHeard'
    BY <1>1, <1>2, <1>4, SourcesStay
  <2>6. GeneratedOK' /\ FoundEligible' = FoundEligible
    BY <1>1, <1>2, <1>4, GeneratedStays
  <2>7. Ordered' = Ordered
    BY <1>1, <1>2, <1>4, JudgedStays
  <2>8. JudgedOK'
    <3>1. FeatureOK(feature)
      BY <1>4, SoundFeature
    <3>2. \A x \in DOMAIN answered'.feature : FeatureOK(answered'.feature[x])
      BY <1>1, <1>2, <3>1 DEF JudgedOK
    <3>3. \A x \in DOMAIN answered'.feature : FeatureOK(answered.feature[x])'
      BY <3>2 DEF FeatureOK
    <3> QED BY <1>1, <1>2, <2>6, <3>2, <3>3 DEF JudgedOK
  <2>9. FeaturesOK'
    <3>1. pool'.size <= Cardinality(judged'.eligible) /\ DOMAIN results' = Through(pool)'
      BY <1>1, <2>1 DEF FeaturesOK
    <3>2. ASSUME NEW j \in DOMAIN Ordered
          PROVE  /\ j \in Through(pool)' =>
                      /\ Ordered[j].id \in DOMAIN answered'.feature
                      /\ results'[j] = answered'.feature[Ordered[j].id]
                 /\ j \notin Through(pool)' => Ordered[j].id \notin DOMAIN answered'.feature
      <4>1. CASE j = i
        BY <1>2, <2>1, <2>4, <4>1
      <4>2. CASE j # i
        <5>1. Ordered[j].id # asked
          BY <2>4, <4>2
        <5>2. j \in Through(pool)' <=> j \in Through(pool)
          BY <2>1, <4>2
        <5> QED BY <1>1, <1>2, <2>1, <4>2, <5>1, <5>2 DEF FeaturesOK
      <4> QED BY <4>1, <4>2
    <3> QED BY <2>7, <3>1, <3>2 DEF FeaturesOK
  <2>10. StageOK' /\ ShapesOK' /\ stage'.at = "features"
    BY <1>1, <1>2, <1>4, <2>1, <2>5 DEF StageOK, ShapesOK
  <2> QED BY <2>5, <2>6, <2>8, <2>9, <2>10 DEF SessionInv, AfterGenerating, AfterEvaluating
<1> QED BY <1>1, <1>3, <1>4

------------------------------------------------------------------------------
(* (the scores one worker would have come to are those of the eligible,     *)
LEMMA ScoredInOrderIs ==
  GeneratedOK =>
    (ScoredInOrder = IF stage.request.rerank THEN Adjusted(PlainScored, answered.category) ELSE PlainScored)
<1> SUFFICES ASSUME GeneratedOK
             PROVE  ScoredInOrder = IF stage.request.rerank
                                    THEN Adjusted(PlainScored, answered.category) ELSE PlainScored
  OBVIOUS
<1> DEFINE request == stage.request
           featureOf(c) == IF c.id \in DOMAIN answered.feature THEN answered.feature[c.id] ELSE NoFeature
           found == {c \in Range(GeneratedFrom(OutcomesInOrder, stage.profile, request.languages)) :
                       /\ c.id \in DOMAIN answered.verdict \ request.excluded
                       /\ answered.verdict[c.id].id = c.id /\ answered.verdict[c.id].eligible}
           plain == {[id |-> c.id,
                      score |-> HybridScore(c, stage.profile, request.languages, featureOf(c))]
                       : c \in found}
<1>1. found = {c \in FoundEligible : c.id \notin stage.request.excluded}
  BY DEF GeneratedOK, FoundEligible, HeardOf
<1>2. \A c : featureOf(c) = FeatureOf(c)
  BY DEF FeatureOf
<1>3. plain = PlainScored
  <2> HIDE DEF found, featureOf
  <2> QED BY <1>1, <1>2 DEF PlainScored
<1>4. ScoredInOrder = IF request.rerank THEN Adjusted(plain, answered.category) ELSE plain
  BY DEF ScoredInOrder
<1> HIDE DEF plain
<1> QED BY <1>3, <1>4

(* and stay while nothing new is heard,)                                    *)
LEMMA ScoringStays ==
  ASSUME stage'.request = stage.request, stage'.profile = stage.profile, answered' = answered,
         generated' = generated, judged' = judged
  PROVE  ScoredInOrder' = ScoredInOrder /\ ServedInOrder' = ServedInOrder
<1>1. OutcomesInOrder' = OutcomesInOrder
  BY SourcesStay
<1>2. ScoredInOrder' = ScoredInOrder
  BY <1>1 DEF ScoredInOrder
<1>3. \A id : CandidateOf(id)' = CandidateOf(id)
  BY DEF CandidateOf
<1> QED BY <1>2, <1>3 DEF ServedInOrder

(* the scores,                                                              *)
LEMMA CandidatesAreScored ==
  ASSUME SessionInv, ScoreCandidates PROVE SessionInv'
<1> DEFINE feature(i) == IF i \in DOMAIN results THEN results[i] ELSE NoFeature
           score(c, f) == HybridScore(c, stage.profile, stage.request.languages, f)
           next == IF stage.request.rerank THEN "reranking" ELSE "explaining"
<1>1. /\ stage.at = "features" /\ FeaturesOK /\ JudgedOK /\ GeneratedOK /\ SourcesHeard /\ StageOK /\ ShapesOK
      /\ scored' = {[id |-> Ordered[i].id, score |-> score(Ordered[i], feature(i))]
                      : i \in {i \in DOMAIN Ordered : Ordered[i].id \notin stage.request.excluded}}
      /\ stage' = [stage EXCEPT !.at = next]
      /\ UNCHANGED <<pool, results, generated, judged, recommended, answered>>
  BY DEF ScoreCandidates, SessionInv, AfterGenerating, AfterEvaluating
<1>2. stage'.at = next /\ stage'.request = stage.request /\ stage'.profile = stage.profile
      /\ DOMAIN stage' = {"at", "request", "profile"}
  <2> HIDE DEF next
  <2> QED BY <1>1, StageSet
<1>3. \A i \in DOMAIN Ordered : feature(i) = FeatureOf(Ordered[i])
  BY <1>1 DEF FeaturesOK, FeatureOf
<1>4. /\ judged.eligible = FoundEligible
      /\ \A i \in DOMAIN Ordered : Ordered[i] \in FoundEligible
      /\ \A c \in FoundEligible : \E i \in DOMAIN Ordered : Ordered[i] = c
  <2>1. Lists(Ordered, judged.eligible) /\ judged.eligible = FoundEligible
    BY <1>1, OrderedLists DEF AfterEvaluating, JudgedOK
  <2> QED BY <2>1 DEF Lists
<1>5. scored' = PlainScored
  <2> HIDE DEF feature, score, next
  <2>1. scored' = {[id |-> Ordered[i].id, score |-> score(Ordered[i], FeatureOf(Ordered[i]))]
                      : i \in {i \in DOMAIN Ordered : Ordered[i].id \notin stage.request.excluded}}
    BY <1>1, <1>3
  <2>2. PlainScored = {[id |-> c.id, score |-> score(c, FeatureOf(c))]
                         : c \in {c \in FoundEligible : c.id \notin stage.request.excluded}}
    BY DEF PlainScored, score
  <2> QED BY <1>4, <2>1, <2>2
<1>6. PlainScored' = PlainScored /\ JudgedOK'
  BY <1>1, <1>2, JudgedStays
<1>7. SessionSources' = SessionSources /\ SourcesHeard' /\ GeneratedOK'
  BY <1>1, <1>2, SourcesStay, GeneratedStays
<1>8. next \in {"reranking", "explaining"} /\ (next = "reranking" <=> stage.request.rerank)
  <2>1. stage.request \in Requests
    BY <1>1 DEF StageOK
  <2>2. stage.request.rerank \in BOOLEAN
    BY <2>1, SessionAssumption
  <2> QED BY <2>2
<1>9. next = "explaining" => scored' = ScoredInOrder'
  <2>1. next = "explaining" => ScoredInOrder = PlainScored
    <3> HIDE DEF next
    <3> QED BY <1>1, <1>8, ScoredInOrderIs
  <2>2. ScoredInOrder' = ScoredInOrder
    BY <1>1, <1>2, ScoringStays
  <2> QED BY <1>5, <2>1, <2>2
<1> HIDE DEF next, feature, score
<1>10. next = "reranking" => scored' = PlainScored' /\ stage'.request.rerank
  BY <1>2, <1>5, <1>6, <1>8
<1>11. StageOK' /\ ShapesOK'
  BY <1>1, <1>2, <1>7, <1>8 DEF StageOK, ShapesOK, AfterGenerating, SessionStages
<1> QED BY <1>2, <1>6, <1>7, <1>8, <1>9, <1>10, <1>11 DEF SessionInv, AfterGenerating, AfterEvaluating

(* the metadata for reranking,                                              *)
LEMMA MetadataIsResolved ==
  ASSUME SessionInv, NEW metadata, MetadataResolved(metadata) PROVE SessionInv'
<1>1. /\ stage.at = "reranking" /\ scored = PlainScored /\ stage.request.rerank
      /\ JudgedOK /\ GeneratedOK /\ SourcesHeard /\ StageOK /\ ShapesOK
      /\ scored' = Adjusted(scored, metadata) /\ stage' = [stage EXCEPT !.at = "explaining"]
      /\ answered' = [answered EXCEPT !.category = metadata]
      /\ UNCHANGED <<pool, results, generated, judged, recommended>>
  BY DEF MetadataResolved, SessionInv, AfterGenerating, AfterEvaluating
<1>2. stage'.at = "explaining" /\ stage'.request = stage.request /\ stage'.profile = stage.profile
      /\ DOMAIN stage' = {"at", "request", "profile"}
  BY <1>1, StageSet
<1>3. /\ DOMAIN answered' = DOMAIN answered /\ answered'.category = metadata
      /\ answered'.source = answered.source /\ answered'.verdict = answered.verdict
      /\ answered'.feature = answered.feature
  BY <1>1 DEF ShapesOK
<1>4. SessionSources' = SessionSources /\ SourcesHeard' /\ GeneratedOK'
  BY <1>1, <1>2, <1>3, SourcesStay, GeneratedStays
<1>5. JudgedOK' /\ PlainScored' = PlainScored
  BY <1>1, <1>2, <1>3, JudgedStays
<1>6. ScoredInOrder' = IF stage'.request.rerank THEN Adjusted(PlainScored', answered'.category) ELSE PlainScored'
  <2>1. GeneratedOK' =>
          (ScoredInOrder = IF stage.request.rerank THEN Adjusted(PlainScored, answered.category) ELSE PlainScored)'
    BY ScoredInOrderIs, PTL
  <2> QED BY <1>4, <2>1
<1>7. scored' = ScoredInOrder'
  BY <1>1, <1>2, <1>3, <1>5, <1>6
<1>8. StageOK' /\ ShapesOK'
  BY <1>1, <1>2, <1>3, <1>4 DEF StageOK, ShapesOK, AfterGenerating, SessionStages
<1> QED BY <1>2, <1>4, <1>5, <1>7, <1>8 DEF SessionInv, AfterGenerating, AfterEvaluating

(* what is served,                                                          *)
LEMMA CandidatesAreServed ==
  ASSUME SessionInv, Serve PROVE SessionInv'
<1>1. /\ stage.at = "explaining" /\ scored = ScoredInOrder
      /\ JudgedOK /\ GeneratedOK /\ SourcesHeard /\ StageOK /\ ShapesOK
      /\ stage' = [stage EXCEPT !.at = "served"]
      /\ UNCHANGED <<pool, results, generated, judged, scored, answered>>
  BY DEF Serve, SessionInv, AfterGenerating, AfterEvaluating
<1>2. stage'.at = "served" /\ stage'.request = stage.request /\ stage'.profile = stage.profile
      /\ DOMAIN stage' = {"at", "request", "profile"}
  BY <1>1, StageSet
<1>3. recommended' = ServedInOrder
  BY <1>1 DEF Serve, ServedInOrder
<1>4. ServedInOrder' = ServedInOrder
  BY <1>1, <1>2, ScoringStays
<1>5. SessionSources' = SessionSources /\ SourcesHeard' /\ GeneratedOK' /\ JudgedOK'
  BY <1>1, <1>2, SourcesStay, GeneratedStays, JudgedStays
<1>6. StageOK' /\ ShapesOK'
  BY <1>1, <1>2, <1>5 DEF StageOK, ShapesOK, AfterGenerating, SessionStages
<1> QED BY <1>2, <1>3, <1>4, <1>5, <1>6 DEF SessionInv, AfterGenerating, AfterEvaluating

(* and a rejection.                                                         *)
LEMMA SessionIsRejected ==
  ASSUME SessionInv, SessionRejected PROVE SessionInv'
<1>1. stage.at # "idle" /\ stage.at # "served" /\ Reject
      /\ UNCHANGED <<pool, results, generated, judged, scored, recommended, answered>>
  BY DEF SessionRejected
<1> QED BY <1>1, SessionEnds DEF SessionInv, ShapesOK

(* A step that changes nothing keeps it too.                                *)
LEMMA SessionStutters ==
  ASSUME SessionInv, UNCHANGED sessionVars PROVE SessionInv'
<1>0. UNCHANGED <<stage, pool, results, generated, judged, scored, recommended, answered>>
  BY DEF sessionVars
<1>1. SessionSources' = SessionSources /\ OutcomesInOrder' = OutcomesInOrder /\ (SourcesHeard => SourcesHeard')
  BY <1>0, SourcesStay
<1>2. (GeneratedOK => GeneratedOK') /\ \A c : HeardOf(c) <=> HeardOf(c)'
  BY <1>0, GeneratedStays
<1>3. (JudgedOK => JudgedOK') /\ PlainScored' = PlainScored /\ Ordered' = Ordered
  BY <1>0, JudgedStays
<1>4. ScoredInOrder' = ScoredInOrder /\ ServedInOrder' = ServedInOrder
  BY <1>0, ScoringStays
<1>5. StageOK' /\ ShapesOK'
  BY <1>0, <1>1 DEF SessionInv, StageOK, ShapesOK
<1>6. NothingAsked => NothingAsked'
  BY <1>0 DEF NothingAsked
<1>7. GeneratingOK => GeneratingOK'
  BY <1>0, <1>1 DEF GeneratingOK, Through
<1>8. EvaluatingOK => EvaluatingOK'
  BY <1>0, <1>2 DEF EvaluatingOK, Through
<1>9. FeaturesOK => FeaturesOK'
  BY <1>0, <1>3 DEF FeaturesOK, Through
<1> QED BY <1>0, <1>1, <1>2, <1>3, <1>4, <1>5, <1>6, <1>7, <1>8, <1>9 DEF SessionInv

(* So every step keeps the inductive invariant.                             *)
LEMMA SessionStep ==
  ASSUME SessionInv, SessionNext PROVE SessionInv'
<1>1. ASSUME NEW request \in Requests, StartSession(request) PROVE SessionInv'
  BY <1>1, SessionBegins
<1>2. ASSUME NEW profile \in Profiles, ProfileRead(profile) PROVE SessionInv'
  BY <1>2, ProfileIsRead
<1>3. ASSUME NEW i \in pool.inflight, SourceSkipped(i) PROVE SessionInv'
  <2>1. [candidates |-> <<>>, failed |-> FALSE].candidates = <<>>
    OBVIOUS
  <2> QED BY <1>3, <2>1, SourceIsSilent DEF SourceSkipped
<1>4. ASSUME NEW i \in pool.inflight, SourceThrows(i) PROVE SessionInv'
  <2>1. [candidates |-> <<>>, failed |-> TRUE].candidates = <<>>
    OBVIOUS
  <2> QED BY <1>4, <2>1, SourceIsSilent DEF SourceThrows
<1>5. ASSUME NEW i \in pool.inflight, EvaluatorThrows(i) PROVE SessionInv'
  BY <1>5, EvaluatorIsSilent
<1>6. ASSUME NEW i \in pool.inflight, stage.at = "generating",
             NEW answer \in Answers[SessionSources[i].name], SourceAnswers(i, answer) PROVE SessionInv'
  BY <1>6, SourceIsHeard
<1>7. ASSUME NEW i \in pool.inflight, NEW c \in Range(generated), NEW same \in BOOLEAN,
             NEW eligible \in BOOLEAN,
             EvaluatorAnswers(i, [id |-> c.id, same |-> same, eligible |-> eligible]) PROVE SessionInv'
  BY <1>7, VerdictIsHeard
<1>8. ASSUME NEW i \in pool.inflight, NEW feature \in Features, FeatureResolved(i, feature) PROVE SessionInv'
  BY <1>8, FeatureIsResolved
<1>9. ASSUME NEW metadata, MetadataResolved(metadata) PROVE SessionInv'
  BY <1>9, MetadataIsResolved
<1> QED
  BY <1>1, <1>2, <1>3, <1>4, <1>5, <1>6, <1>7, <1>8, <1>9, CandidatesAreCollected, VerdictsAreCollected,
     CandidatesAreScored, CandidatesAreServed, SessionIsRejected DEF SessionNext

(* The inductive invariant holds throughout: what a session has collected   *)
(* depends on what was answered, not on when.                               *)
THEOREM SessionIsAccounted == SessionSpec => []SessionInv
<1>1. SessionInit => SessionInv
  BY SessionStarts
<1>2. SessionInv /\ [SessionNext]_sessionVars => SessionInv'
  BY SessionStep, SessionStutters
<1> QED BY <1>1, <1>2, PTL DEF SessionSpec

------------------------------------------------------------------------------
(* The ids of the eligible.                                                 *)
EligibleIds == {c.id : c \in judged.eligible}

(* The scores are of the eligible, each told apart by its number.           *)
LEMMA ScoredTyped ==
  ASSUME SessionInv, stage.at \in AfterEvaluating PROVE ScoredOK(ScoredInOrder, EligibleIds)
<1>1. /\ judged.eligible = FoundEligible /\ IsFiniteSet(FoundEligible)
      /\ \A c \in FoundEligible : c.native \in Nat /\ c.id[4] = c.native
      /\ \A c, d \in FoundEligible : c.native = d.native => c = d
  BY EligibleTyped
<1>2. stage.profile \in Profiles /\ GeneratedOK /\ JudgedOK /\ stage.request \in Requests
  BY DEF SessionInv, StageOK, AfterEvaluating, AfterGenerating
<1> DEFINE S == {c \in FoundEligible : c.id \notin stage.request.excluded}
           points(c) == HybridScore(c, stage.profile, stage.request.languages, FeatureOf(c))
           f == [c \in S |-> [id |-> c.id, score |-> points(c)]]
<1>3. \A p \in PlainScored : \E c \in S : p = f[c]
  BY DEF PlainScored
<1>4. IsFiniteSet(S)
  BY <1>1, FS_Subset
<1>5. IsFiniteSet(PlainScored)
  <2>1. DOMAIN f = S
    OBVIOUS
  <2> HIDE DEF f, S
  <2> QED BY <1>3, <1>4, <2>1, ImageIsFinite
<1>6. \A c \in S : points(c) \in Int
  <2> SUFFICES ASSUME NEW c \in S PROVE points(c) \in Int
    OBVIOUS
  <2>1. FeatureOK(FeatureOf(c))
    <3>1. FeatureOK(NoFeature)
      BY DEF FeatureOK, NoFeature
    <3> QED BY <1>2, <3>1 DEF FeatureOf, JudgedOK
  <2> QED BY <1>2, <2>1, ScoreIsInt
<1>7. \A p \in PlainScored : \E c \in S : p = [id |-> c.id, score |-> points(c)]
  BY DEF PlainScored
<1> HIDE DEF points, f
<1>8. \A p \in PlainScored : p.score \in Int /\ p.id \in EligibleIds /\ p.id[4] \in Nat
  <2> SUFFICES ASSUME NEW p \in PlainScored PROVE p.score \in Int /\ p.id \in EligibleIds /\ p.id[4] \in Nat
    OBVIOUS
  <2>1. PICK c \in S : p = [id |-> c.id, score |-> points(c)]
    BY <1>7
  <2>2. p.id = c.id /\ p.score = points(c) /\ c \in FoundEligible
    BY <2>1
  <2> QED BY <1>1, <1>6, <2>2 DEF EligibleIds
<1>9. \A p, q \in PlainScored : p.id[4] = q.id[4] => p = q
  <2> SUFFICES ASSUME NEW p \in PlainScored, NEW q \in PlainScored, p.id[4] = q.id[4] PROVE p = q
    OBVIOUS
  <2>1. PICK c \in S : p = [id |-> c.id, score |-> points(c)]
    BY <1>7
  <2>2. PICK d \in S : q = [id |-> d.id, score |-> points(d)]
    BY <1>7
  <2>3. p.id = c.id /\ q.id = d.id /\ c \in FoundEligible /\ d \in FoundEligible
    BY <2>1, <2>2
  <2>4. c = d
    BY <1>1, <2>3
  <2> QED BY <2>1, <2>2, <2>4
<1>10. ScoredOK(PlainScored, EligibleIds)
  BY <1>5, <1>8, <1>9 DEF ScoredOK
<1>11. ScoredOK(Adjusted(PlainScored, answered.category), EligibleIds)
  BY <1>10, AdjustedScored
<1> QED BY <1>2, <1>10, <1>11, ScoredInOrderIs

(* Who is served is eligible and not excluded, and found by its id.         *)
LEMMA ServedTyped ==
  ASSUME SessionInv, stage.at = "served"
  PROVE  LET list == ServedList(ScoredInOrder, stage.request.excluded, stage.request.minScore,
                                  stage.request.limit)
         IN  /\ recommended = [i \in DOMAIN list |-> CandidateOf(list[i].id)]
             /\ \A i \in DOMAIN list :
                  /\ CandidateOf(list[i].id) \in FoundEligible
                  /\ CandidateOf(list[i].id).id = list[i].id
                  /\ list[i].id \notin stage.request.excluded
<1> DEFINE list == ServedList(ScoredInOrder, stage.request.excluded, stage.request.minScore,
                                stage.request.limit)
<1>1. recommended = [i \in DOMAIN list |-> CandidateOf(list[i].id)]
  BY DEF SessionInv, ServedInOrder
<1>2. ScoredOK(ScoredInOrder, EligibleIds) /\ judged.eligible = FoundEligible
  BY ScoredTyped, EligibleTyped DEF AfterEvaluating
<1>3. stage.request.limit \in Nat
  <2>1. stage.request \in Requests
    BY DEF SessionInv, StageOK
  <2> QED BY <2>1, SessionAssumption
<1>4. \A i \in DOMAIN list : list[i].id \in EligibleIds /\ list[i].id \notin stage.request.excluded
  BY <1>2, <1>3, ServedIs
<1>5. \A id \in EligibleIds : CandidateOf(id) \in FoundEligible /\ CandidateOf(id).id = id
  BY <1>2 DEF EligibleIds, CandidateOf
<1> HIDE DEF list
<1>6. /\ recommended = [i \in DOMAIN list |-> CandidateOf(list[i].id)]
      /\ \A i \in DOMAIN list :
           /\ CandidateOf(list[i].id) \in FoundEligible
           /\ CandidateOf(list[i].id).id = list[i].id
           /\ list[i].id \notin stage.request.excluded
  BY <1>1, <1>4, <1>5
<1> QED BY <1>6 DEF list

(* The inductive invariant implies that who is recommended is vouched for,  *)
LEMMA VouchedFor == SessionInv => RecommendedIsVouched
<1> SUFFICES ASSUME SessionInv, NEW c \in Range(recommended)
             PROVE  /\ \E source \in Range(SessionSources) : ReportedBy(source, c)
                    /\ IsVerified(c) => \E p \in Range(c.provenance) : TrustedPlace(p)
                    /\ c.id \in DOMAIN answered.verdict
                    /\ answered.verdict[c.id] = [id |-> c.id, same |-> TRUE, eligible |-> TRUE]
                    /\ c.id \notin stage.request.excluded
  BY DEF RecommendedIsVouched
<1>1. stage.at = "served"
  <2>1. recommended # <<>>
    BY DEF Range
  <2> QED BY <2>1 DEF SessionInv, StageOK
<1>2. c \in FoundEligible /\ c.id \notin stage.request.excluded
  <2> DEFINE list == ServedList(ScoredInOrder, stage.request.excluded, stage.request.minScore,
                                  stage.request.limit)
  <2>1. /\ recommended = [i \in DOMAIN list |-> CandidateOf(list[i].id)]
        /\ \A i \in DOMAIN list :
             /\ CandidateOf(list[i].id) \in FoundEligible
             /\ CandidateOf(list[i].id).id = list[i].id
             /\ list[i].id \notin stage.request.excluded
    BY <1>1, ServedTyped
  <2> HIDE DEF list
  <2>2. PICK i \in DOMAIN list : c = CandidateOf(list[i].id)
    BY <2>1 DEF Range
  <2> QED BY <2>1, <2>2
<1>3. GeneratedOK /\ JudgedOK /\ SourcesHeard
  BY <1>1 DEF SessionInv, AfterGenerating, AfterEvaluating
<1>4. c.id \in DOMAIN answered.verdict
      /\ answered.verdict[c.id] = [id |-> c.id, same |-> TRUE, eligible |-> TRUE]
  <2>1. c.id \in DOMAIN answered.verdict /\ answered.verdict[c.id].id = c.id
        /\ answered.verdict[c.id].eligible /\ answered.verdict[c.id].same
    BY <1>2, <1>3 DEF FoundEligible, HeardOf, JudgedOK
  <2> DEFINE said == answered.verdict[c.id]
  <2>2. /\ said.same \in BOOLEAN /\ said.eligible \in BOOLEAN
        /\ said = [id |-> said.id, same |-> said.same, eligible |-> said.eligible]
    BY <1>3, <2>1 DEF GeneratedOK
  <2>3. said.same = TRUE /\ said.eligible = TRUE /\ said.id = c.id
    BY <2>1, <2>2
  <2> HIDE DEF said
  <2>4. said = [id |-> c.id, same |-> TRUE, eligible |-> TRUE]
    BY <2>2, <2>3
  <2> QED BY <2>1, <2>4 DEF said
<1>5. c \in MergedCandidates(OutcomesInOrder) /\ ReportsOK(OutcomesInOrder)
      /\ DOMAIN OutcomesInOrder = DOMAIN SessionSources
  <2>1. c \in Range(generated)
    BY <1>2 DEF FoundEligible
  <2> QED BY <1>1, <2>1, GeneratedTyped, OutcomesTyped DEF AfterGenerating
<1>6. IsVerified(c) => \E p \in Range(c.provenance) : TrustedPlace(p)
  BY <1>3, <1>5 DEF GeneratedOK, Mergeable, CandidateSound
<1>7. \E source \in Range(SessionSources) : ReportedBy(source, c)
  <2>1. PICK i \in DOMAIN OutcomesInOrder : \E d \in Range(OutcomesInOrder[i].candidates) :
                                              d.id = c.id /\ d.verification = c.verification
    BY <1>5, MergedTyped
  <2>2. PICK d \in Range(OutcomesInOrder[i].candidates) : d.id = c.id /\ d.verification = c.verification
    BY <2>1
  <2> DEFINE source == SessionSources[i]
  <2>3. source.name \in DOMAIN answered.source
        /\ OutcomesInOrder[i].candidates = answered.source[source.name].candidates
    <3>1. CASE source.name \in DOMAIN answered.source
      BY <1>5, <3>1 DEF OutcomesInOrder
    <3>2. CASE source.name \notin DOMAIN answered.source
      <4>1. OutcomesInOrder[i].candidates = <<>>
        BY <1>5, <3>2 DEF OutcomesInOrder
      <4> QED BY <2>2, <4>1 DEF Range
    <3> QED BY <3>1, <3>2
  <2>4. d.verification \in AllowedVerifications(source.authority)
    BY <1>3, <1>5, <2>2, <2>3 DEF SourcesHeard
  <2>5. source \in Range(SessionSources)
    BY <1>5 DEF Range
  <2> HIDE DEF source
  <2> QED BY <2>2, <2>3, <2>4, <2>5 DEF ReportedBy
<1> QED BY <1>2, <1>4, <1>6, <1>7

(* Whoever is recommended was reported by a source that may vouch for it    *)
(* so, in a place still named, was found eligible, unchanged, when asked    *)
(* about, and is not excluded (evaluateCandidates, mergeProvenance,         *)
(* buildColdStartScoringInput).                                             *)
THEOREM SessionIsVouched == SessionSpec => []RecommendedIsVouched
BY SessionIsAccounted, VouchedFor, PTL

(* ... and that it is what one worker would have served.                    *)
LEMMA ServedAsSequential == SessionInv => AsIfSequential
<1> DEFINE list == ServedList(ScoredInOrder, stage.request.excluded, stage.request.minScore,
                                stage.request.limit)
           merged == MergedCandidates(OutcomesInOrder)
<1> SUFFICES ASSUME SessionInv, stage.at = "served"
             PROVE  recommended = [i \in DOMAIN list |-> CHOOSE c \in merged : c.id = list[i].id]
  BY DEF AsIfSequential
<1>1. /\ recommended = [i \in DOMAIN list |-> CandidateOf(list[i].id)]
      /\ \A i \in DOMAIN list :
           /\ CandidateOf(list[i].id) \in FoundEligible
           /\ CandidateOf(list[i].id).id = list[i].id
  BY ServedTyped
<1>2. FoundEligible \subseteq merged /\ \A c, d \in merged : c.id = d.id => c = d
  BY EligibleTyped, GeneratedTyped DEF AfterEvaluating, AfterGenerating
<1> HIDE DEF list, merged
<1>3. ASSUME NEW i \in DOMAIN list
      PROVE  CandidateOf(list[i].id) = CHOOSE c \in merged : c.id = list[i].id
  <2> DEFINE chosen == CHOOSE c \in merged : c.id = list[i].id
             given == CandidateOf(list[i].id)
  <2>1. given \in merged /\ given.id = list[i].id
    BY <1>1, <1>2
  <2>2. chosen \in merged /\ chosen.id = list[i].id
    BY <2>1
  <2> QED BY <1>2, <2>1, <2>2
<1> QED BY <1>1, <1>3

(* Who answers first in the three pools decides nothing: what is served is  *)
(* what one worker, in the order of sources and candidates, would have      *)
(* served (generate, evaluateCandidates, buildColdStartScoringInput).       *)
THEOREM SessionAsIfSequential == SessionSpec => []AsIfSequential
BY SessionIsAccounted, ServedAsSequential, PTL
=============================================================================
