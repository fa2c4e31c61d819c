----------------------------- MODULE SourceProofs -----------------------------
(***************************************************************************)
(* Proofs about the parts that bring the engine its data, for any bounds,  *)
(* records, grants, settings, probes and accounts: SourceIngestion,        *)
(* LiveOutbox, Labels, ProviderDiscovery and Eligibility, each of its own  *)
(* specification.                                                          *)
(*                                                                         *)
(* Ingestion rests on two invariants.  LearnInv follows an item from the   *)
(* read to the ledger: evidence is what was read, with the authorization   *)
(* that covers it and the consent of its read, and a batch adds no other   *)
(* event.  SweepCovers follows a record that is due: taken by an earlier   *)
(* read of the sweep, by this one, or still ahead of the cursor.           *)
(*                                                                         *)
(* Labels rests on LabelInv: the state holds or supersedes every label the *)
(* cursor and a running consumption have passed, and all in it, and in the *)
(* pages of a query, is a label the labeler gave.  Merging is a recursive  *)
(* function over a list, reasoned about as a run, like a batch of events.  *)
(***************************************************************************)
EXTENDS SourceIngestion, LiveOutbox, Labels, ProviderDiscovery, Eligibility, LedgerOpsProofs,
        FiniteSetTheorems

-----------------------------------------------------------------------------
(* Positions in ascending order, and lists.                                 *)

(* The positions in ascending order are those of the set, each once.         *)
LEMMA AscendingProperties ==
  ASSUME NEW S \in SUBSET Nat, IsFiniteSet(S)
  PROVE  /\ Cardinality(S) \in Nat
         /\ DOMAIN Ascending(S) = 1 .. Cardinality(S)
         /\ Ascending(S) = [k \in 1 .. Cardinality(S) |-> Ascending(S)[k]]
         /\ \A k \in 1 .. Cardinality(S) :
              Ascending(S)[k] \in S /\ Cardinality({j \in S : j <= Ascending(S)[k]}) = k
         /\ \A i \in S : \E k \in 1 .. Cardinality(S) : Ascending(S)[k] = i
<1> DEFINE n == Cardinality(S)
           UpTo(i) == {j \in S : j <= i}
           rank == [i \in S |-> Cardinality(UpTo(i))]
<1>1. n \in Nat
  BY FS_CardinalityType
<1>2. \A i \in S : /\ IsFiniteSet(UpTo(i)) /\ Cardinality(UpTo(i)) \in Nat
                   /\ Cardinality(UpTo(i)) <= n /\ UpTo(i) # {}
  BY FS_Subset, FS_CardinalityType
<1>3. \A i \in S : Cardinality(UpTo(i)) \in 1 .. n
  <2> HIDE DEF UpTo
  <2> QED BY <1>1, <1>2, FS_EmptySet
<1>4. ASSUME NEW i \in S, NEW j \in S, i < j PROVE Cardinality(UpTo(i)) # Cardinality(UpTo(j))
  <2>1. UpTo(i) \subseteq UpTo(j) /\ j \in UpTo(j) /\ j \notin UpTo(i)
    <3>1. i \in Nat /\ j \in Nat /\ \A k \in S : k \in Nat
      OBVIOUS
    <3>2. \A k \in UpTo(i) : k \in S /\ k <= i
      OBVIOUS
    <3>3. \A k \in UpTo(i) : k \in UpTo(j)
      BY <1>4, <3>1, <3>2
    <3>4. j \in UpTo(j)
      BY <3>1
    <3>5. j \notin UpTo(i)
      BY <1>4, <3>1, <3>2
    <3> HIDE DEF UpTo
    <3> QED BY <3>3, <3>4, <3>5
  <2> HIDE DEF UpTo
  <2> QED BY <1>2, <2>1, FS_Subset
<1>5. \A i, j \in S : rank[i] = rank[j] => i = j
  <2> HIDE DEF UpTo
  <2> QED BY <1>4
<1>6. rank \in Injection(S, 1 .. n)
  <2>1. rank \in [S -> 1 .. n]
    BY <1>3
  <2> HIDE DEF rank
  <2> QED BY <1>5, <2>1 DEF Injection, IsInjective
<1>7. rank \in Surjection(S, 1 .. n)
  <2>1. IsFiniteSet(1 .. n) /\ Cardinality(1 .. n) = n
    BY <1>1, FS_Interval
  <2> HIDE DEF rank
  <2> QED BY <1>6, <2>1, FS_Injection
<1>8. \A k \in 1 .. n : \E i \in S : Cardinality(UpTo(i)) = k
  <2>1. \A k \in 1 .. n : \E i \in S : rank[i] = k
    BY <1>7 DEF Surjection
  <2> HIDE DEF UpTo
  <2> QED BY <2>1
<1>9. \A k \in 1 .. n : Ascending(S)[k] = CHOOSE i \in S : Cardinality(UpTo(i)) = k
  BY DEF Ascending
<1> DEFINE places == Ascending(S)
           place(k) == CHOOSE i \in S : Cardinality(UpTo(i)) = k
<1>10. DOMAIN places = 1 .. n /\ places = [k \in 1 .. n |-> places[k]]
  <2>1. places = [k \in 1 .. n |-> place(k)]
    BY DEF Ascending
  <2> HIDE DEF place, places, n
  <2> QED BY <2>1
<1> HIDE DEF places
<1> HIDE DEF UpTo, n, rank
<1>13. /\ DOMAIN Ascending(S) = 1 .. n
       /\ Ascending(S) = [k \in 1 .. n |-> Ascending(S)[k]]
  BY <1>10 DEF places
<1>11. \A k \in 1 .. n : Ascending(S)[k] \in S /\ Cardinality(UpTo(Ascending(S)[k])) = k
  BY <1>8, <1>9
<1>12. ASSUME NEW i \in S PROVE \E k \in 1 .. n : Ascending(S)[k] = i
  <2>1. Cardinality(UpTo(i)) \in 1 .. n
    BY <1>3
  <2>2. /\ Ascending(S)[Cardinality(UpTo(i))] \in S
        /\ Cardinality(UpTo(Ascending(S)[Cardinality(UpTo(i))])) = Cardinality(UpTo(i))
    BY <1>11, <2>1
  <2>3. \A j \in S : i < j \/ j < i \/ i = j
    OBVIOUS
  <2>4. Ascending(S)[Cardinality(UpTo(i))] = i
    BY <1>4, <2>2, <2>3
  <2> QED BY <2>1, <2>4
<1> QED BY <1>1, <1>11, <1>12, <1>13 DEF n, UpTo

(* A function over 1 .. n is a sequence of what is in it.                    *)
IsList(s) == s \in Seq({s[i] : i \in DOMAIN s})

(* A function from 1 to n is a list.                                        *)
LEMMA ListOf ==
  ASSUME NEW s, NEW n \in Nat, s = [i \in 1 .. n |-> s[i]]
  PROVE  IsList(s) /\ Len(s) = n /\ DOMAIN s = 1 .. n
<1> DEFINE S == {s[i] : i \in 1 .. n}
<1>1. DOMAIN s = 1 .. n
  OBVIOUS
<1>2. s \in [1 .. n -> S]
  OBVIOUS
<1> HIDE DEF S
<1>3. s \in Seq(S) /\ Len(s) = n
  BY <1>2
<1> QED BY <1>1, <1>3 DEF IsList, S

(* What a list is.                                                          *)
LEMMA ListFacts ==
  ASSUME NEW s, IsList(s)
  PROVE  Len(s) \in Nat /\ DOMAIN s = 1 .. Len(s) /\ s = [i \in 1 .. Len(s) |-> s[i]]
  BY DEF IsList

(* Where the elements of a concatenation come from.                         *)
LEMMA ListConcat ==
  ASSUME NEW s, NEW t, IsList(s), IsList(t)
  PROVE  /\ IsList(s \o t) /\ Len(s \o t) = Len(s) + Len(t)
         /\ \A i \in 1 .. Len(s) : (s \o t)[i] = s[i]
         /\ \A i \in 1 .. Len(t) : (s \o t)[Len(s) + i] = t[i]
<1> DEFINE S == {s[i] : i \in DOMAIN s}
           T == {t[i] : i \in DOMAIN t}
<1>1. s \in Seq(S) /\ t \in Seq(T)
  BY DEF IsList
<1> HIDE DEF S, T
<1>2. s \in Seq(S \cup T) /\ t \in Seq(S \cup T)
  BY <1>1
<1>3. /\ (s \o t) \in Seq(S \cup T) /\ Len(s \o t) = Len(s) + Len(t)
      /\ \A i \in 1 .. Len(s) : (s \o t)[i] = s[i]
      /\ \A i \in 1 .. Len(t) : (s \o t)[Len(s) + i] = t[i]
  BY <1>2
<1> DEFINE u == s \o t
<1>4. u \in Seq(S \cup T)
  BY <1>3
<1> HIDE DEF u
<1>5. IsList(u)
  <2>1. Len(u) \in Nat /\ u = [i \in 1 .. Len(u) |-> u[i]]
    BY <1>4
  <2> QED BY <2>1, ListOf
<1> QED BY <1>3, <1>5 DEF u

-----------------------------------------------------------------------------
(* No cursor, or a page of the outbox and an offset on it.                  *)
Cursors == {NoCursor} \cup ((Nat \ {0}) \X Nat)

(* The call in flight has these parts and no others.                        *)
Shaped(c) ==
  c = [pc |-> c.pc, policy |-> c.policy, auth |-> c.auth, page |-> c.page, offset |-> c.offset,
       pages |-> c.pages, visited |-> c.visited, got |-> c.got, next |-> c.next,
       evidence |-> c.evidence]

(* The types of the parts the proofs speak of.                              *)
IngestTyped ==
  /\ Shaped(call)
  /\ sweep = [due |-> sweep.due, got |-> sweep.got, shrunk |-> sweep.shrunk,
              complete |-> sweep.complete]
  /\ settings \in Settings /\ served \in Seq(DOMAIN Raw) /\ arrived \in Nat
  /\ cursor \in Cursors /\ call.next \in Cursors
  /\ call.offset \in Nat /\ IsList(call.got) /\ Len(call.got) <= Limit
  /\ call.pc \in {"actor", "page"} => settings.adapter = "outbox" /\ Len(call.got) < Limit
  /\ call.pc = "page" => call.page \in Nat
  /\ call.pc \in {"authorize", "actor", "fetch"} => Len(call.got) < Limit

(* Evidence is a record that was read, allowed by the policy of the read, with *)
(* the authorization of the read covering it.                               *)
CameFrom(v, auth, at) ==
  LET canonical == CanonicalOf(settings.adapter, Raw[v.record], at)
  IN  /\ v.item.context = WithAuthorization(CanonicalContext(canonical), auth)
      /\ Covers(auth, Capabilities(settings.adapter), CanonicalContext(canonical))

(* Evidence is what was read; past the gate it was allowed and audited.     *)
EvidenceSound ==
  call.pc = "derive" =>
    /\ \E n \in Nat : DOMAIN call.evidence \subseteq 1 .. n
    /\ \A i \in DOMAIN call.evidence :
         LET v == call.evidence[i]
         IN  /\ Allowed(v.item)
             /\ settings.failClosed => v.audited
             /\ settings.adapter # "local" => \E at : CameFrom(v, call.auth, at)

(* The inductive invariant of what is learned.                              *)
LearnInv == IngestTyped /\ EvidenceSound /\ PrivateStaysPrivate /\ LearnedWithConsent

-----------------------------------------------------------------------------
(* A record addressed to some is private in every context it is given.       *)
LEMMA AddressedIsPrivate ==
  ASSUME NEW raw, AddressedToSome(raw), NEW at
  PROVE  LET context == CanonicalContext(CanonicalOf(settings.adapter, raw, at))
         IN  /\ context.visibility \in PrivateVisibilities /\ context.containsPrivate
             /\ context.protocol = "activitypub"
<1> DEFINE e == CanonicalOf(settings.adapter, raw, at)
<1>1. /\ settings.adapter \in {"outbox", "inbox", "publicTimeline", "homeTimeline"}
      /\ e.protocol = "activitypub" /\ e.visibility \in {"followers", "direct", "local_only"}
  <2>1. CASE settings.adapter \in {"outbox", "inbox"}
    <3>1. \E fallback :
            /\ e.protocol = "activitypub"
            /\ e.visibility = CanonicalVisibility(ActivityVisibility(raw, fallback))
      BY <2>1 DEF CanonicalOf, CanonicalActivity, Canonical
    <3>2. PICK fallback :
            /\ e.protocol = "activitypub"
            /\ e.visibility = CanonicalVisibility(ActivityVisibility(raw, fallback))
      BY <3>1
    <3>3. ActivityVisibility(raw, fallback) \in
            {"private", "followers_only", "direct", "mentioned_only", "mutuals_only", "local_only"}
      BY <2>1 DEF AddressedToSome, ActivityVisibility, PrivateWords
    <3> HIDE DEF e
    <3>4. e.visibility \in {"followers", "direct", "local_only"}
      BY <3>2, <3>3 DEF CanonicalVisibility
    <3> QED BY <2>1, <3>2, <3>4
  <2>2. CASE settings.adapter \notin {"outbox", "inbox"}
    <3>1. /\ settings.adapter \in {"publicTimeline", "homeTimeline"}
          /\ raw.visibility \in {"private", "direct"}
      BY <2>2 DEF AddressedToSome
    <3>2. e = CanonicalStatus(raw, RecordDefaults(settings.adapter), at)
      BY <2>2, <3>1 DEF CanonicalOf
    <3>3. StatusVisibility(raw.visibility) \in {"followers", "direct"}
      BY <3>1 DEF StatusVisibility
    <3> QED BY <3>1, <3>2, <3>3 DEF CanonicalStatus, Canonical
  <2> QED BY <2>1, <2>2
<1> HIDE DEF e
<1>2. SourceVisibility(e.protocol, e.visibility) \in {"followers_only", "mentioned_only", "local_only"}
  BY <1>1 DEF SourceVisibility
<1>3. CanonicalContext(e) = Context("activitypub", SourceVisibility(e.protocol, e.visibility),
                                DefaultBasis(SourceVisibility(e.protocol, e.visibility)), e.flags)
  BY <1>1 DEF CanonicalContext
<1> DEFINE v == SourceVisibility(e.protocol, e.visibility)
<1>5. v \in PrivateVisibilities
  BY <1>2 DEF PrivateVisibilities
<1>6. /\ CanonicalContext(e).visibility = v /\ CanonicalContext(e).protocol = "activitypub"
      /\ CanonicalContext(e).containsPrivate = (v \in PrivateVisibilities)
  <2> HIDE DEF v
  <2> QED BY <1>3 DEF v, Context
<1>4. /\ CanonicalContext(e).visibility \in PrivateVisibilities
      /\ CanonicalContext(e).containsPrivate /\ CanonicalContext(e).protocol = "activitypub"
  BY <1>5, <1>6
<1> QED BY <1>4 DEF e

(* Of private data of the fediverse no liking is a signal the policy allows.  *)
LEMMA PrivateIsNotLiked ==
  ASSUME NEW context, context.protocol = "activitypub", context.containsPrivate,
         NEW kind \in {"like", "hide"}, NEW trust,
         SignalAllowed(SignalOf(kind, context), context, trust)
  PROVE  kind = "hide"
<1>1. ~ExplicitPublic(context) /\ ~AtprotoPublicRepository(context)
  BY DEF ExplicitPublic, AtprotoPublicRepository
<1>2. ~LocalOwnerEvidence(SignalOf(kind, context), context, trust)
  BY DEF LocalOwnerEvidence
<1>3. ~UserControlledRemoteEvidence(SignalOf(kind, context), context, trust)
  BY DEF UserControlledRemoteEvidence, UserControlled
<1>4. SignalEffect(SignalOf(kind, context)) = "filtering"
  BY <1>1, <1>2, <1>3 DEF SignalAllowed, LocalPrivateFilter
<1>5. SignalEffect(SignalOf("like", context)) = "affinity"
  BY DEF SignalEffect, SignalOf, FilterActions
<1> QED BY <1>4, <1>5

-----------------------------------------------------------------------------
(* Nothing was read and nothing learned when the process starts.            *)
LEMMA InitLearnInv == Init => LearnInv
<1>1. IsList(<<>>)
  BY DEF IsList
<1> QED BY <1>1, IngestionAssumption
     DEF Init, LearnInv, IngestTyped, Shaped, EvidenceSound, PrivateStaysPrivate, LearnedWithConsent,
         Idle, NoSweep, EmptyLedger, Cursors

(* A call that ends has learned nothing more.                               *)
LEMMA AbandonLearnInv ==
  ASSUME LearnInv, Abandon, UNCHANGED <<settings, served, arrived>> PROVE LearnInv'
<1>1. IsList(<<>>)
  BY DEF IsList
<1>2. call' = Idle /\ UNCHANGED <<cursor, ledger, sweep>>
  BY DEF Abandon
<1>3. IngestTyped' /\ call'.pc # "derive"
  BY <1>1, <1>2, IngestionAssumption DEF LearnInv, IngestTyped, Shaped, Idle, Cursors
<1> QED BY <1>2, <1>3
     DEF LearnInv, EvidenceSound, PrivateStaysPrivate, LearnedWithConsent, AddressedToSome

(* What a step of the read leaves of what was learned.                      *)
LEMMA ReadOn ==
  ASSUME LearnInv, UNCHANGED <<settings, ledger>>, IngestTyped', call'.pc # "derive"
  PROVE  LearnInv'
  BY DEF LearnInv, EvidenceSound, PrivateStaysPrivate, LearnedWithConsent, AddressedToSome

(* A call that begins has read nothing.                                     *)
LEMMA BeginLearnInv == ASSUME LearnInv, Begin PROVE LearnInv'
<1>1. IsList(<<>>)
  BY DEF IsList
<1>2. UNCHANGED <<settings, served, arrived, cursor, ledger>>
  BY DEF Begin
<1>3. PICK policy : call' = [Idle EXCEPT
        !.pc = IF settings.adapter = "local" THEN "fetch" ELSE "authorize", !.policy = policy]
  BY DEF Begin
<1>4. sweep' = [due |-> sweep'.due, got |-> sweep'.got, shrunk |-> sweep'.shrunk,
                complete |-> sweep'.complete]
  BY DEF Begin, LearnInv, IngestTyped, NoSweep
<1>6. PICK pc \in {"fetch", "authorize"} :
        call' = [pc |-> pc, policy |-> policy, auth |-> {}, page |-> NoPage, offset |-> 0,
                 pages |-> 0, visited |-> {}, got |-> <<>>, next |-> NoCursor, evidence |-> <<>>]
  BY <1>3 DEF Idle
<1>7. /\ call'.pc \in {"fetch", "authorize"} /\ call'.got = <<>> /\ call'.next = NoCursor
      /\ call'.offset = 0
      /\ Shaped(call')
  BY <1>6 DEF Shaped
<1>5. IngestTyped' /\ call'.pc # "derive"
  BY <1>1, <1>2, <1>4, <1>7, IngestionAssumption DEF LearnInv, IngestTyped, Shaped, Cursors
<1> QED BY <1>2, <1>5, ReadOn

(* Authorizing a source, or reading its actor or its collection, keeps what *)
(* was learned as it was.                                                   *)
LEMMA AuthorizeLearnInv == ASSUME LearnInv, Authorize \/ ReadActor \/ ReadRoot PROVE LearnInv'
<1>0. UNCHANGED <<settings, served, arrived>>
  BY DEF Authorize, ReadActor, ReadRoot
<1>1. CASE Abandon
  BY <1>0, <1>1, AbandonLearnInv
<1>2. CASE ~Abandon
  <2>1. UNCHANGED <<cursor, ledger, sweep>>
    BY <1>2 DEF Authorize, ReadActor, ReadRoot
  <2>2. CASE Authorize
    <3>1. PICK auth : call' = [call EXCEPT
            !.pc = IF settings.adapter = "outbox" THEN "actor" ELSE "fetch", !.auth = auth]
      BY <1>2, <2>2 DEF Authorize
    <3>4. call.pc = "authorize"
      BY <2>2 DEF Authorize
    <3>2. IngestTyped' /\ call'.pc # "derive"
      BY <1>0, <2>1, <3>1, <3>4 DEF LearnInv, IngestTyped, Shaped
    <3> QED BY <1>0, <2>1, <3>2, ReadOn
  <2>3. CASE ReadActor
    <3>1. /\ call' = [call EXCEPT !.pc = "page",
                       !.page = IF cursor = NoCursor THEN Root ELSE cursor[1],
                       !.offset = IF cursor = NoCursor THEN 0 ELSE cursor[2]]
          /\ call.pc = "actor"
      BY <2>3 DEF ReadActor
    <3>2. /\ (IF cursor = NoCursor THEN Root ELSE cursor[1]) \in Nat
          /\ (IF cursor = NoCursor THEN 0 ELSE cursor[2]) \in Nat
      BY DEF LearnInv, IngestTyped, Shaped, Cursors, Root
    <3>3. IngestTyped' /\ call'.pc # "derive"
      BY <1>0, <2>1, <3>1, <3>2 DEF LearnInv, IngestTyped, Shaped
    <3> QED BY <1>0, <2>1, <3>3, ReadOn
  <2>4. CASE ReadRoot
    <3>1. call' = [call EXCEPT !.page = 1, !.visited = {Root}] /\ call.pc = "page"
      BY <2>4 DEF ReadRoot
    <3>2. IngestTyped' /\ call'.pc # "derive"
      BY <1>0, <2>1, <3>1 DEF LearnInv, IngestTyped, Shaped
    <3> QED BY <1>0, <2>1, <3>2, ReadOn
  <2> QED BY <2>2, <2>3, <2>4
<1> QED BY <1>1, <1>2

-----------------------------------------------------------------------------
(* A slice is what the list has from the offset on, and no more than asked.  *)
LEMMA SliceFacts ==
  ASSUME NEW D, NEW list \in Seq(D), NEW offset \in Nat, NEW limit \in Nat
  PROVE  LET slice == Slice(list, offset, limit)
         IN  /\ slice \in Seq(D) /\ Len(slice) <= limit
             /\ \A k \in 1 .. Len(slice) : offset + k <= Len(list) /\ slice[k] = list[offset + k]
             /\ \A i \in 1 .. Len(list) :
                  offset < i /\ i <= offset + limit =>
                    i - offset \in 1 .. Len(slice) /\ slice[i - offset] = list[i]
<1> DEFINE last == IF offset + limit < Len(list) THEN offset + limit ELSE Len(list)
           slice == SubSeq(list, offset + 1, last)
<1>1. /\ last \in Nat /\ last <= Len(list) /\ last <= offset + limit
      /\ \A i \in 1 .. Len(list) : i <= offset + limit => i <= last
  OBVIOUS
<1>2. /\ slice \in Seq(D)
      /\ Len(slice) = IF offset + 1 <= last THEN last - offset ELSE 0
      /\ \A k \in 1 .. Len(slice) : slice[k] = list[offset + k]
  <2> HIDE DEF last
  <2>1. slice \in Seq(D) /\ Len(slice) = IF offset + 1 <= last THEN last - offset ELSE 0
    BY <1>1
  <2>2. \A k \in 1 .. Len(slice) : slice[k] = list[offset + k]
    BY <1>1, <2>1
  <2> QED BY <2>1, <2>2
<1> HIDE DEF last
<1> DEFINE u == slice
<1>3. Slice(list, offset, limit) = u
  BY DEF Slice, last
<1>5. /\ u \in Seq(D)
      /\ Len(u) = IF offset + 1 <= last THEN last - offset ELSE 0
      /\ \A k \in 1 .. Len(u) : u[k] = list[offset + k]
  BY <1>2
<1> HIDE DEF u, slice
<1>6. Len(u) <= limit /\ \A k \in 1 .. Len(u) : offset + k <= Len(list)
  BY <1>1, <1>5
<1>7. ASSUME NEW i \in 1 .. Len(list), offset < i, i <= offset + limit
      PROVE  i - offset \in 1 .. Len(u) /\ u[i - offset] = list[i]
  <2>1. i <= last /\ i - offset \in Nat /\ i - offset \in 1 .. Len(u)
    BY <1>1, <1>5, <1>7
  <2>2. u[i - offset] = list[offset + (i - offset)]
    BY <1>5, <2>1
  <2> QED BY <2>1, <2>2
<1> QED BY <1>3, <1>5, <1>6, <1>7

(* The stop of a page is the item that fills the room, if there is one.       *)
PublicAt(items, from, to) == {i \in from .. to : ExplicitlyPublic(Raw[items[i]])}

(* Reading a page stops within it, no later than the room left allows.      *)
LEMMA PageStopFacts ==
  ASSUME NEW items \in Seq(DOMAIN Raw), NEW offset \in Nat, NEW room \in Nat \ {0}
  PROVE  LET stop == PageStop(items, offset, room)
             end == IF stop = 0 THEN Len(items) ELSE stop
         IN  /\ stop \in Nat /\ (stop = 0 \/ stop \in offset + 1 .. Len(items))
             /\ Cardinality(PublicAt(items, offset + 1, end)) <= room
             /\ stop = 0 => Cardinality(PublicAt(items, offset + 1, end)) < room
<1> DEFINE public == PublicAt(items, offset + 1, Len(items))
           stop == PageStop(items, offset, room)
<1>0. Len(items) \in Nat
  OBVIOUS
<1>1. public \subseteq 1 .. Len(items) /\ IsFiniteSet(1 .. Len(items)) /\ Len(items) \in Nat
  BY <1>0, FS_Interval DEF PublicAt
<1>2. public \in SUBSET Nat /\ IsFiniteSet(public) /\ Cardinality(public) \in Nat
  <2>1. public \in SUBSET Nat
    BY <1>1
  <2> HIDE DEF public
  <2> QED BY <1>1, <2>1, FS_Subset, FS_CardinalityType
<1>3. stop = IF Cardinality(public) < room THEN 0 ELSE Ascending(public)[room]
  BY DEF PageStop, PublicAt
<1>4. CASE Cardinality(public) < room
  <2>1. stop = 0
    BY <1>3, <1>4
  <2> HIDE DEF stop
  <2> QED BY <1>1, <1>2, <1>4, <2>1 DEF stop
<1>5. CASE ~(Cardinality(public) < room)
  <2>1. room \in 1 .. Cardinality(public)
    BY <1>2, <1>5
  <2>2. stop \in public /\ Cardinality({j \in public : j <= stop}) = room
    <3> HIDE DEF public, stop
    <3> QED BY <1>2, <1>3, <1>5, <2>1, AscendingProperties
  <2>3. stop \in offset + 1 .. Len(items) /\ stop # 0 /\ stop \in Nat
    <3> HIDE DEF stop
    <3> QED BY <2>2, <1>1 DEF PublicAt
  <2>4. {j \in public : j <= stop} = PublicAt(items, offset + 1, stop)
    <3> HIDE DEF stop
    <3> QED BY <1>1, <2>3 DEF PublicAt
  <2> DEFINE end == IF stop = 0 THEN Len(items) ELSE stop
  <2>5. end = stop
    <3> HIDE DEF stop
    <3> QED BY <2>3
  <2>6. Cardinality(PublicAt(items, offset + 1, end)) = room
    <3> HIDE DEF stop, public, end
    <3> QED BY <2>2, <2>4, <2>5
  <2> HIDE DEF stop, public, end
  <2> QED BY <2>2, <2>3, <2>5, <2>6 DEF stop, end
<1> QED BY <1>4, <1>5

(* What is read of a page is its public items between two places.            *)
LEMMA PublicOfFacts ==
  ASSUME NEW items, NEW from \in Nat, NEW to \in Nat
  PROVE  /\ IsList(PublicOf(items, from, to))
         /\ Len(PublicOf(items, from, to)) = Cardinality(PublicAt(items, from, to))
         /\ Cardinality(PublicAt(items, from, to)) \in Nat
         /\ \A i \in PublicAt(items, from, to) :
              \E k \in 1 .. Len(PublicOf(items, from, to)) :
                PublicOf(items, from, to)[k].record = items[i]
<1> DEFINE public == PublicAt(items, from, to)
           read == PublicOf(items, from, to)
           n == Cardinality(public)
<1>1. public \subseteq from .. to /\ IsFiniteSet(from .. to) /\ public \in SUBSET Nat
  BY FS_Interval DEF PublicAt
<1>2. IsFiniteSet(public)
  <2> HIDE DEF public
  <2> QED BY <1>1, FS_Subset
<1>3. /\ n \in Nat /\ DOMAIN Ascending(public) = 1 .. n
      /\ \A i \in public : \E k \in 1 .. n : Ascending(public)[k] = i
  <2> HIDE DEF public
  <2> QED BY <1>1, <1>2, AscendingProperties
<1>4. read = [k \in DOMAIN Ascending(public) |-> [record |-> items[Ascending(public)[k]], at |-> clock]]
  BY DEF PublicOf, PublicAt
<1> HIDE DEF public, read, n
<1>5. read = [k \in 1 .. n |-> read[k]] /\ \A k \in 1 .. n : read[k].record = items[Ascending(public)[k]]
  BY <1>3, <1>4
<1>6. IsList(read) /\ Len(read) = n
  BY <1>3, <1>5, ListOf
<1> QED BY <1>3, <1>5, <1>6 DEF public, read, n

-----------------------------------------------------------------------------
(* A page that was read, by its stop and the page it links to.               *)
LastRead(stop) == IF stop = 0 THEN Len(ItemsOf(call.page)) ELSE stop

(* The read ends with this page.                                            *)
EndsAt(stop, next) == stop # 0 \/ next = NoPage \/ call.pages + 1 >= MaxPages

(* What reading a page does to the call: it ends there, or turns the page.  *)
PageRead(stop, next) ==
  call' = [pc |-> IF EndsAt(stop, next) THEN "gate" ELSE "page",
           policy |-> call.policy, auth |-> call.auth, page |-> next, offset |-> 0,
           pages |-> call.pages + 1, visited |-> call.visited \cup {call.page},
           got |-> call.got \o PublicOf(ItemsOf(call.page), call.offset + 1, LastRead(stop)),
           next |-> IF EndsAt(stop, next)
                    THEN CursorAfter(call.page, stop, ItemsOf(call.page), next) ELSE call.next,
           evidence |-> call.evidence]

(* The record of a page that was read.                                      *)
Turned(c, got, visited, pages, page) ==
  [c EXCEPT !.got = got, !.visited = visited, !.pages = pages, !.offset = 0, !.page = page]

(* A turned page in full: every part of it is named.                        *)
LEMMA TurnedPage ==
  ASSUME NEW c, Shaped(c), NEW got, NEW visited, NEW pages, NEW page
  PROVE  Turned(c, got, visited, pages, page)
           = [pc |-> c.pc, policy |-> c.policy, auth |-> c.auth, page |-> page, offset |-> 0,
              pages |-> pages, visited |-> visited, got |-> got, next |-> c.next,
              evidence |-> c.evidence]
<1> DEFINE Fields == {"pc", "policy", "auth", "page", "offset", "pages", "visited", "got",
                      "next", "evidence"}
           r == [c EXCEPT !.got = got, !.visited = visited, !.pages = pages, !.offset = 0,
                          !.page = page]
           s == [pc |-> c.pc, policy |-> c.policy, auth |-> c.auth, page |-> page, offset |-> 0,
                 pages |-> pages, visited |-> visited, got |-> got, next |-> c.next,
                 evidence |-> c.evidence]
<1>1. DOMAIN c = Fields
  BY DEF Shaped
<1>2. DOMAIN r = Fields /\ r = [f \in Fields |-> r[f]]
  BY <1>1
<1>3. DOMAIN s = Fields /\ s = [f \in Fields |-> s[f]]
  OBVIOUS
<1>4. /\ r.got = got /\ r.visited = visited /\ r.pages = pages /\ r.offset = 0 /\ r.page = page
      /\ r.pc = c.pc /\ r.policy = c.policy /\ r.auth = c.auth /\ r.next = c.next
      /\ r.evidence = c.evidence
  BY <1>1
<1>5. /\ s.got = got /\ s.visited = visited /\ s.pages = pages /\ s.offset = 0 /\ s.page = page
      /\ s.pc = c.pc /\ s.policy = c.policy /\ s.auth = c.auth /\ s.next = c.next
      /\ s.evidence = c.evidence
  OBVIOUS
<1> HIDE DEF r, s
<1>6. \A f \in Fields : r[f] = s[f]
  BY <1>4, <1>5
<1>7. r = s
  BY <1>2, <1>3, <1>6
<1> QED BY <1>7 DEF r, s, Turned

(* What a page adds to what was read: items that were on it.                *)
LEMMA PageReadFacts ==
  ASSUME IngestTyped, ReadPage
  PROVE  /\ call.page \in Nat \ {0} /\ ItemsOf(call.page) \in Seq(DOMAIN Raw)
         /\ Len(ItemsOf(call.page)) \in Nat /\ call.offset <= Len(ItemsOf(call.page))
         /\ \E next \in (Nat \ {0}) \cup {NoPage} :
              /\ next = NoPage => ~HasNext(call.page)
              /\ next # NoPage => next <= call.page + 1
              /\ PageRead(PageStop(ItemsOf(call.page), call.offset, Limit - Len(call.got)), next)
<1> DEFINE items == ItemsOf(call.page)
           stop == PageStop(items, call.offset, Limit - Len(call.got))
<1>1. /\ call.page \in Nat \ {0} /\ call.pc = "page" /\ call.offset \in Nat
      /\ served \in Seq(DOMAIN Raw) /\ PageSize \in Nat
  BY IngestionAssumption DEF IngestTyped, ReadPage, Root
<1>2. (call.page - 1) * PageSize \in Nat
  <2>1. \A a \in Nat, b \in Nat : a * b \in Nat
    OBVIOUS
  <2>2. call.page - 1 \in Nat
    BY <1>1
  <2> QED BY <1>1, <2>1, <2>2
<1>3. items \in Seq(DOMAIN Raw)
  BY <1>1, <1>2, SliceFacts DEF ItemsOf
<1>4. Len(items) \in Nat /\ call.offset <= Len(items)
  <2>1. call.offset <= Len(items)
    BY DEF ReadPage, PageFits
  <2> HIDE DEF items
  <2> QED BY <1>3, <2>1
<1>5. \E next \in (Nat \ {0}) \cup {NoPage} :
        /\ next = NoPage => ~HasNext(call.page)
        /\ next # NoPage => next <= call.page + 1
        /\ call' = AfterPage(items, next)
  <2>1. CASE call' = AfterPage(items, IF HasNext(call.page) THEN call.page + 1 ELSE NoPage)
    <3> DEFINE next == IF HasNext(call.page) THEN call.page + 1 ELSE NoPage
    <3>1. /\ next \in (Nat \ {0}) \cup {NoPage}
          /\ next = NoPage => ~HasNext(call.page)
          /\ next # NoPage => next <= call.page + 1
      BY <1>1 DEF NoPage
    <3> HIDE DEF next, items
    <3> QED BY <2>1, <3>1 DEF next
  <2>2. CASE \E back \in 1 .. call.page : call' = AfterPage(items, back)
    <3>1. PICK back \in 1 .. call.page : call' = AfterPage(items, back)
      BY <2>2
    <3>2. back \in Nat \ {0} /\ back <= call.page + 1 /\ back # NoPage
      BY <1>1 DEF NoPage
    <3> HIDE DEF items
    <3> QED BY <3>1, <3>2
  <2> QED BY <2>1, <2>2 DEF ReadPage
<1>6. ASSUME NEW next, call' = AfterPage(items, next) PROVE PageRead(stop, next)
  <2> DEFINE got == call.got \o PublicOf(items, call.offset + 1, LastRead(stop))
             read == [call EXCEPT !.got = got, !.visited = @ \cup {call.page},
                                  !.pages = @ + 1, !.offset = 0, !.page = next]
  <2>1. AfterPage(items, next) =
          IF EndsAt(stop, next)
          THEN [read EXCEPT !.pc = "gate", !.next = CursorAfter(call.page, stop, items, next)]
          ELSE read
    BY DEF AfterPage, EndsAt, LastRead
  <2> HIDE DEF stop, items
  <2>2. read = [pc |-> call.pc, policy |-> call.policy, auth |-> call.auth, page |-> next,
                offset |-> 0, pages |-> call.pages + 1, visited |-> call.visited \cup {call.page},
                got |-> got, next |-> call.next, evidence |-> call.evidence]
    <3> DEFINE visited == call.visited \cup {call.page}
               pages == call.pages + 1
    <3>1. read = Turned(call, got, visited, pages, next)
      BY DEF Turned
    <3>2. Shaped(call)
      BY DEF IngestTyped
    <3> HIDE DEF got, visited, pages, read
    <3> QED BY <3>1, <3>2, TurnedPage DEF visited, pages
  <2> HIDE DEF got, read
  <2>3. CASE EndsAt(stop, next)
    BY <1>6, <2>1, <2>2, <2>3 DEF PageRead, items, got
  <2>4. CASE ~EndsAt(stop, next)
    BY <1>1, <1>6, <2>1, <2>2, <2>4 DEF PageRead, items, got
  <2> QED BY <2>3, <2>4
<1> HIDE DEF items, stop
<1> QED BY <1>1, <1>3, <1>4, <1>5, <1>6 DEF items, stop

(* Reading a page keeps the evidence what was read.                         *)
LEMMA ReadPageLearnInv == ASSUME LearnInv, ReadPage PROVE LearnInv'
<1> DEFINE items == ItemsOf(call.page)
           stop == PageStop(items, call.offset, Limit - Len(call.got))
<1>1. /\ IngestTyped /\ call.pc = "page" /\ call.page \in Nat \ {0} /\ items \in Seq(DOMAIN Raw)
      /\ Len(items) \in Nat
      /\ UNCHANGED <<settings, served, arrived, cursor, ledger, sweep>>
  BY PageReadFacts DEF LearnInv, ReadPage
<1>2. PICK next \in (Nat \ {0}) \cup {NoPage} : PageRead(stop, next)
  BY <1>1, PageReadFacts
<1> HIDE DEF items
<1>3. call.offset \in Nat /\ Limit - Len(call.got) \in Nat \ {0} /\ IsList(call.got)
  BY <1>1, IngestionAssumption, ListFacts DEF IngestTyped
<1> DEFINE end == LastRead(stop)
           read == PublicOf(items, call.offset + 1, end)
<1>4. /\ stop \in Nat /\ end \in Nat
      /\ Cardinality(PublicAt(items, call.offset + 1, end)) <= Limit - Len(call.got)
      /\ stop = 0 => Cardinality(PublicAt(items, call.offset + 1, end)) < Limit - Len(call.got)
  BY <1>1, <1>3, PageStopFacts DEF items, LastRead
<1> HIDE DEF stop, end
<1>5. /\ IsList(read) /\ Len(read) \in Nat /\ Len(read) <= Limit - Len(call.got)
      /\ stop = 0 => Len(read) < Limit - Len(call.got)
  <2>1. call.offset + 1 \in Nat
    BY <1>3
  <2>2. /\ IsList(read) /\ Len(read) = Cardinality(PublicAt(items, call.offset + 1, end))
        /\ Cardinality(PublicAt(items, call.offset + 1, end)) \in Nat
    BY <1>4, <2>1, PublicOfFacts
  <2> HIDE DEF read
  <2> QED BY <1>4, <2>2
<1> HIDE DEF read
<1> DEFINE u == call.got \o read
<1>6. /\ IsList(u) /\ Len(u) <= Limit /\ (stop = 0 => Len(u) < Limit)
  <2>1. IsList(u) /\ Len(u) = Len(call.got) + Len(read) /\ Len(call.got) \in Nat
    BY <1>3, <1>5, ListConcat, ListFacts
  <2> HIDE DEF u
  <2> QED BY <1>3, <1>5, <2>1, IngestionAssumption
<1>7. CursorAfter(call.page, stop, items, next) \in Cursors
  BY <1>1, <1>2, <1>4 DEF CursorAfter, Cursors, NoPage
<1> HIDE DEF u
<1>8. /\ call'.got = u /\ call'.offset = 0 /\ call'.page = next
      /\ call'.next = IF EndsAt(stop, next) THEN CursorAfter(call.page, stop, items, next) ELSE call.next
      /\ call'.pc = IF EndsAt(stop, next) THEN "gate" ELSE "page"
      /\ Shaped(call')
  BY <1>2 DEF PageRead, items, end, read, u, Shaped
<1>9. IngestTyped' /\ call'.pc # "derive"
  <2>1. call'.next \in Cursors
    BY <1>1, <1>7, <1>8 DEF IngestTyped
  <2>2. call'.pc = "page" => stop = 0 /\ next \in Nat
    BY <1>2, <1>8 DEF EndsAt
  <2> QED BY <1>1, <1>6, <1>8, <2>1, <2>2 DEF IngestTyped
<1> QED BY <1>1, <1>9, ReadOn

-----------------------------------------------------------------------------
(* A read starts at a place of the outbox.                                  *)
LEMMA StartIsNat == ASSUME IngestTyped PROVE Start \in Nat
BY DEF IngestTyped, Cursors, Start

(* A provider read starts where the cursor says, with nothing taken.        *)
LEMMA FetchLearnInv == ASSUME LearnInv, Fetch PROVE LearnInv'
<1> DEFINE slice == Slice(served, Start, Limit)
           got == [k \in DOMAIN slice |-> [record |-> served[Start + k], at |-> clock]]
           next == IF Start + Limit < Len(served) THEN <<1, Start + Limit>> ELSE NoCursor
<1>1. /\ IngestTyped /\ UNCHANGED <<settings, served, arrived, cursor, ledger, sweep>>
      /\ call' = [call EXCEPT !.pc = "gate", !.got = got, !.next = next]
  BY DEF Fetch, LearnInv
<1>2. Start \in Nat /\ Limit \in Nat \ {0} /\ served \in Seq(DOMAIN Raw)
  BY <1>1, StartIsNat, IngestionAssumption DEF IngestTyped
<1>3. next \in Cursors
  BY <1>2 DEF Cursors
<1>4. slice \in Seq(DOMAIN Raw) /\ Len(slice) <= Limit
  BY <1>2, SliceFacts
<1>5. IsList(got) /\ Len(got) <= Limit
  <2> HIDE DEF slice
  <2>1. Len(slice) \in Nat /\ DOMAIN slice = 1 .. Len(slice)
    BY <1>4
  <2>2. got = [k \in 1 .. Len(slice) |-> got[k]]
    BY <2>1
  <2> HIDE DEF got
  <2> QED BY <1>4, <2>1, <2>2, ListOf
<1> HIDE DEF got, next
<1>6. IngestTyped' /\ call'.pc # "derive"
  BY <1>1, <1>3, <1>5 DEF IngestTyped, Shaped
<1> QED BY <1>1, <1>6, ReadOn

(* A read of the local collection takes a page of what is kept of it.       *)
LEMMA FetchLocalLearnInv == ASSUME LearnInv, FetchLocal PROVE LearnInv'
<1> DEFINE kept == Kept([i \in DOMAIN served |-> Raw[served[i]]], Since, FALSE)
           page == PageOf(kept, Start, Limit)
           got == [k \in DOMAIN page.events |->
                     [record |-> page.events[k].number, at |-> page.events[k].at]]
           next == IF page.more THEN <<1, Start + Len(page.events)>> ELSE NoCursor
<1>1. IngestTyped /\ UNCHANGED <<settings, served, arrived>>
  BY DEF FetchLocal, LearnInv
<1>2. CASE Abandon
  BY <1>1, <1>2, AbandonLearnInv
<1>3. CASE ~Abandon
  <2>1. /\ UNCHANGED <<cursor, ledger, sweep>>
        /\ call' = [call EXCEPT !.pc = "gate", !.got = got, !.next = next]
    BY <1>3 DEF FetchLocal
  <2>2. Start \in Nat /\ Limit \in Nat \ {0}
    BY <1>1, StartIsNat, IngestionAssumption
  <2>3. /\ Len(page.events) \in Nat /\ Len(page.events) <= Limit
        /\ DOMAIN page.events = 1 .. Len(page.events)
    <3> DEFINE firsts == Firsts(kept)
               slice == Slice(firsts, Start, Limit)
               n == Len(slice)
    <3>1. firsts \in Seq(Nat)
      <4>1. PICK m \in Nat : kept = [k \in 1 .. m |-> kept[k]] /\ DOMAIN kept = 1 .. m
        <5> DEFINE events == [i \in DOMAIN served |-> Raw[served[i]]]
                   places == {i \in DOMAIN events :
                                events[i].at >= Since /\ Included(events[i], FALSE)}
        <5>1. DOMAIN events = 1 .. Len(served) /\ Len(served) \in Nat
          BY <1>1 DEF IngestTyped
        <5> HIDE DEF events
        <5>6. places \subseteq DOMAIN events
          OBVIOUS
        <5>2. places \in SUBSET Nat /\ places \subseteq 1 .. Len(served)
          <6> HIDE DEF places
          <6> QED BY <5>1, <5>6
        <5>3. IsFiniteSet(places)
          <6> HIDE DEF places
          <6>1. IsFiniteSet(1 .. Len(served))
            BY <5>1, FS_Interval
          <6> QED BY <5>2, <6>1, FS_Subset
        <5>4. kept = [k \in DOMAIN Ascending(places) |-> events[Ascending(places)[k]]]
          BY DEF Kept, events
        <5> HIDE DEF places, kept
        <5>5. DOMAIN Ascending(places) = 1 .. Cardinality(places) /\ Cardinality(places) \in Nat
          BY <5>2, <5>3, AscendingProperties
        <5> QED BY <5>4, <5>5
      <4> DEFINE new == {i \in DOMAIN kept : \A j \in 1 .. i - 1 : Identity(kept[j]) # Identity(kept[i])}
      <4> HIDE DEF kept
      <4>2. new \in SUBSET Nat /\ new \subseteq 1 .. m
        BY <4>1
      <4>3. IsFiniteSet(new)
        <5> HIDE DEF new
        <5>1. IsFiniteSet(1 .. m)
          BY FS_Interval
        <5> QED BY <4>2, <5>1, FS_Subset
      <4>4. firsts = Ascending(new)
        BY DEF Firsts
      <4> HIDE DEF new, firsts
      <4>5. /\ Cardinality(new) \in Nat /\ DOMAIN firsts = 1 .. Cardinality(new)
            /\ \A k \in 1 .. Cardinality(new) : firsts[k] \in Nat
        BY <4>2, <4>3, <4>4, AscendingProperties
      <4>6. firsts = [k \in 1 .. Cardinality(new) |-> firsts[k]]
        BY <4>2, <4>3, <4>4, AscendingProperties
      <4> QED BY <4>5, <4>6
    <3> HIDE DEF kept
    <3>2. slice \in Seq(Nat) /\ Len(slice) <= Limit
      <4> HIDE DEF firsts
      <4> QED BY <2>2, <3>1, SliceFacts
    <3>3. page.events = [k \in DOMAIN slice |-> kept[firsts[Start + k]]]
      BY DEF PageOf
    <3> HIDE DEF slice, firsts, page
    <3>4. n \in Nat /\ DOMAIN slice = 1 .. n
      BY <3>2
    <3>5. page.events = [k \in 1 .. n |-> page.events[k]]
      BY <3>3, <3>4
    <3>6. Len(page.events) = n /\ DOMAIN page.events = 1 .. n
      BY <3>4, <3>5, ListOf
    <3> QED BY <3>2, <3>4, <3>6
  <2>4. next \in Cursors
    <3> HIDE DEF page
    <3> QED BY <2>2, <2>3 DEF Cursors
  <2>5. IsList(got) /\ Len(got) <= Limit
    <3> HIDE DEF page
    <3>1. got = [k \in 1 .. Len(page.events) |-> got[k]]
      BY <2>3
    <3> HIDE DEF got
    <3> QED BY <2>3, <3>1, ListOf
  <2> HIDE DEF got, next
  <2>6. IngestTyped' /\ call'.pc # "derive"
    BY <1>1, <2>1, <2>4, <2>5 DEF IngestTyped, Shaped
  <2> QED BY <1>1, <2>1, <2>6, ReadOn
<1> QED BY <1>2, <1>3

-----------------------------------------------------------------------------
(* A context is a record of these parts.                                    *)
LEMMA ContextShape ==
  ASSUME NEW e, NEW auth
  PROVE  LET context == CanonicalContext(e)
             widened == WithAuthorization(context, auth)
         IN  /\ widened.protocol = context.protocol
             /\ widened.containsPrivate = (RequiresPrivateRead(context) \/ RequiresPrivateRead(auth))
<1>1. \E protocol, visibility, basis, flags :
        CanonicalContext(e) = Context(protocol, visibility, basis, flags)
  BY DEF CanonicalContext
<1>2. PICK protocol, visibility, basis, flags :
        CanonicalContext(e) = Context(protocol, visibility, basis, flags)
  BY <1>1
<1> DEFINE private == RequiresPrivateRead(CanonicalContext(e)) \/ RequiresPrivateRead(auth)
<1>3. WithAuthorization(CanonicalContext(e), auth)
        = [CanonicalContext(e) EXCEPT
             !.visibility = auth.visibility, !.basis = auth.basis, !.containsPrivate = private,
             !.thirdParty = @ \/ auth.thirdParty, !.serverSide = @ \/ auth.serverSide,
             !.providerAllows = @ /\ auth.providerAllows]
  BY DEF WithAuthorization
<1> HIDE DEF private
<1> QED BY <1>2, <1>3 DEF Context, private

(* What passes the gate is covered by the authorization of the call and     *)
(* allowed by its policy, and where the deployment fails closed it was      *)
(* audited.                                                                 *)
LEMMA GateLearnInv == ASSUME LearnInv, Gate PROVE LearnInv'
<1>1. IngestTyped /\ UNCHANGED <<settings, served, arrived>>
  BY DEF Gate, LearnInv
<1>2. CASE Abandon
  BY <1>1, <1>2, AbandonLearnInv
<1>3. CASE ~Abandon
  <2>1. PICK failed \in SUBSET TakenAt :
          /\ GatePasses(failed)
          /\ call' = [call EXCEPT !.pc = "derive", !.evidence = Evidence(failed)]
          /\ UNCHANGED <<cursor, ledger, sweep>>
    BY <1>3 DEF Gate
  <2>2. Readable(settings.adapter, call.auth, call.got)
    BY DEF Gate
  <2> DEFINE passed == Evidence(failed)
  <2>3. /\ DOMAIN passed = AllowedAt
        /\ \A i \in AllowedAt :
             passed[i] = [record |-> call.got[i].record, item |-> ItemAt(i), audited |-> i \notin failed]
    BY DEF Evidence
  <2>4. AllowedAt \subseteq 1 .. Len(call.got) /\ Len(call.got) \in Nat
    BY <1>1, ListFacts DEF AllowedAt, TakenAt, IngestTyped
  <2>5. ASSUME NEW i \in AllowedAt
        PROVE  /\ Allowed(passed[i].item)
               /\ settings.failClosed => passed[i].audited
               /\ settings.adapter # "local" => \E at : CameFrom(passed[i], call.auth, at)
    <3>1. /\ passed[i].record = call.got[i].record /\ passed[i].item = ItemAt(i)
          /\ passed[i].audited = (i \notin failed)
      BY <2>3
    <3> HIDE DEF passed
    <3>2. Allowed(passed[i].item)
      BY <3>1 DEF AllowedAt
    <3>3. settings.failClosed => passed[i].audited
      BY <2>1, <3>1 DEF GatePasses
    <3>4. ASSUME settings.adapter # "local" PROVE CameFrom(passed[i], call.auth, call.got[i].at)
      <4> DEFINE e == CanonicalOf(settings.adapter, Raw[call.got[i].record], call.got[i].at)
      <4>1. Covers(call.auth, Capabilities(settings.adapter), CanonicalContext(e))
        BY <2>2, <3>4 DEF Readable, AllowedAt, TakenAt
      <4>2. ItemAt(i) = [Item(e) EXCEPT !.context = WithAuthorization(@, call.auth)]
        BY <3>4 DEF ItemAt, ItemOf
      <4> HIDE DEF e
      <4>3. ItemAt(i).context = WithAuthorization(CanonicalContext(e), call.auth)
        BY <4>2 DEF Item
      <4> QED BY <3>1, <4>1, <4>3 DEF CameFrom, e
    <3> QED BY <3>2, <3>3, <3>4
  <2> HIDE DEF passed
  <2>6. /\ call'.evidence = passed /\ call'.auth = call.auth /\ call'.policy = call.policy
        /\ call'.pc = "derive"
    BY <1>1, <2>1 DEF IngestTyped, Shaped, passed
  <2>7. EvidenceSound'
    <3>1. \E n \in Nat : DOMAIN call'.evidence \subseteq 1 .. n
      BY <2>3, <2>4, <2>6
    <3>2. ASSUME NEW i \in DOMAIN call'.evidence
          PROVE  /\ Allowed(call.evidence[i].item)'
                 /\ settings'.failClosed => call'.evidence[i].audited
                 /\ settings'.adapter # "local" =>
                      \E at : CameFrom(call.evidence[i], call.auth, at)'
      <4>1. /\ Allowed(passed[i].item)
            /\ settings.failClosed => passed[i].audited
            /\ settings.adapter # "local" => \E at : CameFrom(passed[i], call.auth, at)
        BY <2>3, <2>5, <2>6, <3>2
      <4> QED BY <1>1, <2>6, <4>1 DEF Allowed, CameFrom
    <3> QED BY <3>1, <3>2 DEF EvidenceSound
  <2>8. IngestTyped'
    BY <1>1, <2>1 DEF IngestTyped, Shaped
  <2> QED BY <1>1, <2>1, <2>7, <2>8
        DEF LearnInv, PrivateStaysPrivate, LearnedWithConsent, AddressedToSome
<1> QED BY <1>2, <1>3

(* An event made of evidence that is sound keeps to what may be learned.      *)
MayBeLearned(e) ==
  /\ AddressedToSome(Raw[e.record]) => RequiresPrivateRead(e.auth) /\ e.action = "hide"
  /\ e.consented /\ (settings.failClosed => e.audited)

(* A signal derived from gated evidence may be learned.                     *)
LEMMA DerivedMayBeLearned ==
  ASSUME EvidenceSound, call.pc = "derive", NEW i \in DOMAIN call.evidence,
         NEW kind \in SignalKinds \ {"none"}, SignalOfAllowed(call.evidence[i], kind)
  PROVE  MayBeLearned(EventOf(call.evidence[i], kind))
<1> DEFINE v == call.evidence[i]
           e == EventOf(v, kind)
<1>1. /\ Allowed(v.item) /\ (settings.failClosed => v.audited)
      /\ settings.adapter # "local" => \E at : CameFrom(v, call.auth, at)
  BY DEF EvidenceSound
<1>2. /\ e.record = v.record /\ e.auth = call.auth /\ e.action = kind
      /\ e.consented = Allowed(v.item) /\ e.audited = v.audited
  BY DEF EventOf
<1>3. kind \in {"like", "hide"} /\ SignalAllowed(SignalOf(kind, v.item.context), v.item.context, v.item.trust)
  BY DEF SignalKinds, SignalOfAllowed
<1> HIDE DEF e, v
<1>4. ASSUME AddressedToSome(Raw[v.record])
      PROVE  RequiresPrivateRead(call.auth) /\ kind = "hide"
  <2>1. settings.adapter # "local"
    BY <1>4 DEF AddressedToSome
  <2>2. PICK at : CameFrom(v, call.auth, at)
    BY <1>1, <2>1
  <2> DEFINE canonical == CanonicalOf(settings.adapter, Raw[v.record], at)
             context == CanonicalContext(canonical)
  <2>3. /\ context.visibility \in PrivateVisibilities /\ context.containsPrivate
        /\ context.protocol = "activitypub"
    BY <1>4, AddressedIsPrivate
  <2>4. /\ v.item.context = WithAuthorization(context, call.auth)
        /\ Covers(call.auth, Capabilities(settings.adapter), context)
    BY <2>2 DEF CameFrom
  <2> HIDE DEF canonical
  <2>5. /\ v.item.context.protocol = context.protocol
        /\ v.item.context.containsPrivate = (RequiresPrivateRead(context) \/ RequiresPrivateRead(call.auth))
    BY <2>4, ContextShape
  <2> HIDE DEF context
  <2>6. RequiresPrivateRead(context)
    BY <2>3 DEF RequiresPrivateRead
  <2>7. RequiresPrivateRead(call.auth)
    BY <2>4, <2>6 DEF Covers
  <2>8. kind = "hide"
    BY <1>3, <2>3, <2>5, <2>6, PrivateIsNotLiked
  <2> QED BY <2>7, <2>8
<1>5. AddressedToSome(Raw[e.record]) => RequiresPrivateRead(e.auth) /\ e.action = "hide"
  BY <1>2, <1>4
<1>6. e.consented /\ (settings.failClosed => e.audited)
  BY <1>1, <1>2
<1> QED BY <1>5, <1>6 DEF MayBeLearned, e, v

(* Whatever may be learned is neither private nor without consent.          *)
LEMMA LearnedMayBe ==
  (PrivateStaysPrivate /\ LearnedWithConsent) <=> \A e \in ledger.operations : MayBeLearned(e)
BY DEF PrivateStaysPrivate, LearnedWithConsent, MayBeLearned

(* The events of a batch are made of the evidence it was derived from.        *)
LEMMA EventsOfFacts ==
  ASSUME NEW n \in Nat, NEW kinds, DOMAIN kinds \subseteq 1 .. n
  PROVE  /\ Len(EventsOf(kinds)) \in Nat
         /\ \A k \in 1 .. Len(EventsOf(kinds)) :
              \E i \in DOMAIN kinds :
                kinds[i] # "none" /\ EventsOf(kinds)[k] = EventOf(call.evidence[i], kinds[i])
<1> DEFINE places == {i \in DOMAIN kinds : kinds[i] # "none"}
           some == Ascending(places)
           events == EventsOf(kinds)
           m == Cardinality(places)
<1>1. places \in SUBSET Nat /\ places \subseteq 1 .. n
  OBVIOUS
<1>2. IsFiniteSet(places)
  <2> HIDE DEF places
  <2>1. IsFiniteSet(1 .. n)
    BY FS_Interval
  <2> QED BY <1>1, <2>1, FS_Subset
<1>3. events = [k \in DOMAIN some |-> EventOf(call.evidence[some[k]], kinds[some[k]])]
  BY DEF EventsOf
<1> DEFINE event(i) == EventOf(call.evidence[i], kinds[i])
<1>4. m \in Nat /\ DOMAIN some = 1 .. m /\ \A k \in 1 .. m : some[k] \in places
  <2> HIDE DEF places
  <2> QED BY <1>1, <1>2, AscendingProperties
<1>5. events = [k \in DOMAIN some |-> event(some[k])]
  BY <1>3
<1> HIDE DEF event, some, m, events
<1>6. events = [k \in 1 .. m |-> events[k]] /\ \A k \in 1 .. m : events[k] = event(some[k])
  BY <1>4, <1>5
<1>7. Len(events) = m
  BY <1>4, <1>6, ListOf
<1> QED BY <1>4, <1>6, <1>7 DEF events, event

(* A batch learns nothing but what its evidence may teach.                  *)
LEMMA ProcessLearnInv == ASSUME LearnInv, Process PROVE LearnInv'
<1>1. /\ IngestTyped /\ EvidenceSound /\ call.pc = "derive"
      /\ UNCHANGED <<settings, served, arrived>>
  BY DEF Process, LearnInv
<1>2. PICK kinds \in [DOMAIN call.evidence -> SignalKinds] :
        \/ /\ \A i \in DOMAIN kinds :
               kinds[i] # "none" => SignalOfAllowed(call.evidence[i], kinds[i])
           /\ ledger' = IngestBatch(ledger, EventsOf(kinds)).ledger
           /\ cursor' = call.next
           /\ sweep' = [sweep EXCEPT !.got = @ \cup {call.got[i].record : i \in DOMAIN call.got},
                                     !.complete = call.next = NoCursor]
           /\ call' = Idle
        \/ Abandon
  BY DEF Process
<1>3. CASE Abandon
  BY <1>1, <1>3, AbandonLearnInv
<1>4. CASE ~Abandon
  <2>1. PICK n \in Nat : DOMAIN call.evidence \subseteq 1 .. n
    BY <1>1 DEF EvidenceSound
  <2>2. DOMAIN kinds = DOMAIN call.evidence
    BY <1>2
  <2>3. /\ Len(EventsOf(kinds)) \in Nat
        /\ \A k \in 1 .. Len(EventsOf(kinds)) :
              \E i \in DOMAIN kinds :
                kinds[i] # "none" /\ EventsOf(kinds)[k] = EventOf(call.evidence[i], kinds[i])
    BY <2>1, <2>2, EventsOfFacts
  <2>4. ASSUME NEW e \in ledger'.operations PROVE MayBeLearned(e)
    <3>1. e \in ledger.operations \/ \E k \in 1 .. Len(EventsOf(kinds)) : e = EventsOf(kinds)[k]
      BY <1>2, <1>4, <2>3, BatchOperations DEF Within
    <3>2. CASE e \in ledger.operations
      BY <3>2, LearnedMayBe DEF LearnInv
    <3>3. CASE \E k \in 1 .. Len(EventsOf(kinds)) : e = EventsOf(kinds)[k]
      <4>1. PICK k \in 1 .. Len(EventsOf(kinds)) : e = EventsOf(kinds)[k]
        BY <3>3
      <4>2. PICK i \in DOMAIN kinds :
              kinds[i] # "none" /\ EventsOf(kinds)[k] = EventOf(call.evidence[i], kinds[i])
        BY <2>3
      <4>3. kinds[i] \in SignalKinds \ {"none"} /\ SignalOfAllowed(call.evidence[i], kinds[i])
        BY <1>2, <1>4, <4>2
      <4> QED BY <1>1, <2>2, <4>1, <4>2, <4>3, DerivedMayBeLearned
    <3> QED BY <3>1, <3>2, <3>3
  <2>5. (PrivateStaysPrivate /\ LearnedWithConsent)'
    BY <1>1, <2>4
       DEF PrivateStaysPrivate, LearnedWithConsent, MayBeLearned, AddressedToSome
  <2>6. IsList(<<>>) /\ Len(<<>>) = 0
    BY DEF IsList
  <2>9. /\ cursor' = call.next /\ call' = Idle
        /\ sweep' = [due |-> sweep'.due, got |-> sweep'.got, shrunk |-> sweep'.shrunk,
                     complete |-> sweep'.complete]
    BY <1>1, <1>2, <1>4 DEF IngestTyped
  <2>7. IngestTyped'
    BY <1>1, <2>6, <2>9, IngestionAssumption DEF IngestTyped, Shaped, Idle, Cursors
  <2>8. EvidenceSound'
    BY <1>2, <1>4 DEF EvidenceSound, Idle
  <2> QED BY <2>5, <2>7, <2>8 DEF LearnInv
<1> QED BY <1>3, <1>4

(* What the host does meanwhile teaches nothing.                            *)
LEMMA WorldLearnInv ==
  ASSUME LearnInv, Publish \/ TakeBack \/ Tick \/ UNCHANGED vars PROVE LearnInv'
<1>1. UNCHANGED <<settings, call, cursor, ledger>>
  BY DEF Publish, TakeBack, Tick, vars
<1>2. served' \in Seq(DOMAIN Raw) /\ arrived' \in Nat
  <2>1. CASE Publish
    <3>1. /\ arrived' = arrived + 1 /\ arrived \in Nat /\ arrived < Len(Arriving)
          /\ served' = <<Arriving[arrived + 1]>> \o served /\ served \in Seq(DOMAIN Raw)
      BY <2>1 DEF Publish, LearnInv, IngestTyped
    <3>2. Arriving[arrived + 1] \in DOMAIN Raw
      BY <3>1, IngestionAssumption
    <3> QED BY <3>1, <3>2
  <2>2. CASE TakeBack
    <3>1. PICK i \in DOMAIN served :
            served' = SubSeq(served, 1, i - 1) \o SubSeq(served, i + 1, Len(served))
      BY <2>2 DEF TakeBack
    <3>2. served \in Seq(DOMAIN Raw) /\ UNCHANGED arrived /\ arrived \in Nat
      BY <2>2 DEF TakeBack, LearnInv, IngestTyped
    <3>3. i \in 1 .. Len(served)
      BY <3>2
    <3>4. SubSeq(served, 1, i - 1) \in Seq(DOMAIN Raw)
      BY <3>2, <3>3
    <3>5. SubSeq(served, i + 1, Len(served)) \in Seq(DOMAIN Raw)
      BY <3>2, <3>3
    <3> QED BY <3>1, <3>2, <3>4, <3>5
  <2>3. CASE Tick \/ UNCHANGED vars
    BY <2>3 DEF Tick, vars, LearnInv, IngestTyped
  <2> QED BY <2>1, <2>2, <2>3
<1>3. sweep' = [due |-> sweep'.due, got |-> sweep'.got, shrunk |-> sweep'.shrunk,
                complete |-> sweep'.complete]
  BY DEF Publish, TakeBack, Tick, vars, LearnInv, IngestTyped
<1>4. IngestTyped'
  BY <1>1, <1>2, <1>3 DEF LearnInv, IngestTyped, Shaped
<1> QED BY <1>1, <1>4
     DEF LearnInv, EvidenceSound, CameFrom, Allowed, PrivateStaysPrivate, LearnedWithConsent,
         AddressedToSome

(* Ingestion keeps its invariant: every item of evidence is what was read,  *)
(* under an authorization and a consent that cover it, and no more than     *)
(* that was ever learned, whatever the host publishes, hides or revokes     *)
(* between two steps of a call.                                             *)
THEOREM LearnInvariant == Spec => []LearnInv
<1>1. LearnInv /\ [Next]_vars => LearnInv'
  <2> SUFFICES ASSUME LearnInv, [Next]_vars PROVE LearnInv'
    OBVIOUS
  <2>1. CASE Begin
    BY <2>1, BeginLearnInv
  <2>2. CASE Authorize \/ ReadActor \/ ReadRoot
    BY <2>2, AuthorizeLearnInv
  <2>3. CASE ReadPage
    BY <2>3, ReadPageLearnInv
  <2>4. CASE RefusePage \/ ReadThrows \/ Fails
    BY <2>4, AbandonLearnInv DEF RefusePage, ReadThrows, Fails
  <2>5. CASE Fetch
    BY <2>5, FetchLearnInv
  <2>6. CASE FetchLocal
    BY <2>6, FetchLocalLearnInv
  <2>7. CASE Gate
    BY <2>7, GateLearnInv
  <2>8. CASE Process
    BY <2>8, ProcessLearnInv
  <2>9. CASE Publish \/ TakeBack \/ Tick \/ UNCHANGED vars
    BY <2>9, WorldLearnInv
  <2> QED BY <2>1, <2>2, <2>3, <2>4, <2>5, <2>6, <2>7, <2>8, <2>9 DEF Next
<1> QED BY InitLearnInv, <1>1, PTL DEF Spec

(* What its author addressed to some only is learned from under an          *)
(* authorization for private data alone, and never as a liking.             *)
THEOREM IngestionPrivateStaysPrivate == Spec => []PrivateStaysPrivate
<1>1. LearnInv => PrivateStaysPrivate
  BY DEF LearnInv
<1> QED BY LearnInvariant, <1>1, PTL

(* Whatever was learned was allowed by the policy its read began with, and  *)
(* where the deployment fails closed its audit was recorded first.          *)
THEOREM IngestionLearnedWithConsent == Spec => []LearnedWithConsent
<1>1. LearnInv => LearnedWithConsent
  BY DEF LearnInv
<1> QED BY LearnInvariant, <1>1, PTL

-----------------------------------------------------------------------------
(* The sweep of an outbox.                                                  *)

(* A place in the outbox: how many records lie before it.                    *)
Place(page, offset) == (page - 1) * PageSize + offset
(* The place a cursor stands for.                                           *)
Where(at) == IF at = NoCursor THEN 0 ELSE Place(at[1], at[2])

(* The records the outbox has after a place, and those a read has taken.      *)
Ahead(n) == {served[i] : i \in {j \in DOMAIN served : j > n}}
(* The records of what was read.                                            *)
Records(got) == {got[i].record : i \in DOMAIN got}

(* What a cursor leaves to be read.                                         *)
Rest(at) == IF at = NoCursor THEN {} ELSE Ahead(Where(at))

(* Unless a record was taken back, a record that is due was taken by an       *)
(* earlier read of the sweep or by this one, or lies ahead.                 *)
Covered ==
  /\ sweep.complete => sweep.due \subseteq sweep.got
  /\ cursor # NoCursor \/ call.pc \in {"authorize", "actor"} =>
       sweep.due \subseteq sweep.got \cup Ahead(Where(cursor))
  /\ call.pc = "page" =>
       sweep.due \subseteq sweep.got \cup Records(call.got) \cup Ahead(Place(call.page, call.offset))
  /\ call.pc \in {"gate", "derive"} =>
       sweep.due \subseteq sweep.got \cup Records(call.got) \cup Rest(call.next)

(* The inductive invariant of a sweep.                                      *)
SweepCovers ==
  /\ settings.adapter # "outbox" => sweep.due = {}
  /\ call.pc = "fetch" => settings.adapter # "outbox"
  /\ call.pc = "page" /\ call.page = Root => call.offset = 0
  /\ \A n \in sweep.due : ExplicitlyPublic(Raw[n])
  /\ ~sweep.shrunk => Covered

(* No sweep has begun.                                                      *)
LEMMA InitSweepCovers == Init => SweepCovers
BY DEF Init, SweepCovers, Covered, Idle, NoSweep, NoCursor

(* A call that ends leaves the sweep as it was.                             *)
LEMMA AbandonSweepCovers ==
  ASSUME SweepCovers, Abandon, UNCHANGED <<settings, served>> PROVE SweepCovers'
<1>1. call' = Idle /\ UNCHANGED <<cursor, sweep, settings, served>>
  BY DEF Abandon
<1>2. call'.pc = "idle"
  BY <1>1 DEF Idle
<1>3. ~sweep.shrunk => Covered'
  BY <1>1, <1>2 DEF SweepCovers, Covered, Ahead, Where, Place
<1> QED BY <1>1, <1>2, <1>3 DEF SweepCovers

(* Places are ordered as pages are.                                          *)
LEMMA PlaceIs ==
  ASSUME NEW page \in Nat \ {0}, NEW offset \in Nat
  PROVE  /\ Place(page, 0) \in Nat /\ Place(page, offset) \in Nat
         /\ Place(page, offset) = Place(page, 0) + offset
         /\ page * PageSize = Place(page, 0) + PageSize
<1>1. PageSize \in Nat
  BY IngestionAssumption
<1>2. \A a \in Nat, b \in Nat : a * b \in Nat
  OBVIOUS
<1>3. page - 1 \in Nat
  OBVIOUS
<1>4. (page - 1) * PageSize \in Nat
  BY <1>1, <1>2, <1>3
<1>5. page * PageSize = (page - 1) * PageSize + PageSize
  BY <1>1
<1> QED BY <1>1, <1>4, <1>5 DEF Place

(* A page that comes next begins no further on than the end of this one.    *)
LEMMA PlaceFacts ==
  ASSUME NEW page \in Nat \ {0}, NEW next \in Nat \ {0}, next <= page + 1
  PROVE  Place(next, 0) \in Nat /\ Place(next, 0) <= page * PageSize
<1>1. PageSize \in Nat
  BY IngestionAssumption
<1>2. \A a \in Nat, b \in Nat : a * b \in Nat
  OBVIOUS
<1>3. next - 1 \in Nat /\ page - (next - 1) \in Nat
  OBVIOUS
<1>4. (page - (next - 1)) * PageSize \in Nat /\ (next - 1) * PageSize \in Nat
  BY <1>1, <1>2, <1>3
<1>5. page * PageSize = (next - 1) * PageSize + (page - (next - 1)) * PageSize
  BY <1>1, <1>3
<1> QED BY <1>1, <1>4, <1>5 DEF Place

(* A call that begins goes on from the cursor of the sweep, or starts a new *)
(* one.                                                                     *)
LEMMA BeginSweepCovers == ASSUME LearnInv, SweepCovers, Begin PROVE SweepCovers'
<1>1. /\ IngestTyped /\ UNCHANGED <<settings, served, cursor>>
      /\ sweep' = IF cursor # NoCursor THEN sweep
                  ELSE [NoSweep EXCEPT !.due = {n \in Range(served) :
                          settings.adapter = "outbox" /\ ExplicitlyPublic(Raw[n])}]
  BY DEF Begin, LearnInv
<1>2. PICK policy : call' = [Idle EXCEPT
        !.pc = IF settings.adapter = "local" THEN "fetch" ELSE "authorize", !.policy = policy]
  BY DEF Begin
<1>3. call'.pc = IF settings.adapter = "local" THEN "fetch" ELSE "authorize"
  BY <1>2 DEF Idle
<1>4. CASE cursor # NoCursor
  <2>1. sweep' = sweep /\ cursor' # NoCursor
    BY <1>1, <1>4 DEF NoCursor
  <2>2. ~sweep.shrunk => Covered'
    BY <1>1, <1>3, <1>4, <2>1 DEF SweepCovers, Covered, Ahead, Where, Place, NoCursor
  <2> QED BY <1>1, <1>3, <2>1, <2>2 DEF SweepCovers
<1>5. CASE cursor = NoCursor
  <2> DEFINE due == {n \in Range(served) : settings.adapter = "outbox" /\ ExplicitlyPublic(Raw[n])}
  <2>1. sweep' = [NoSweep EXCEPT !.due = due]
    BY <1>1, <1>5
  <2>2. due \subseteq Ahead(0)
    BY <1>1 DEF Ahead, Range, IngestTyped
  <2>3. settings.adapter # "outbox" => due = {}
    OBVIOUS
  <2>4. \A n \in due : ExplicitlyPublic(Raw[n])
    OBVIOUS
  <2> HIDE DEF due
  <2>5. sweep'.due = due /\ sweep'.got = {} /\ ~sweep'.complete
    BY <2>1 DEF NoSweep
  <2>6. Ahead(Where(cursor))' = Ahead(0)
    BY <1>1, <1>5 DEF Ahead, Where, NoCursor
  <2>7. Covered'
    BY <1>1, <1>3, <1>5, <2>2, <2>5, <2>6 DEF Covered, NoCursor
  <2> QED BY <1>1, <1>3, <2>3, <2>4, <2>5, <2>7 DEF SweepCovers
<1> QED BY <1>4, <1>5

(* The steps before the first page take nothing and leave the cursor alone. *)
LEMMA AuthorizeSweepCovers ==
  ASSUME LearnInv, SweepCovers, Authorize \/ ReadActor \/ ReadRoot PROVE SweepCovers'
<1>1. IngestTyped /\ UNCHANGED <<settings, served>>
  BY DEF Authorize, ReadActor, ReadRoot, LearnInv
<1>2. CASE Abandon
  BY <1>1, <1>2, AbandonSweepCovers
<1>3. CASE ~Abandon
  <2>1. UNCHANGED <<cursor, sweep>>
    BY <1>3 DEF Authorize, ReadActor, ReadRoot
  <2>2. CASE Authorize
    <3>1. /\ call.pc = "authorize"
          /\ call'.pc = IF settings.adapter = "outbox" THEN "actor" ELSE "fetch"
      <4>1. PICK auth : call' = [call EXCEPT
              !.pc = IF settings.adapter = "outbox" THEN "actor" ELSE "fetch", !.auth = auth]
        BY <1>3, <2>2 DEF Authorize
      <4> QED BY <1>1, <2>2, <4>1 DEF Authorize, IngestTyped, Shaped
    <3>2. ~sweep.shrunk => Covered'
      BY <1>1, <2>1, <3>1 DEF SweepCovers, Covered, Ahead, Where, Place
    <3> QED BY <1>1, <2>1, <3>1, <3>2 DEF SweepCovers
  <2>3. CASE ReadActor
    <3> DEFINE page == IF cursor = NoCursor THEN Root ELSE cursor[1]
               offset == IF cursor = NoCursor THEN 0 ELSE cursor[2]
    <3>1. /\ call.pc = "actor" /\ call'.pc = "page" /\ call'.page = page
          /\ call'.offset = offset /\ call'.got = call.got
      BY <1>1, <2>3 DEF ReadActor, IngestTyped, Shaped
    <3>2. Ahead(Where(cursor)) \subseteq Ahead(Place(page, offset))
      <4>1. CASE cursor = NoCursor
        <5>1. Place(page, offset) = 0 - PageSize /\ PageSize \in Nat
          BY <4>1, IngestionAssumption DEF Place, Root
        <5> QED BY <1>1, <4>1, <5>1 DEF Ahead, Where, IngestTyped
      <4>2. CASE cursor # NoCursor
        BY <4>2 DEF Where
      <4> QED BY <4>1, <4>2
    <3>3. page = Root => offset = 0
      BY <1>1 DEF IngestTyped, Cursors, Root
    <3> HIDE DEF page, offset
    <3>5. ~sweep.shrunk => Covered'
      <4> SUFFICES ASSUME ~sweep.shrunk PROVE Covered'
        OBVIOUS
      <4>1. sweep.due \subseteq sweep.got \cup Ahead(Where(cursor))
        BY <3>1 DEF SweepCovers, Covered
      <4>2. Ahead(Place(call.page, call.offset))' = Ahead(Place(page, offset))
        BY <1>1, <3>1 DEF Ahead, Place
      <4>3. Ahead(Where(cursor))' = Ahead(Where(cursor))
        BY <1>1, <2>1 DEF Ahead, Where, Place
      <4> QED BY <2>1, <3>1, <3>2, <4>1, <4>2, <4>3 DEF SweepCovers, Covered
    <3> QED BY <1>1, <2>1, <3>1, <3>3, <3>5 DEF SweepCovers
  <2>4. CASE ReadRoot
    <3>1. /\ call.pc = "page" /\ call.page = Root /\ call'.pc = "page" /\ call'.page = 1
          /\ call'.offset = call.offset /\ call'.got = call.got /\ call.offset = 0
      BY <1>1, <2>4 DEF ReadRoot, IngestTyped, Shaped, SweepCovers
    <3>2. Ahead(Place(call.page, call.offset)) \subseteq Ahead(0)
      BY <1>1 DEF Ahead, IngestTyped
    <3>3. Ahead(Place(call.page, call.offset))' = Ahead(0)
      <4>1. Place(1, 0) = 0
        BY IngestionAssumption DEF Place
      <4> QED BY <1>1, <3>1, <4>1 DEF Ahead, Place
    <3>4. ~sweep.shrunk => Covered'
      BY <1>1, <2>1, <3>1, <3>2, <3>3 DEF SweepCovers, Covered, Where, Ahead, Place
    <3> QED BY <1>1, <2>1, <3>1, <3>4 DEF SweepCovers, Root
  <2> QED BY <2>2, <2>3, <2>4
<1> QED BY <1>2, <1>3

(* A record ahead of a page's offset is read from the page, or lies ahead of   *)
(* where the next read goes on, or of the page it links to.                  *)
LEMMA PageCovers ==
  ASSUME IngestTyped, call.pc = "page", call.page \in Nat \ {0},
         NEW items, items = ItemsOf(call.page), items \in Seq(DOMAIN Raw),
         NEW stop \in Nat, stop = 0 \/ stop \in call.offset + 1 .. Len(items),
         NEW next \in (Nat \ {0}) \cup {NoPage},
         next = NoPage => ~HasNext(call.page), next # NoPage => next <= call.page + 1,
         NEW n \in Ahead(Place(call.page, call.offset)), ExplicitlyPublic(Raw[n])
  PROVE  LET end == IF stop = 0 THEN Len(items) ELSE stop
         IN  /\ \/ n \in Records(PublicOf(items, call.offset + 1, end))
                \/ n \in Rest(CursorAfter(call.page, stop, items, next))
             /\ stop = 0 /\ next # NoPage =>
                  \/ n \in Records(PublicOf(items, call.offset + 1, end))
                  \/ n \in Ahead(Place(next, 0))
<1> DEFINE end == IF stop = 0 THEN Len(items) ELSE stop
           base == Place(call.page, 0)
           read == PublicOf(items, call.offset + 1, end)
<1>1. /\ served \in Seq(DOMAIN Raw) /\ Len(served) \in Nat /\ DOMAIN served = 1 .. Len(served)
      /\ call.offset \in Nat /\ PageSize \in Nat \ {0}
  BY IngestionAssumption DEF IngestTyped
<1>2. /\ base \in Nat /\ Place(call.page, call.offset) = base + call.offset
      /\ call.page * PageSize = base + PageSize
      /\ Place(call.page, stop) = base + stop
      /\ next # NoPage => Place(next, 0) <= base + PageSize
  <2>1. /\ base \in Nat /\ Place(call.page, call.offset) = base + call.offset
        /\ call.page * PageSize = base + PageSize
    BY <1>1, PlaceIs
  <2>2. Place(call.page, stop) = base + stop
    BY <1>1, PlaceIs
  <2>3. next # NoPage => Place(next, 0) <= base + PageSize
    <3>1. next # NoPage => Place(next, 0) <= call.page * PageSize
      BY <1>1, PlaceFacts
    <3> HIDE DEF base
    <3> QED BY <2>1, <3>1
  <2> QED BY <2>1, <2>2, <2>3
<1>3. /\ Len(items) \in Nat /\ Len(items) <= PageSize
      /\ \A i \in 1 .. Len(served) :
           base < i /\ i <= base + PageSize => i - base \in 1 .. Len(items) /\ items[i - base] = served[i]
  <2>1. items = Slice(served, base, PageSize)
    <3>1. base = (call.page - 1) * PageSize
      <4>1. \A a \in Nat : a * PageSize + 0 = a * PageSize
        BY <1>1
      <4>2. call.page - 1 \in Nat
        OBVIOUS
      <4> QED BY <4>1, <4>2 DEF Place
    <3> HIDE DEF base
    <3> QED BY <3>1 DEF ItemsOf
  <2> HIDE DEF base
  <2>2. base \in Nat /\ PageSize \in Nat
    BY <1>1, <1>2
  <2>3. /\ Len(items) <= PageSize
        /\ \A i \in 1 .. Len(served) :
             base < i /\ i <= base + PageSize =>
               i - base \in 1 .. Len(items) /\ items[i - base] = served[i]
    BY <1>1, <2>1, <2>2, SliceFacts
  <2> QED BY <2>3
<1>4. PICK i \in 1 .. Len(served) : i > base + call.offset /\ served[i] = n
  BY <1>1, <1>2 DEF Ahead
<1> HIDE DEF base
<1>5. CASE i > base + PageSize
  <2>1. next # NoPage
    BY <1>1, <1>2, <1>5 DEF HasNext
  <2>2. Place(next, 0) < i
    <3>1. Place(next, 0) \in Int
      BY <1>1, <2>1, PlaceIs
    <3> QED BY <1>1, <1>2, <1>5, <2>1, <3>1
  <2>3. n \in Ahead(Place(next, 0))
    BY <1>1, <1>4, <2>2 DEF Ahead
  <2>4. stop < Len(items) => n \in Ahead(Place(call.page, stop))
    <3> SUFFICES ASSUME stop < Len(items) PROVE i > base + stop
      BY <1>1, <1>2, <1>4 DEF Ahead
    <3> QED BY <1>1, <1>2, <1>3, <1>5
  <2>5. n \in Rest(CursorAfter(call.page, stop, items, next))
    BY <2>1, <2>3, <2>4 DEF Rest, Where, CursorAfter, NoCursor
  <2> QED BY <2>3, <2>5
<1>6. CASE ~(i > base + PageSize)
  <2> DEFINE j == i - base
  <2>1. j \in 1 .. Len(items) /\ items[j] = n /\ j > call.offset
    <3>1. base < i /\ i <= base + PageSize
      BY <1>1, <1>2, <1>4, <1>6
    <3>2. j \in 1 .. Len(items) /\ items[j] = served[i]
      BY <1>3, <3>1
    <3>3. j > call.offset
      BY <1>1, <1>2, <1>4
    <3> QED BY <1>4, <3>2, <3>3
  <2>2. CASE j <= end
    <3>1. j \in PublicAt(items, call.offset + 1, end)
      <4> HIDE DEF j
      <4>1. end \in Nat
        BY <1>3
      <4> HIDE DEF end
      <4> QED BY <1>1, <2>1, <2>2, <4>1 DEF PublicAt
    <3>2. PICK k \in 1 .. Len(read) : read[k].record = items[j]
      <4>1. end \in Nat /\ call.offset + 1 \in Nat
        BY <1>1, <1>3
      <4> HIDE DEF end, j
      <4> QED BY <3>1, <4>1, PublicOfFacts
    <3>3. DOMAIN read = 1 .. Len(read)
      <4>1. end \in Nat /\ call.offset + 1 \in Nat
        BY <1>1, <1>3
      <4> HIDE DEF end
      <4> QED BY <4>1, PublicOfFacts, ListFacts
    <3> HIDE DEF read, end, j
    <3>4. n \in Records(read)
      BY <2>1, <3>2, <3>3 DEF Records
    <3> QED BY <3>4 DEF read, end
  <2>3. CASE ~(j <= end)
    <3>1. stop # 0 /\ stop < Len(items) /\ j > stop
      BY <1>3, <2>1, <2>3
    <3>2. n \in Ahead(Place(call.page, stop))
      <4>1. i > base + stop
        BY <1>2, <3>1
      <4> QED BY <1>1, <1>2, <1>4, <4>1 DEF Ahead
    <3>3. n \in Rest(CursorAfter(call.page, stop, items, next))
      BY <3>1, <3>2 DEF Rest, Where, CursorAfter, NoCursor
    <3> QED BY <3>1, <3>3
  <2> QED BY <2>2, <2>3
<1> QED BY <1>5, <1>6

(* What two lists of items hold is what each of them holds.                 *)
LEMMA RecordsOfConcat ==
  ASSUME NEW s, NEW t, IsList(s), IsList(t)
  PROVE  Records(s) \cup Records(t) \subseteq Records(s \o t)
<1> DEFINE u == s \o t
<1>1. /\ IsList(u) /\ Len(u) = Len(s) + Len(t)
      /\ \A i \in 1 .. Len(s) : u[i] = s[i]
      /\ \A i \in 1 .. Len(t) : u[Len(s) + i] = t[i]
  BY ListConcat
<1> HIDE DEF u
<1>2. /\ Len(s) \in Nat /\ Len(t) \in Nat /\ DOMAIN s = 1 .. Len(s) /\ DOMAIN t = 1 .. Len(t)
      /\ DOMAIN u = 1 .. Len(u)
  BY <1>1, ListFacts
<1>3. ASSUME NEW i \in DOMAIN s PROVE s[i].record \in Records(u)
  BY <1>1, <1>2 DEF Records
<1>4. ASSUME NEW i \in DOMAIN t PROVE t[i].record \in Records(u)
  <2>1. Len(s) + i \in DOMAIN u /\ u[Len(s) + i] = t[i]
    BY <1>1, <1>2
  <2> QED BY <2>1 DEF Records
<1> QED BY <1>3, <1>4 DEF Records, u

(* Reading a page takes what is due on it, or leaves it ahead.              *)
LEMMA ReadPageSweepCovers == ASSUME LearnInv, SweepCovers, ReadPage PROVE SweepCovers'
<1> DEFINE items == ItemsOf(call.page)
           stop == PageStop(items, call.offset, Limit - Len(call.got))
           end == LastRead(stop)
           read == PublicOf(items, call.offset + 1, end)
<1>1. /\ IngestTyped /\ call.pc = "page" /\ call.page \in Nat \ {0} /\ items \in Seq(DOMAIN Raw)
      /\ Len(items) \in Nat /\ UNCHANGED <<settings, served, cursor, sweep>>
  BY PageReadFacts DEF LearnInv, ReadPage
<1>2. PICK next \in (Nat \ {0}) \cup {NoPage} :
        /\ next = NoPage => ~HasNext(call.page)
        /\ next # NoPage => next <= call.page + 1
        /\ PageRead(stop, next)
  BY <1>1, PageReadFacts
<1>3. call.offset \in Nat /\ Limit - Len(call.got) \in Nat \ {0} /\ IsList(call.got)
  BY <1>1, IngestionAssumption, ListFacts DEF IngestTyped
<1>4. stop \in Nat /\ (stop = 0 \/ stop \in call.offset + 1 .. Len(items))
  <2> HIDE DEF items
  <2> QED BY <1>1, <1>3, PageStopFacts
<1>5. end = IF stop = 0 THEN Len(items) ELSE stop
  BY DEF LastRead
<1>6. IsList(read)
  <2>1. end \in Nat
    <3> HIDE DEF stop, items, end
    <3> QED BY <1>1, <1>4, <1>5
  <2>2. call.offset + 1 \in Nat
    BY <1>3
  <2> HIDE DEF items, end
  <2> QED BY <2>1, <2>2, PublicOfFacts
<1>7. /\ call'.got = call.got \o read /\ call'.offset = 0 /\ call'.page = next
      /\ call'.next = IF EndsAt(stop, next) THEN CursorAfter(call.page, stop, items, next) ELSE call.next
      /\ call'.pc = IF EndsAt(stop, next) THEN "gate" ELSE "page"
  BY <1>2 DEF PageRead
<1> HIDE DEF stop
<1>8. ASSUME NEW n \in Ahead(Place(call.page, call.offset)), ExplicitlyPublic(Raw[n])
      PROVE  /\ n \in Records(read) \/ n \in Rest(CursorAfter(call.page, stop, items, next))
             /\ stop = 0 /\ next # NoPage => n \in Records(read) \/ n \in Ahead(Place(next, 0))
  BY <1>1, <1>2, <1>4, <1>5, <1>8, PageCovers
<1>9. Records(call.got) \cup Records(read) \subseteq Records(call'.got)
  <2> HIDE DEF read
  <2> QED BY <1>3, <1>6, <1>7, RecordsOfConcat
<1> HIDE DEF items, end, read
<1>10. /\ \A n : Ahead(n)' = Ahead(n)
       /\ Rest(call.next)' = Rest(call'.next)
  BY <1>1 DEF Ahead, Rest, Where, Place
<1>11. Covered => Covered'
  <2> SUFFICES ASSUME Covered, \A n \in sweep.due : ExplicitlyPublic(Raw[n]) PROVE Covered'
    BY DEF SweepCovers
  <2>1. /\ sweep.due \subseteq sweep.got \cup Records(call.got) \cup Ahead(Place(call.page, call.offset))
        /\ sweep.complete => sweep.due \subseteq sweep.got
        /\ cursor # NoCursor => sweep.due \subseteq sweep.got \cup Ahead(Where(cursor))
    BY <1>1 DEF Covered
  <2>2. (sweep.due \subseteq sweep.got \cup Ahead(Where(cursor)))
          => (sweep.due \subseteq sweep.got \cup Ahead(Where(cursor)))'
    BY <1>1, <1>10 DEF Where, Place, Ahead
  <2>3. CASE EndsAt(stop, next)
    <3>1. call'.pc = "gate" /\ call'.next = CursorAfter(call.page, stop, items, next)
      BY <1>7, <2>3
    <3>2. sweep.due \subseteq sweep.got \cup Records(call'.got) \cup Rest(call'.next)
      BY <1>8, <1>9, <2>1, <3>1
    <3>3. (sweep.got \cup Records(call.got) \cup Rest(call.next))'
            = sweep.got \cup Records(call'.got) \cup Rest(call'.next)
      BY <1>1, <1>10 DEF Records
    <3> QED BY <1>1, <2>1, <2>2, <3>1, <3>2, <3>3 DEF Covered
  <2>4. CASE ~EndsAt(stop, next)
    <3>1. call'.pc = "page" /\ stop = 0 /\ next # NoPage
      BY <1>7, <2>4 DEF EndsAt
    <3>2. sweep.due \subseteq sweep.got \cup Records(call'.got) \cup Ahead(Place(next, 0))
      BY <1>8, <1>9, <2>1, <3>1
    <3>3. (sweep.got \cup Records(call.got) \cup Ahead(Place(call.page, call.offset)))'
            = sweep.got \cup Records(call'.got) \cup Ahead(Place(next, 0))
      BY <1>1, <1>7 DEF Records, Ahead, Place
    <3> QED BY <1>1, <2>1, <2>2, <3>1, <3>2, <3>3 DEF Covered
  <2> QED BY <2>3, <2>4
<1>12. call'.pc # "fetch"
  BY <1>7
<1> QED BY <1>1, <1>7, <1>11, <1>12 DEF SweepCovers

(* Where nothing is due, everything due is covered.                          *)
LEMMA NothingDue ==
  ASSUME sweep'.due = {}, settings'.adapter # "outbox", call'.pc # "page" PROVE SweepCovers'
BY DEF SweepCovers, Covered

(* A read that ends keeps in its cursor all that it did not take.           *)
LEMMA OtherSweepCovers ==
  ASSUME LearnInv, SweepCovers, Fetch \/ FetchLocal \/ Gate \/ Process PROVE SweepCovers'
<1>1. IngestTyped /\ UNCHANGED <<settings, served>>
  BY DEF Fetch, FetchLocal, Gate, Process, LearnInv
<1>2. CASE Abandon
  BY <1>1, <1>2, AbandonSweepCovers
<1>3. CASE (Fetch \/ FetchLocal) /\ ~Abandon
  <2>1. call.pc = "fetch" /\ UNCHANGED sweep
    BY <1>3 DEF Fetch, FetchLocal
  <2>2. call'.pc = "gate"
    BY <1>1, <1>3 DEF Fetch, FetchLocal, IngestTyped, Shaped
  <2> QED BY <1>1, <2>1, <2>2, NothingDue DEF SweepCovers
<1>4. CASE Gate /\ ~Abandon
  <2>1. /\ call.pc = "gate" /\ UNCHANGED <<cursor, sweep>>
        /\ \E evidence : call' = [call EXCEPT !.pc = "derive", !.evidence = evidence]
    BY <1>4 DEF Gate
  <2>2. call'.pc = "derive" /\ call'.got = call.got /\ call'.next = call.next
    BY <1>1, <2>1 DEF IngestTyped, Shaped
  <2>3. Covered => Covered'
    BY <1>1, <2>1, <2>2 DEF Covered, Ahead, Where, Place, Rest, Records
  <2> QED BY <1>1, <2>1, <2>2, <2>3 DEF SweepCovers
<1>5. CASE Process /\ ~Abandon
  <2> DEFINE got == sweep.got \cup {call.got[i].record : i \in DOMAIN call.got}
             complete == call.next = NoCursor
  <2>1. /\ call.pc = "derive" /\ cursor' = call.next /\ call' = Idle
        /\ sweep' = [sweep EXCEPT !.got = got, !.complete = complete]
    BY <1>5 DEF Process
  <2>2. /\ sweep'.due = sweep.due /\ sweep'.got = got /\ sweep'.shrunk = sweep.shrunk
        /\ sweep'.complete = complete
    <3> HIDE DEF got, complete
    <3> QED BY <1>1, <2>1 DEF IngestTyped
  <2>3. got = sweep.got \cup Records(call.got)
    BY DEF Records
  <2>4. call'.pc = "idle"
    BY <2>1 DEF Idle
  <2>5. ASSUME Covered PROVE Covered'
    <3>1. sweep.due \subseteq got \cup Rest(call.next)
      BY <2>1, <2>3, <2>5 DEF Covered
    <3>2. Ahead(Where(cursor))' = Ahead(Where(call.next))
      BY <1>1, <2>1 DEF Ahead, Where, Place
    <3>3. complete => sweep.due \subseteq got
      BY <3>1 DEF Rest
    <3>4. call.next # NoCursor => sweep.due \subseteq got \cup Ahead(Where(call.next))
      BY <3>1 DEF Rest
    <3>5. (cursor # NoCursor)' = (call.next # NoCursor)
      BY <2>1 DEF NoCursor
    <3> HIDE DEF got
    <3> QED BY <2>2, <2>4, <3>2, <3>3, <3>4, <3>5 DEF Covered
  <2> QED BY <1>1, <2>2, <2>4, <2>5 DEF SweepCovers
<1> QED BY <1>2, <1>3, <1>4, <1>5

(* What the host does to its outbox meanwhile adds nothing due: a post      *)
(* published during the sweep belongs to the next one.                      *)
LEMMA WorldSweepCovers ==
  ASSUME LearnInv, SweepCovers, Publish \/ TakeBack \/ Tick \/ UNCHANGED vars PROVE SweepCovers'
<1>1. IngestTyped /\ UNCHANGED <<settings, call, cursor>>
  BY DEF Publish, TakeBack, Tick, vars, LearnInv
<1>2. CASE TakeBack
  <2>1. sweep' = [sweep EXCEPT !.shrunk = TRUE]
    BY <1>2 DEF TakeBack
  <2>2. sweep'.shrunk /\ sweep'.due = sweep.due
    BY <1>1, <2>1 DEF IngestTyped
  <2> QED BY <1>1, <2>2 DEF SweepCovers
<1>3. CASE ~TakeBack
  <2>1. UNCHANGED sweep
    BY <1>3 DEF Publish, Tick, vars
  <2>2. ASSUME NEW n \in Int PROVE Ahead(n) \subseteq Ahead(n)'
    <3>1. CASE Publish
      <4>1. served' = <<Arriving[arrived + 1]>> \o served /\ served \in Seq(DOMAIN Raw)
        BY <1>1, <3>1 DEF Publish, IngestTyped
      <4> DEFINE x == Arriving[arrived + 1]
      <4>2. x \in DOMAIN Raw
        BY <1>1, <3>1, IngestionAssumption DEF Publish, IngestTyped
      <4> HIDE DEF x
      <4>3. \A i \in DOMAIN served : i + 1 \in DOMAIN served' /\ served'[i + 1] = served[i] /\ i \in Int
        <5>1. served' = <<x>> \o served /\ <<x>> \in Seq(DOMAIN Raw) /\ Len(<<x>>) = 1
          BY <4>1, <4>2 DEF x
        <5> QED BY <4>1, <5>1
      <4> QED BY <4>3 DEF Ahead
    <3>2. CASE ~Publish
      BY <1>3, <3>2 DEF Tick, vars, Ahead
    <3> QED BY <3>1, <3>2
  <2>3. /\ Where(cursor) \in Int /\ Where(call.next) \in Int
        /\ call.pc = "page" => Place(call.page, call.offset) \in Int
    <3>0. PageSize \in Int /\ \A a \in Int, b \in Int : a * b \in Int
      BY IngestionAssumption
    <3>1. ASSUME NEW page \in Nat, NEW offset \in Nat PROVE Place(page, offset) \in Int
      <4>1. page - 1 \in Int
        OBVIOUS
      <4>2. (page - 1) * PageSize \in Int
        BY <3>0, <4>1
      <4> QED BY <4>2 DEF Place
    <3>2. ASSUME NEW c \in Cursors PROVE Where(c) \in Int
      BY <3>1 DEF Cursors, Where
    <3> QED BY <1>1, <3>1, <3>2 DEF IngestTyped
  <2>4. /\ Ahead(Where(cursor)) \subseteq Ahead(Where(cursor))'
        /\ call.pc = "page" => Ahead(Place(call.page, call.offset)) \subseteq Ahead(Place(call.page, call.offset))'
        /\ Rest(call.next) \subseteq Rest(call.next)'
    <3>1. Where(cursor)' = Where(cursor) /\ Where(call.next)' = Where(call.next)
          /\ Place(call.page, call.offset)' = Place(call.page, call.offset)
      BY <1>1 DEF Where, Place
    <3>2. ASSUME NEW n \in Int, NEW m, m = n PROVE Ahead(n) \subseteq {served'[i] : i \in {j \in DOMAIN served' : j > m}}
      BY <2>2, <3>2 DEF Ahead
    <3> QED BY <1>1, <2>3, <3>1, <3>2 DEF Ahead, Rest
  <2>5. Covered => Covered'
    BY <1>1, <2>1, <2>4 DEF Covered, Records
  <2> QED BY <1>1, <2>1, <2>5 DEF SweepCovers
<1> QED BY <1>2, <1>3

(* A sweep that ends has read every public activity the outbox had when it  *)
(* began, in whichever of its reads, however the pages moved, unless one    *)
(* was taken back meanwhile.                                                *)
THEOREM IngestionSweepReadsAll == Spec => []SweepReadsAll
<1>1. LearnInv /\ SweepCovers /\ [Next]_vars => SweepCovers'
  <2> SUFFICES ASSUME LearnInv, SweepCovers, [Next]_vars PROVE SweepCovers'
    OBVIOUS
  <2>1. CASE Begin
    BY <2>1, BeginSweepCovers
  <2>2. CASE Authorize \/ ReadActor \/ ReadRoot
    BY <2>2, AuthorizeSweepCovers
  <2>3. CASE ReadPage
    BY <2>3, ReadPageSweepCovers
  <2>4. CASE RefusePage \/ ReadThrows \/ Fails
    BY <2>4, AbandonSweepCovers DEF RefusePage, ReadThrows, Fails
  <2>5. CASE Fetch \/ FetchLocal \/ Gate \/ Process
    BY <2>5, OtherSweepCovers
  <2>6. CASE Publish \/ TakeBack \/ Tick \/ UNCHANGED vars
    BY <2>6, WorldSweepCovers
  <2> QED BY <2>1, <2>2, <2>3, <2>4, <2>5, <2>6 DEF Next
<1>2. SweepCovers => SweepReadsAll
  BY DEF SweepCovers, Covered, SweepReadsAll
<1> QED BY InitSweepCovers, LearnInvariant, <1>1, <1>2, PTL DEF Spec

-----------------------------------------------------------------------------
(* LiveOutbox: a grant that no longer holds never holds again under its name:*)
(* what replaces it has a later one.  So a frame that arrived too late is    *)
(* stopped by the check that follows it, however long the authorizer takes.  *)

(* The types of the parts the proofs speak of.                              *)
LiveTypes ==
  /\ watch = [pc |-> watch.pc, grant |-> watch.grant, frame |-> watch.frame,
              stale |-> watch.stale, seen |-> watch.seen, read |-> watch.read,
              frames |-> watch.frames, mutations |-> watch.mutations]
  /\ grant = [id |-> grant.id, readOutbox |-> grant.readOutbox,
              revoked |-> grant.revoked, expired |-> grant.expired]
  /\ watch.stale \in BOOLEAN

(* The watch is made under the current grant or an earlier one.             *)
GrantsNumbered == grant.id \in Nat /\ watch.grant \in Nat /\ watch.grant <= grant.id

(* Who has a stale frame in hand no longer has the grant.                   *)
StaleIsUngranted == watch.stale => ~StillGranted(grant)

(* The inductive invariant of the grants.                                   *)
LiveInv == LiveTypes /\ GrantsNumbered /\ StaleIsUngranted /\ NothingAfterRevocation

-----------------------------------------------------------------------------
(* Nobody watches at the start.                                             *)
LEMMA LiveInitInv == LiveInit => LiveInv
  BY DEF LiveInit, LiveInv, LiveTypes, GrantsNumbered, StaleIsUngranted,
         NothingAfterRevocation, NotWatching

(* What happens to the outbox and to its stream touches nothing of it.       *)
LEMMA WatchAndGrantDecide ==
  ASSUME LiveInv, UNCHANGED <<watch, grant, delivered>>
  PROVE  LiveInv'
  BY DEF LiveInv, LiveTypes, GrantsNumbered, StaleIsUngranted, NothingAfterRevocation,
         StillGranted, GrantHolds

(* A watch that ends, or waits for its next frame, has none in hand.         *)
LEMMA NothingInHand ==
  ASSUME LiveInv, UNCHANGED <<grant, delivered>>, watch' = NotWatching
  PROVE  LiveInv'
  BY DEF LiveInv, LiveTypes, GrantsNumbered, StaleIsUngranted, NothingAfterRevocation,
         NotWatching

(* The grant only gets worse, until a later one takes its place.             *)
LEMMA GrantNeverComesBack ==
  ASSUME LiveInv, GrantChanges
  PROVE  LiveInv'
  <1>1. watch' = watch /\ delivered' = delivered
    BY DEF GrantChanges
  <1>2. /\ grant' = [id |-> grant'.id, readOutbox |-> grant'.readOutbox,
                     revoked |-> grant'.revoked, expired |-> grant'.expired]
        /\ grant'.id \in Nat /\ grant.id <= grant'.id
    BY DEF GrantChanges, LiveInv, LiveTypes, GrantsNumbered
  <1>3. ASSUME watch.stale
        PROVE  ~StillGranted(grant)'
    <2>1. ~StillGranted(grant)
      BY <1>3 DEF LiveInv, StaleIsUngranted
    <2>2. CASE grant'.id = grant.id
      BY <1>1, <2>1, <2>2
         DEF GrantChanges, StillGranted, GrantHolds, LiveInv, LiveTypes, GrantsNumbered
    <2>3. CASE grant'.id # grant.id
      BY <1>1, <1>2, <2>3 DEF StillGranted, LiveInv, GrantsNumbered
    <2> QED BY <2>2, <2>3
  <1> QED
    BY <1>1, <1>2, <1>3
       DEF LiveInv, LiveTypes, GrantsNumbered, StaleIsUngranted, NothingAfterRevocation

(* The check that follows a frame hands it over only if it was not stale.    *)
LEMMA CheckedStopsTheStale ==
  ASSUME LiveInv, Checked
  PROVE  LiveInv'
  <1> USE DEF LiveInv, LiveTypes, GrantsNumbered, StaleIsUngranted
  <1>1. grant' = grant
    BY DEF Checked
  <1>2. CASE ~StillGranted(grant)
    <2>1. watch' = NotWatching /\ delivered' = delivered
      BY <1>2 DEF Checked
    <2> QED BY <1>1, <2>1, NothingInHand
  <1>3. CASE StillGranted(grant)
    <2>1. watch.stale = FALSE
      BY <1>3
    <2>2. CASE watch.frame.id \in watch.seen
      <3>1. delivered' = delivered
        BY <1>3, <2>2 DEF Checked
      <3>2. CASE watch' = NotWatching
        BY <1>1, <3>1, <3>2, NothingInHand
      <3>3. CASE watch' = [watch EXCEPT !.frames = @ + 1, !.frame = NoFrame, !.stale = FALSE,
                                        !.pc = "waiting"]
        BY <1>1, <3>1, <3>3 DEF NothingAfterRevocation
      <3>4. watch' = NotWatching
            \/ watch' = [watch EXCEPT !.frames = @ + 1, !.frame = NoFrame, !.stale = FALSE,
                                      !.pc = "waiting"]
        BY <1>3, <2>2 DEF Checked
      <3> QED BY <3>2, <3>3, <3>4
    <2>3. CASE watch.frame.id \notin watch.seen
      <3>1. /\ watch' = [watch EXCEPT !.pc = "delivering", !.frames = @ + 1,
                           !.mutations = @ + 1, !.seen = @ \cup {watch.frame.id}]
            /\ delivered' = delivered \cup {[id |-> watch.frame.id, stale |-> watch.stale]}
        BY <1>3, <2>3 DEF Checked
      <3>2. watch'.stale = FALSE /\ watch'.grant = watch.grant
        BY <2>1, <3>1
      <3>3. NothingAfterRevocation'
        <4>1. \A d \in delivered : ~d.stale
          BY DEF NothingAfterRevocation
        <4>2. \A d \in delivered' : ~d.stale
          BY <2>1, <3>1, <4>1
        <4> QED BY <4>2 DEF NothingAfterRevocation
      <3>4. LiveTypes' /\ GrantsNumbered' /\ StaleIsUngranted'
        <4>1. watch' = [pc |-> watch'.pc, grant |-> watch'.grant, frame |-> watch'.frame,
                        stale |-> watch'.stale, seen |-> watch'.seen, read |-> watch'.read,
                        frames |-> watch'.frames, mutations |-> watch'.mutations]
          BY <3>1
        <4> QED BY <1>1, <3>2, <4>1
      <3> QED BY <3>3, <3>4
    <2> QED BY <2>2, <2>3
  <1> QED BY <1>2, <1>3

(* Every step keeps the invariant of the grants.                            *)
LEMMA LiveStepInv == LiveInv /\ [LiveNext]_liveVars => LiveInv'
  <1> SUFFICES ASSUME LiveInv, [LiveNext]_liveVars PROVE LiveInv'
    OBVIOUS
  <1>1. CASE Subscribe
    <2>1. delivered' = {} /\ grant' = grant
      BY <1>1 DEF Subscribe
    <2>2. ~watch'.stale /\ watch'.stale \in BOOLEAN
      BY <1>1 DEF Subscribe, NotWatching
    <2>3. watch'.grant = 0 \/ watch'.grant = grant.id
      BY <1>1 DEF Subscribe, NotWatching
    <2>4. watch' = [pc |-> watch'.pc, grant |-> watch'.grant, frame |-> watch'.frame,
                    stale |-> watch'.stale, seen |-> watch'.seen, read |-> watch'.read,
                    frames |-> watch'.frames, mutations |-> watch'.mutations]
      BY <1>1 DEF Subscribe, NotWatching
    <2>5. StaleIsUngranted' /\ NothingAfterRevocation'
      BY <2>1, <2>2 DEF StaleIsUngranted, NothingAfterRevocation
    <2>6. LiveTypes'
      BY <2>1, <2>2, <2>4 DEF LiveInv, LiveTypes
    <2>7. GrantsNumbered'
      BY <2>1, <2>3 DEF LiveInv, GrantsNumbered
    <2> QED BY <2>5, <2>6, <2>7 DEF LiveInv
  <1>2. CASE Pull
    BY <1>2 DEF Pull, LiveInv, LiveTypes, GrantsNumbered, StaleIsUngranted,
                NothingAfterRevocation, StillGranted, GrantHolds
  <1>3. CASE Checked
    BY <1>3, CheckedStopsTheStale
  <1>4. CASE Refetches
    BY <1>4 DEF Refetches, LiveInv, LiveTypes, GrantsNumbered, StaleIsUngranted,
                NothingAfterRevocation, StillGranted, GrantHolds
  <1>5. CASE Handled
    <2>1. CASE watch' = NotWatching
      BY <1>5, <2>1, NothingInHand DEF Handled
    <2>2. CASE watch' = [watch EXCEPT !.pc = "waiting", !.frame = NoFrame, !.stale = FALSE,
                                      !.read = {}]
      BY <1>5, <2>2 DEF Handled, LiveInv, LiveTypes, GrantsNumbered, StaleIsUngranted,
                        NothingAfterRevocation
    <2> QED BY <1>5, <2>1, <2>2 DEF Handled
  <1>6. CASE WatchEnds
    BY <1>6, NothingInHand DEF WatchEnds
  <1>7. CASE Added \/ Removed \/ Rewritten \/ Repeated
    BY <1>7, WatchAndGrantDecide DEF Added, Removed, Rewritten, Repeated, Sent
  <1>8. CASE GrantChanges
    BY <1>8, GrantNeverComesBack
  <1>9. CASE UNCHANGED liveVars
    BY <1>9, WatchAndGrantDecide DEF liveVars
  <1> QED
    BY <1>1, <1>2, <1>3, <1>4, <1>5, <1>6, <1>7, <1>8, <1>9 DEF LiveNext

-----------------------------------------------------------------------------
(* Whatever the host is handed was checked under the grant of its            *)
(* subscription, which still held when the frame arrived.                   *)
THEOREM OutboxNothingAfterRevocation == LiveSpec => []NothingAfterRevocation
  <1>1. LiveInv => NothingAfterRevocation
    BY DEF LiveInv
  <1> QED BY LiveInitInv, LiveStepInv, <1>1, PTL DEF LiveSpec

-----------------------------------------------------------------------------
(* The notices there may be.                                                *)
Notices == [id : Nat, type : {"Add", "Remove", "Delete", "Create", "Update"},
            resource : Resources \cup {"none"}]

(* What is listed, announced or being handled is a notice.                  *)
NoticesOK ==
  /\ notices \in Nat /\ outbox \subseteq Resources
  /\ stream \in Seq(Notices)
  /\ watch = [pc |-> watch.pc, grant |-> watch.grant, frame |-> watch.frame,
              stale |-> watch.stale, seen |-> watch.seen, read |-> watch.read,
              frames |-> watch.frames, mutations |-> watch.mutations]
  /\ watch.pc \in {"off", "waiting", "checking", "delivering", "applying"}
  /\ watch.pc \in {"checking", "delivering", "applying"} => watch.frame \in Notices

(* What the host has read since, however old, holds nothing it was told is   *)
(* removed and that still is: only the watch itself tells it.               *)
ReadSinceRemoved == watch.pc = "applying" => watch.read \cap removed = {}

(* The inductive invariant of what was removed.                             *)
RemovedInv ==
  NoticesOK /\ outbox \cap removed = {} /\ ReadSinceRemoved /\ RemovedStaysOut

(* Nothing was removed at the start.                                        *)
LEMMA RemovedInitInv == LiveInit => RemovedInv
  BY DEF LiveInit, RemovedInv, NoticesOK, ReadSinceRemoved, RemovedStaysOut, NotWatching

(* The parts of a stream that is taken from, repeated or put in another     *)
(* order.                                                                   *)
LEMMA StreamParts ==
  ASSUME NEW s \in Seq(Notices), s # <<>>
  PROVE  /\ Head(s) \in Notices /\ Tail(s) \in Seq(Notices)
         /\ Append(s, Head(s)) \in Seq(Notices)
         /\ Append(Tail(s), Head(s)) \in Seq(Notices)
  OBVIOUS

(* A watch that is over, or waits, has nothing to apply.                     *)
LEMMA NothingToApply ==
  ASSUME RemovedInv, UNCHANGED <<outbox, stream, notices, mirror, removed>>,
         watch' = NotWatching
  PROVE  RemovedInv'
  BY DEF RemovedInv, NoticesOK, ReadSinceRemoved, RemovedStaysOut, NotWatching

(* A subscription begins with what the outbox holds, which is nothing       *)
(* removed.                                                                 *)
LEMMA SubscribeKeepsRemovedOut ==
  ASSUME RemovedInv, Subscribe
  PROVE  RemovedInv'
  <1>1. UNCHANGED <<outbox, notices, mirror, removed>> /\ stream' = <<>>
    BY DEF Subscribe
  <1>2. watch'.pc \in {"off", "waiting"}
    BY DEF Subscribe, NotWatching
  <1>3. watch' = [pc |-> watch'.pc, grant |-> watch'.grant, frame |-> watch'.frame,
                  stale |-> watch'.stale, seen |-> watch'.seen, read |-> watch'.read,
                  frames |-> watch'.frames, mutations |-> watch'.mutations]
    BY DEF Subscribe, NotWatching
  <1>4. NoticesOK'
    BY <1>1, <1>2, <1>3 DEF RemovedInv, NoticesOK
  <1>5. ReadSinceRemoved' /\ RemovedStaysOut' /\ (outbox \cap removed = {})'
    BY <1>1, <1>2 DEF RemovedInv, ReadSinceRemoved, RemovedStaysOut
  <1> QED BY <1>4, <1>5 DEF RemovedInv

(* Applying a mutation adds to the mirror what was read since.               *)
LEMMA HandledKeepsRemovedOut ==
  ASSUME RemovedInv, Handled
  PROVE  RemovedInv'
  <1>1. /\ UNCHANGED <<outbox, stream, notices>> /\ watch.pc = "applying"
        /\ watch.frame \in Notices
    BY DEF Handled, RemovedInv, NoticesOK
  <1>2. mirror' \cap removed' = {}
    <2> DEFINE type == watch.frame.type
               r == watch.frame.resource
    <2>1. watch.read \cap removed = {} /\ mirror \cap removed = {}
      BY <1>1 DEF RemovedInv, ReadSinceRemoved, RemovedStaysOut
    <2>2. CASE type = "Remove"
      <3>1. mirror' = mirror \ {r} /\ removed' = removed \cup ({r} \ outbox)
        BY <2>2 DEF Handled, MutationAction, Applied
      <3> QED BY <2>1, <3>1
    <2>3. CASE type = "Add"
      <3>1. mirror' = watch.read /\ removed' = removed
        BY <2>3 DEF Handled, MutationAction, Applied
      <3> QED BY <2>1, <3>1
    <2>4. CASE type \in {"Delete", "Create", "Update"}
      BY <2>4 DEF Handled, MutationAction, Applied
    <2>5. type \in {"Add", "Remove", "Delete", "Create", "Update"}
      BY <1>1 DEF Notices
    <2> QED BY <2>2, <2>3, <2>4, <2>5
  <1>3. outbox' \cap removed' = {}
    BY <1>1 DEF Handled, RemovedInv
  <1>4. watch'.pc \in {"off", "waiting"}
    BY DEF Handled, NotWatching, RemovedInv, NoticesOK
  <1>5. watch' = [pc |-> watch'.pc, grant |-> watch'.grant, frame |-> watch'.frame,
                  stale |-> watch'.stale, seen |-> watch'.seen, read |-> watch'.read,
                  frames |-> watch'.frames, mutations |-> watch'.mutations]
    BY DEF Handled, NotWatching, RemovedInv, NoticesOK
  <1>6. NoticesOK'
    BY <1>1, <1>4, <1>5 DEF RemovedInv, NoticesOK
  <1> QED BY <1>2, <1>3, <1>4, <1>6 DEF RemovedInv, ReadSinceRemoved, RemovedStaysOut

(* The pod tells no one directly: what it adds again is no longer removed.   *)
LEMMA PodKeepsRemovedOut ==
  ASSUME RemovedInv, Added \/ Removed \/ Rewritten
  PROVE  RemovedInv'
  <1>1. PICK type \in {"Add", "Remove", "Delete", "Create", "Update"},
             r \in Resources \cup {"none"} : Sent(type, r)
    <2>1. CASE Added
      BY <2>1 DEF Added
    <2>2. CASE Removed
      BY <2>2 DEF Removed, RemovedInv, NoticesOK
    <2>3. CASE Rewritten
      BY <2>3 DEF Rewritten
    <2> QED BY <2>1, <2>2, <2>3
  <1>2. outbox' \subseteq Resources /\ removed' \subseteq removed /\ outbox' \cap removed' = {}
    <2>1. CASE Added
      BY <2>1 DEF Added, RemovedInv, NoticesOK
    <2>2. CASE Removed
      BY <2>2 DEF Removed, RemovedInv, NoticesOK
    <2>3. CASE Rewritten
      BY <2>3 DEF Rewritten, RemovedInv, NoticesOK
    <2> QED BY <2>1, <2>2, <2>3
  <1>3. UNCHANGED <<watch, mirror>> /\ notices' \in Nat /\ stream' \in Seq(Notices)
    <2> DEFINE f == [id |-> notices + 1, type |-> type, resource |-> r]
    <2>1. f \in Notices /\ stream \in Seq(Notices) /\ notices \in Nat
      BY DEF RemovedInv, NoticesOK, Notices
    <2>2. Append(stream, f) \in Seq(Notices)
      BY <2>1
    <2> QED BY <1>1, <2>1, <2>2 DEF Sent
  <1>4. NoticesOK'
    BY <1>2, <1>3 DEF RemovedInv, NoticesOK
  <1> QED BY <1>2, <1>3, <1>4 DEF RemovedInv, ReadSinceRemoved, RemovedStaysOut

(* Every step keeps the invariant of what was removed.                      *)
LEMMA RemovedStepInv == RemovedInv /\ [LiveNext]_liveVars => RemovedInv'
  <1> SUFFICES ASSUME RemovedInv, [LiveNext]_liveVars PROVE RemovedInv'
    OBVIOUS
  <1> USE DEF RemovedInv, NoticesOK, ReadSinceRemoved, RemovedStaysOut
  <1>1. CASE Pull
    BY <1>1, StreamParts DEF Pull
  <1>2. CASE Checked
    <2>1. UNCHANGED <<outbox, stream, notices, mirror, removed>>
      BY <1>2 DEF Checked
    <2>2. \/ watch' = NotWatching
          \/ watch' = [watch EXCEPT !.frames = @ + 1, !.frame = NoFrame, !.stale = FALSE,
                                    !.pc = "waiting"]
          \/ /\ watch' = [watch EXCEPT !.pc = "delivering", !.frames = @ + 1,
                            !.mutations = @ + 1, !.seen = @ \cup {watch.frame.id}]
             /\ watch.pc = "checking"
      BY <1>2 DEF Checked
    <2>3. CASE watch' = NotWatching
      BY <2>1, <2>3, NothingToApply
    <2>4. CASE watch' # NotWatching
      BY <2>1, <2>2, <2>4
    <2> QED BY <2>3, <2>4
  <1>3. CASE Refetches
    BY <1>3 DEF Refetches
  <1>4. CASE WatchEnds
    BY <1>4, NothingToApply DEF WatchEnds
  <1>5. CASE Repeated
    BY <1>5, StreamParts DEF Repeated
  <1>6. CASE GrantChanges
    BY <1>6 DEF GrantChanges
  <1>7. CASE UNCHANGED liveVars
    BY <1>7 DEF liveVars
  <1> QED
    BY <1>1, <1>2, <1>3, <1>4, <1>5, <1>6, <1>7, SubscribeKeepsRemovedOut,
       HandledKeepsRemovedOut, PodKeepsRemovedOut DEF LiveNext

(* What the host was told is removed is in its mirror again only after the   *)
(* pod added it again, whatever is repeated, delayed or read in between.    *)
THEOREM OutboxRemovedStaysOut == LiveSpec => []RemovedStaysOut
  <1>1. RemovedInv => RemovedStaysOut
    BY DEF RemovedInv
  <1> QED BY RemovedInitInv, RemovedStepInv, <1>1, PTL DEF LiveSpec

-----------------------------------------------------------------------------
(* ProviderDiscovery: a descriptor says no more than what it was merged from.*)

(* The types of the parts the proofs speak of.                              *)
DiscoveryTyped ==
  /\ discovery = [pc |-> discovery.pc, application |-> discovery.application,
                  raw |-> discovery.raw, attempts |-> discovery.attempts,
                  answers |-> discovery.answers, running |-> discovery.running,
                  done |-> discovery.done, found |-> discovery.found]
  /\ discovery.answers = [p \in Probes |-> discovery.answers[p]]
  /\ cache = [a \in Expected |-> cache[a]]
  /\ instant \in Nat
  /\ discovery.pc # "off" => discovery.application \in Expected

(* The probes are asked again and again, and answer what they can.          *)
AnswersObserved == \A p \in Probes : discovery.answers[p] \subseteq Observations[p]

(* A capability another one of a higher rank stands against.                *)
OutrankedIn(d, c) ==
  \E other \in UNION {x.capabilities : x \in d.merged} :
    other.name = c.name /\ other.rank > c.rank

(* A descriptor of the provider says no more than the observations it was     *)
(* merged from.                                                             *)
Faithful(d) ==
  /\ d.until \in Nat
  /\ d.provider = Provider => \A o \in d.merged :
       /\ o.until \in Nat /\ d.until <= o.until /\ o.provider = Provider
       /\ \A c \in o.capabilities :
            c.state = "unsupported" /\ [name |-> c.name, state |-> "supported"] \in d.capabilities
              => OutrankedIn(d, c)

(* Every descriptor there is says no more than was observed.                *)
AllFaithful ==
  /\ Faithful(discovery.raw) /\ Faithful(discovery.found)
  /\ \A a \in Expected : Faithful(cache[a])

(* What is about to be cached and returned is what was asked for.           *)
AskedFor ==
  discovery.pc \in {"write", "written"} =>
    /\ discovery.found.provider = Provider
    /\ discovery.found.application = discovery.application \/ discovery.application = "none"

(* The inductive invariant of discovery.                                    *)
DiscoveryInv ==
  DiscoveryTyped /\ AnswersObserved /\ AllFaithful /\ AskedFor /\ ResolvedIsCurrent

-----------------------------------------------------------------------------
(* The absence of a descriptor claims nothing.                              *)
LEMMA NoDescriptorFaithful == Faithful(NoDescriptor)
  BY DEF Faithful, NoDescriptor

(* The least of some numbers is one of them, and no larger than the others.  *)
LEMMA MinIsLeast ==
  ASSUME NEW S \in SUBSET Nat, S # {} PROVE Min(S) \in S /\ \A n \in S : Min(S) <= n
<1>1. \E n \in S : \A m \in S : n <= m
  BY LeastElement
<1> QED BY <1>1 DEF Min

(* A capability is supported only if nothing of its highest rank denies it.  *)
LEMMA SupportedIsUndenied ==
  ASSUME NEW found, NEW o \in found, NEW c \in o.capabilities,
         \A x \in found : \A k \in x.capabilities : k.rank \in Nat /\ k.state \in CapabilityStates,
         c.state = "unsupported", [name |-> c.name, state |-> "supported"] \in CapabilitiesOf(found)
  PROVE  \E other \in UNION {x.capabilities : x \in found} :
           other.name = c.name /\ other.rank > c.rank
<1> SUFFICES ASSUME \A other \in UNION {x.capabilities : x \in found} :
                      other.name = c.name => ~(other.rank > c.rank)
             PROVE  FALSE
  OBVIOUS
<1> DEFINE all == UNION {x.capabilities : x \in found}
           Strongest(name) == {k \in all : k.name = name /\
                                 \A other \in all : other.name = name => other.rank <= k.rank}
           States(name) == {k.state : k \in Strongest(name)}
           StateOf(name) == IF Cardinality(States(name)) = 1
                            THEN (CHOOSE k \in Strongest(name) : TRUE).state ELSE "unknown"
<1>1. c \in all /\ \A k \in all : k.rank \in Nat /\ k.state \in CapabilityStates
  OBVIOUS
<1>2. c \in Strongest(c.name)
  BY <1>1
<1>3. [name |-> c.name, state |-> "supported"]
         \in {[name |-> name, state |-> StateOf(name)] : name \in {k.name : k \in all}}
  BY DEF CapabilitiesOf
<1>4. StateOf(c.name) = "supported"
  <2> HIDE DEF StateOf
  <2>1. PICK name \in {k.name : k \in all} :
          [name |-> c.name, state |-> "supported"] = [name |-> name, state |-> StateOf(name)]
    BY <1>3
  <2>2. [name |-> c.name, state |-> "supported"].name = c.name
        /\ [name |-> c.name, state |-> "supported"].state = "supported"
        /\ [name |-> name, state |-> StateOf(name)].name = name
        /\ [name |-> name, state |-> StateOf(name)].state = StateOf(name)
    OBVIOUS
  <2>3. name = c.name /\ StateOf(name) = "supported"
    BY <2>1, <2>2
  <2> QED BY <2>3
<1>5. /\ Cardinality(States(c.name)) = 1
      /\ (CHOOSE k \in Strongest(c.name) : TRUE).state = "supported"
  BY <1>4
<1>6. States(c.name) \subseteq CapabilityStates
  BY <1>1
<1>7. (CHOOSE k \in Strongest(c.name) : TRUE) \in Strongest(c.name)
  <2> HIDE DEF Strongest
  <2> QED BY <1>2
<1>8. "supported" \in States(c.name) /\ "unsupported" \in States(c.name)
  BY <1>2, <1>5, <1>7
<1> HIDE DEF States, StateOf, Strongest, all
<1>9. IsFiniteSet(CapabilityStates)
  <2>1. CapabilityStates = ({"supported"} \cup {"unsupported"}) \cup {"unknown"}
    BY DEF CapabilityStates
  <2>2. IsFiniteSet({"supported"}) /\ IsFiniteSet({"unsupported"}) /\ IsFiniteSet({"unknown"})
    BY FS_Singleton
  <2> QED BY <2>1, <2>2, FS_Union
<1>10. IsFiniteSet(States(c.name))
  BY <1>6, <1>9, FS_Subset
<1>11. \E x : States(c.name) = {x}
  BY <1>5, <1>10, FS_Singleton
<1> QED BY <1>8, <1>11

(* What is merged of sound observations is faithful to them, and of the      *)
(* application asked for.                                                   *)
LEMMA MergedIsFaithful ==
  ASSUME NEW found, NEW expected, Resolvable(expected, found),
         \A o \in found : /\ o.until \in Nat
                          /\ \A k \in o.capabilities : k.rank \in Nat /\ k.state \in CapabilityStates
  PROVE  /\ Faithful(Descriptor(expected, found)) /\ Descriptor(expected, found).provider = Provider
         /\ Descriptor(expected, found).application = expected \/ expected = "none"
<1> DEFINE d == Descriptor(expected, found)
           S == {o.until : o \in found}
<1>1. /\ d.merged = found /\ d.capabilities = CapabilitiesOf(found) /\ d.provider = Provider
      /\ d.until = Lifetime(found).until /\ d.application = ApplicationOf(expected, found)
  BY DEF Descriptor
<1>2. Lifetime(found).until = Min(S)
  BY DEF Lifetime
<1>3. S \in SUBSET Nat /\ S # {} /\ \A o \in found : o.provider = Provider
  BY DEF Resolvable
<1> HIDE DEF d
<1>4. Min(S) \in S /\ \A n \in S : Min(S) <= n
  <2> HIDE DEF S
  <2> QED BY <1>3, MinIsLeast
<1>5. d.until \in Nat /\ \A o \in found : d.until <= o.until
  BY <1>1, <1>2, <1>3, <1>4
<1>6. ASSUME NEW o \in found, NEW c \in o.capabilities, c.state = "unsupported",
             [name |-> c.name, state |-> "supported"] \in d.capabilities
      PROVE  OutrankedIn(d, c)
  BY <1>1, <1>6, SupportedIsUndenied DEF OutrankedIn
<1>7. Faithful(d)
  BY <1>1, <1>3, <1>5, <1>6 DEF Faithful
<1> QED BY <1>1, <1>7 DEF d, ApplicationOf

(* So is what another discovery merged.                                     *)
LEMMA WrittenFaithful == ASSUME NEW d \in Written PROVE Faithful(d)
<1>1. d.until \in Nat
  BY DiscoveryAssumption
<1>2. CASE d.provider # Provider \/ d.merged = {}
  BY <1>1, <1>2 DEF Faithful
<1>3. CASE d.provider = Provider /\ d.merged # {}
  <2> DEFINE found == d.merged
  <2>1. PICK a \in Expected : /\ found \subseteq UNION {Observations[p] : p \in Probes}
                             /\ Resolvable(a, found) /\ d = Descriptor(a, found)
    BY <1>3, DiscoveryAssumption
  <2>2. \A o \in found : /\ o.until \in Nat
                         /\ \A k \in o.capabilities : k.rank \in Nat /\ k.state \in CapabilityStates
    BY <2>1, DiscoveryAssumption
  <2> HIDE DEF found
  <2>3. Faithful(Descriptor(a, found))
    BY <2>1, <2>2, MergedIsFaithful
  <2> QED BY <2>1, <2>3
<1> QED BY <1>2, <1>3

(* A faithful descriptor that is valid still may be returned.               *)
LEMMA ReturnResolved ==
  ASSUME DiscoveryInv, UNCHANGED <<cache, instant>>, NEW d, Return(d), Faithful(d),
         d.provider = Provider, d.until > instant, d.application = discovery.application \/ discovery.application = "none"
  PROVE  DiscoveryInv'
<1>1. /\ returned' = [descriptor |-> d, at |-> instant, application |-> discovery.application]
      /\ discovery' = NotDiscovering
  BY DEF Return
<1>2. returned'.descriptor = d /\ returned'.at = instant
      /\ returned'.application = discovery.application
  BY <1>1
<1>3. ResolvedIsCurrent'
  BY <1>2 DEF ResolvedIsCurrent, Faithful, OutrankedIn, DiscoveryInv, DiscoveryTyped
<1>4. DiscoveryTyped' /\ AnswersObserved' /\ AllFaithful' /\ AskedFor'
  BY <1>1, NoDescriptorFaithful
  DEF DiscoveryInv, DiscoveryTyped, AnswersObserved, AllFaithful, AskedFor, NotDiscovering
<1> QED BY <1>3, <1>4 DEF DiscoveryInv

(* Nothing was discovered at the start.                                     *)
LEMMA DiscoveryInitInv == DiscoveryInit => DiscoveryInv
  BY NoDescriptorFaithful
  DEF DiscoveryInit, DiscoveryInv, DiscoveryTyped, AnswersObserved, AllFaithful, AskedFor,
      ResolvedIsCurrent, NotDiscovering, NothingReturned

(* A discovery that gives up leaves nothing behind.                         *)
LEMMA GivesUp ==
  ASSUME DiscoveryInv, discovery' = NotDiscovering, UNCHANGED <<cache, instant, returned>>
  PROVE  DiscoveryInv'
  BY NoDescriptorFaithful
  DEF DiscoveryInv, DiscoveryTyped, AnswersObserved, AllFaithful, AskedFor, ResolvedIsCurrent,
      NotDiscovering

(* What the steps of a discovery change but its place and its probes.        *)
LEMMA Proceeds ==
  ASSUME DiscoveryInv, UNCHANGED <<cache, instant, returned>>, DiscoveryTyped',
         AnswersObserved', Faithful(discovery'.raw), Faithful(discovery'.found), AskedFor'
  PROVE  DiscoveryInv'
  BY DEF DiscoveryInv, DiscoveryTyped, AllFaithful, ResolvedIsCurrent

(* Starting from the cache: what is read is judged before it is returned.   *)
LEMMA CacheSteps ==
  ASSUME DiscoveryInv, Discover \/ CacheRead \/ CacheJudged PROVE DiscoveryInv'
<1> USE DEF DiscoveryInv
<1>1. CASE Discover
  <2>1. PICK a \in Expected : discovery' = [NotDiscovering EXCEPT !.pc = "cache", !.application = a]
    BY <1>1 DEF Discover
  <2>2. UNCHANGED <<cache, instant, returned>>
    BY <1>1 DEF Discover
  <2> QED BY <2>1, <2>2, NoDescriptorFaithful, Proceeds
       DEF DiscoveryTyped, AnswersObserved, AskedFor, NotDiscovering
<1>2. CASE CacheRead
  <2>1. UNCHANGED <<cache, instant, returned>> /\ discovery.application \in Expected
    BY <1>2 DEF CacheRead, DiscoveryTyped
  <2>2. Faithful(cache[discovery.application])
    BY <2>1 DEF AllFaithful
  <2>3. \/ discovery' = [discovery EXCEPT !.pc = "judge", !.raw = cache[discovery.application]]
        \/ discovery' = [discovery EXCEPT !.pc = "probe"]
    BY <1>2 DEF CacheRead
  <2>4. /\ discovery'.pc \in {"judge", "probe"} /\ discovery'.application = discovery.application
        /\ discovery'.raw \in {cache[discovery.application], discovery.raw}
        /\ discovery'.found = discovery.found /\ discovery'.answers = discovery.answers
    BY <2>3 DEF DiscoveryTyped
  <2>5. DiscoveryTyped'
    BY <2>1, <2>3, <2>4 DEF DiscoveryTyped
  <2> QED BY <2>1, <2>2, <2>4, <2>5, Proceeds DEF AnswersObserved, AskedFor, AllFaithful
<1>3. CASE CacheJudged
  <2>1. UNCHANGED <<cache, instant>> /\ discovery.pc = "judge"
    BY <1>3 DEF CacheJudged
  <2>2. CASE discovery.raw # NoDescriptor /\ Reusable(discovery.raw)
    <3>1. Return(discovery.raw)
      BY <1>3, <2>2 DEF CacheJudged
    <3> QED BY <2>1, <2>2, <3>1, ReturnResolved DEF AllFaithful, Reusable
  <2>3. CASE ~(discovery.raw # NoDescriptor /\ Reusable(discovery.raw))
    <3>1. /\ returned' = returned
          /\ discovery' = [discovery EXCEPT !.pc = IF discovery.raw = NoDescriptor THEN "probe" ELSE "drop"]
      BY <1>3, <2>3 DEF CacheJudged
    <3>2. /\ discovery'.pc \in {"probe", "drop"} /\ discovery'.application = discovery.application
          /\ discovery'.raw = discovery.raw
          /\ discovery'.found = discovery.found /\ discovery'.answers = discovery.answers
      BY <3>1 DEF DiscoveryTyped
    <3>3. DiscoveryTyped'
      BY <2>1, <3>1, <3>2 DEF DiscoveryTyped
    <3> QED BY <2>1, <3>1, <3>2, <3>3, Proceeds DEF AnswersObserved, AskedFor, AllFaithful
  <2> QED BY <2>2, <2>3
<1> QED BY <1>1, <1>2, <1>3

(* The cache may change at any time, to something that is faithful too.      *)
LEMMA CacheChanges ==
  ASSUME DiscoveryInv, UNCHANGED <<instant, returned>>,
         NEW a \in Expected, NEW d, Faithful(d), cache' \in {cache, [cache EXCEPT ![a] = d]},
         discovery'.raw = discovery.raw \/ discovery'.raw = NoDescriptor,
         discovery'.found = discovery.found \/ discovery'.found = NoDescriptor,
         AnswersObserved', AskedFor',
         discovery' = [pc |-> discovery'.pc, application |-> discovery'.application,
                       raw |-> discovery'.raw, attempts |-> discovery'.attempts,
                       answers |-> discovery'.answers, running |-> discovery'.running,
                       done |-> discovery'.done, found |-> discovery'.found],
         discovery'.answers = [p \in Probes |-> discovery'.answers[p]],
         discovery'.pc # "off" => discovery'.application \in Expected
  PROVE  DiscoveryInv'
<1>1. cache' = [b \in Expected |-> cache'[b]] /\ \A b \in Expected : Faithful(cache'[b])
  BY DEF DiscoveryInv, DiscoveryTyped, AllFaithful
<1>2. Faithful(discovery'.raw) /\ Faithful(discovery'.found)
  BY NoDescriptorFaithful DEF DiscoveryInv, AllFaithful
<1>3. DiscoveryTyped'
  BY <1>1 DEF DiscoveryInv, DiscoveryTyped
<1> QED BY <1>1, <1>2, <1>3 DEF DiscoveryInv, AllFaithful, ResolvedIsCurrent

(* What is written to the cache is what was found.                          *)
LEMMA CacheWrites ==
  ASSUME DiscoveryInv, CacheDropped \/ CacheWritten \/ OtherWrites PROVE DiscoveryInv'
<1> USE DEF DiscoveryInv
<1>1. CASE CacheDropped
  <2>1. UNCHANGED <<instant, returned>> /\ discovery.application \in Expected
    BY <1>1 DEF CacheDropped, DiscoveryTyped
  <2>2. cache' \in {cache, [cache EXCEPT ![discovery.application] = NoDescriptor]}
    BY <1>1 DEF CacheDropped
  <2>3. CASE discovery' = NotDiscovering
    BY <2>1, <2>2, <2>3, CacheChanges, NoDescriptorFaithful
    DEF NotDiscovering, AnswersObserved, AskedFor
  <2>4. CASE discovery' = [discovery EXCEPT !.pc = "probe"]
    <3>1. /\ discovery' = [pc |-> "probe", application |-> discovery.application,
                  raw |-> discovery.raw, attempts |-> discovery.attempts,
                  answers |-> discovery.answers, running |-> discovery.running,
                  done |-> discovery.done, found |-> discovery.found]
      BY <2>4 DEF DiscoveryTyped
    <3> QED BY <2>1, <2>2, <3>1, CacheChanges, NoDescriptorFaithful
         DEF DiscoveryTyped, AnswersObserved, AskedFor
  <2> QED BY <1>1, <2>3, <2>4 DEF CacheDropped
<1>2. CASE CacheWritten
  <2>1. /\ UNCHANGED <<instant, returned>> /\ discovery.application \in Expected
        /\ discovery.pc = "write" /\ Faithful(discovery.found)
    BY <1>2 DEF CacheWritten, DiscoveryTyped, AllFaithful
  <2>2. cache' \in {cache, [cache EXCEPT ![discovery.application] = discovery.found]}
    BY <1>2 DEF CacheWritten
  <2>3. discovery' = [discovery EXCEPT !.pc = "written"]
    BY <1>2 DEF CacheWritten
  <2>4. /\ discovery' = [pc |-> "written", application |-> discovery.application,
                  raw |-> discovery.raw, attempts |-> discovery.attempts,
                  answers |-> discovery.answers, running |-> discovery.running,
                  done |-> discovery.done, found |-> discovery.found]
    BY <2>3 DEF DiscoveryTyped
  <2> QED BY <2>1, <2>2, <2>4, CacheChanges DEF DiscoveryTyped, AnswersObserved, AskedFor
<1>3. CASE OtherWrites
  <2>1. PICK a \in Expected, d \in Written : cache' = [cache EXCEPT ![a] = d]
    BY <1>3 DEF OtherWrites
  <2>2. Faithful(d) /\ UNCHANGED <<discovery, instant, returned>>
    BY <1>3, WrittenFaithful DEF OtherWrites
  <2>3. AnswersObserved' /\ AskedFor'
    BY <2>2 DEF AnswersObserved, AskedFor
  <2> QED BY <2>1, <2>2, <2>3, CacheChanges DEF DiscoveryTyped
<1> QED BY <1>1, <1>2, <1>3

(* A probe that answers or fails leaves what was observed.                  *)
LEMMA ProbeSettlesInv ==
  ASSUME DiscoveryInv, UNCHANGED <<cache, instant, returned>>,
         NEW p, NEW answer, p \in Probes => answer \subseteq Observations[p],
         ProbeSettles(p, answer)
  PROVE  DiscoveryInv'
<1> USE DEF DiscoveryInv
<1>1. discovery' = [pc |-> discovery.pc, application |-> discovery.application,
                  raw |-> discovery.raw, attempts |-> discovery.attempts,
                  answers |-> [discovery.answers EXCEPT ![p] = answer],
                  running |-> discovery.running \ {p},
                  done |-> discovery.done \cup {p}, found |-> discovery.found]
  BY DEF ProbeSettles, DiscoveryTyped
<1>2. /\ DiscoveryTyped' /\ AnswersObserved' /\ AskedFor'
  BY <1>1 DEF DiscoveryTyped, AnswersObserved, AskedFor
<1>3. Faithful(discovery'.raw) /\ Faithful(discovery'.found)
  BY <1>1 DEF AllFaithful
<1> QED BY <1>2, <1>3, Proceeds

(* Probing and merging.                                                     *)
LEMMA ProbeSteps ==
  ASSUME DiscoveryInv, ProbeStarts \/ ProbeAnswers \/ ProbeFails PROVE DiscoveryInv'
<1> USE DEF DiscoveryInv
<1>0. UNCHANGED <<cache, instant, returned>>
  BY DEF ProbeStarts, ProbeAnswers, ProbeFails, Unchanged
<1>1. CASE ProbeStarts
  <2>1. \E p : discovery' = [discovery EXCEPT !.running = @ \cup {p}]
    BY <1>1 DEF ProbeStarts
  <2>2. PICK running : discovery' = [discovery EXCEPT !.running = running]
    BY <2>1
  <2>3. discovery' = [pc |-> discovery.pc, application |-> discovery.application,
                  raw |-> discovery.raw, attempts |-> discovery.attempts,
                  answers |-> discovery.answers, running |-> running,
                  done |-> discovery.done, found |-> discovery.found]
    BY <2>2 DEF DiscoveryTyped
  <2> QED BY <1>0, <2>3, Proceeds DEF DiscoveryTyped, AnswersObserved, AskedFor, AllFaithful
<1>2. CASE ProbeAnswers
  <2>0. PICK p \in discovery.running :
          \E o \in Observations[p] : ProbeSettles(p, IF ObservationSound(o) THEN {o} ELSE {})
    BY <1>2 DEF ProbeAnswers
  <2>1. PICK o \in Observations[p] : ProbeSettles(p, IF ObservationSound(o) THEN {o} ELSE {})
    BY <2>0
  <2> DEFINE answer == IF ObservationSound(o) THEN {o} ELSE {}
  <2>2. answer \subseteq Observations[p] /\ ProbeSettles(p, answer)
    BY <2>1
  <2> HIDE DEF answer
  <2> QED BY <1>0, <2>2, ProbeSettlesInv
<1>3. CASE ProbeFails
  <2>1. PICK p : \/ discovery' = [discovery EXCEPT !.attempts[p] = @ + 1]
                 \/ ProbeSettles(p, {})
    BY <1>3 DEF ProbeFails
  <2>2. CASE ProbeSettles(p, {})
    BY <1>0, <2>2, ProbeSettlesInv
  <2>3. CASE discovery' = [discovery EXCEPT !.attempts[p] = @ + 1]
    <3>1. PICK attempts : discovery' = [discovery EXCEPT !.attempts = attempts]
      BY <2>3
    <3>2. discovery' = [pc |-> discovery.pc, application |-> discovery.application,
                  raw |-> discovery.raw, attempts |-> attempts,
                  answers |-> discovery.answers, running |-> discovery.running,
                  done |-> discovery.done, found |-> discovery.found]
      BY <3>1 DEF DiscoveryTyped
    <3> QED BY <1>0, <3>2, Proceeds DEF DiscoveryTyped, AnswersObserved, AskedFor, AllFaithful
  <2> QED BY <2>1, <2>2, <2>3
<1> QED BY <1>1, <1>2, <1>3

(* Of what was found, what is valid still is merged.                        *)
LEMMA ResolveInv == ASSUME DiscoveryInv, Resolve PROVE DiscoveryInv'
<1> USE DEF DiscoveryInv
<1> DEFINE d == Descriptor(discovery.application, Found)
<1>1. UNCHANGED <<cache, instant, returned>> /\ discovery.pc = "probe"
  BY DEF Resolve, Unchanged
<1>2. CASE Resolvable(discovery.application, Found) /\ d.until > instant
  <2>1. discovery' = [discovery EXCEPT !.pc = "write", !.found = d]
    BY <1>2 DEF Resolve
  <2>2. \A o \in Found : /\ o.until \in Nat
                         /\ \A k \in o.capabilities : k.rank \in Nat /\ k.state \in CapabilityStates
    BY DiscoveryAssumption DEF Found, AnswersObserved
  <2>3. /\ Faithful(d) /\ d.provider = Provider
        /\ d.application = discovery.application \/ discovery.application = "none"
    BY <1>2, <2>2, MergedIsFaithful
  <2> HIDE DEF d
  <2>4. discovery' = [pc |-> "write", application |-> discovery.application,
                  raw |-> discovery.raw, attempts |-> discovery.attempts,
                  answers |-> discovery.answers, running |-> discovery.running,
                  done |-> discovery.done, found |-> d]
    BY <2>1 DEF DiscoveryTyped
  <2> QED BY <1>1, <2>3, <2>4, Proceeds DEF DiscoveryTyped, AnswersObserved, AskedFor, AllFaithful
<1>3. CASE ~(Resolvable(discovery.application, Found) /\ d.until > instant)
  BY <1>1, <1>3, GivesUp DEF Resolve
<1> QED BY <1>2, <1>3

(* A descriptor is returned only while it is valid.                         *)
LEMMA AfterWriteInv == ASSUME DiscoveryInv, AfterWrite PROVE DiscoveryInv'
<1> USE DEF DiscoveryInv
<1>1. UNCHANGED <<cache, instant>> /\ discovery.pc = "written"
  BY DEF AfterWrite
<1>2. CASE discovery.found.until > instant
  <2>1. Return(discovery.found)
    BY <1>2 DEF AfterWrite
  <2> QED BY <1>1, <1>2, <2>1, ReturnResolved DEF AllFaithful, AskedFor
<1>3. CASE ~(discovery.found.until > instant)
  <2>1. discovery' = [discovery EXCEPT !.pc = "dropAfter"] /\ returned' = returned
    BY <1>3 DEF AfterWrite
  <2>2. discovery' = [pc |-> "dropAfter", application |-> discovery.application,
                  raw |-> discovery.raw, attempts |-> discovery.attempts,
                  answers |-> discovery.answers, running |-> discovery.running,
                  done |-> discovery.done, found |-> discovery.found]
    BY <2>1 DEF DiscoveryTyped
  <2> QED BY <1>1, <2>1, <2>2, Proceeds DEF DiscoveryTyped, AnswersObserved, AskedFor, AllFaithful
<1> QED BY <1>2, <1>3

(* Time and other discoveries.                                              *)
LEMMA AroundDiscovery ==
  ASSUME DiscoveryInv, DiscoveryAborted \/ TimePasses \/ UNCHANGED discoveryVars
  PROVE  DiscoveryInv'
<1>1. CASE DiscoveryAborted
  BY <1>1, GivesUp DEF DiscoveryAborted
<1>2. CASE TimePasses \/ UNCHANGED discoveryVars
  BY <1>2 DEF TimePasses, discoveryVars, DiscoveryInv, DiscoveryTyped, AnswersObserved, AllFaithful,
     AskedFor, ResolvedIsCurrent
<1> QED BY <1>1, <1>2

(* Every descriptor there is, in hand, cached or returned, says no more than   *)
(* the observations it was merged from.                                     *)
THEOREM DiscoveryInvariant == DiscoverySpec => []DiscoveryInv
<1>1. DiscoveryInv /\ [DiscoveryNext]_discoveryVars => DiscoveryInv'
  BY CacheSteps, CacheWrites, ProbeSteps, ResolveInv, AfterWriteInv, AroundDiscovery
  DEF DiscoveryNext
<1> QED BY <1>1, DiscoveryInitInv, PTL DEF DiscoverySpec

(* A descriptor returned is of the provider and the application asked for,     *)
(* whatever the cache holds under their key; every observation merged into it *)
(* is valid still, and none of the highest rank denies what it calls          *)
(* supported (discoverRecommendationProviderCapabilities).            *)
THEOREM DiscoveryResolvedIsCurrent == DiscoverySpec => []ResolvedIsCurrent
<1>1. DiscoveryInv => ResolvedIsCurrent
  BY DEF DiscoveryInv
<1> QED BY <1>1, DiscoveryInvariant, PTL

-----------------------------------------------------------------------------
(* Eligibility: what was asked stands against the subject no longer.        *)

(* Everything that may be said of an account.                               *)
AllMarks == AccountMarks \cup Restrictions \cup PolicyMarks

(* What is said of everybody is of the kinds there are.                     *)
WorldSound(w) ==
  /\ w = [id \in DOMAIN w |-> w[id]]
  /\ \A id \in DOMAIN w :
       w[id] = [movedTo |-> w[id].movedTo, marks |-> w[id].marks, activity |-> w[id].activity]
  /\ Accounts \subseteq DOMAIN w
  /\ \A id \in DOMAIN w :
       /\ w[id].marks \subseteq AllMarks
       /\ w[id].movedTo \in Accounts \cup {Nobody}
       /\ id \notin Accounts => Against(w[id]) \subseteq PolicyMarks
  /\ \A c \in Candidates :
       CheapReasons(c) = {} => c.id \in DOMAIN w /\ (c.kind = "account" <=> c.id \in Accounts)

(* The types of the parts the proofs speak of.                              *)
EvaluationTyped ==
  /\ evaluation = [pc |-> evaluation.pc, candidate |-> evaluation.candidate,
                   reference |-> evaluation.reference, visited |-> evaluation.visited,
                   resolved |-> evaluation.resolved]
  /\ evaluation.pc \in {"off", "resolve", "account", "provider", "viewer"}
  /\ standing = [id \in DOMAIN world |-> standing[id]]

(* What has stood ever since stands now.                                    *)
StandingStands == \A id \in DOMAIN world : standing[id] \subseteq Against(world[id])

(* What the questions asked so far would have found.                        *)
Looked == AccountMarks \cup {"moved", "inactive"}
(* The marks a subject cannot have that got as far as this question.        *)
Excluded(pc) ==
  CASE pc = "account" -> Looked
    [] pc = "provider" -> Looked \cup Restrictions
    [] pc = "viewer" -> Looked \cup Restrictions \cup {"refused"}
    [] OTHER -> {}

(* Nothing the answered questions were about has stood against the subject   *)
(* all along.                                                               *)
QuestionsAnswered ==
  evaluation.pc # "off" =>
    /\ verdict = NoVerdict
    /\ evaluation.pc = "resolve" => evaluation.reference \in Accounts
    /\ evaluation.pc # "resolve" =>
         /\ SubjectOf(evaluation) \in DOMAIN world
         /\ evaluation.pc = "account" => evaluation.resolved \in Accounts
         /\ standing[SubjectOf(evaluation)] \cap Excluded(evaluation.pc) = {}

(* Whoever was recommended is known.                                        *)
VerdictStands == verdict.reasons = {} => verdict.subject \in DOMAIN world

(* The inductive invariant.                                                 *)
EligibilityInv ==
  /\ WorldSound(world) /\ EvaluationTyped /\ StandingStands /\ QuestionsAnswered
  /\ VerdictStands /\ ServedOnCurrentIdentity

-----------------------------------------------------------------------------
(* Nothing is asked, and nobody answered for, at the start.                 *)
LEMMA EligibilityInitInv == EligibilityInit => EligibilityInv
<1> SUFFICES ASSUME EligibilityInit PROVE EligibilityInv
  OBVIOUS
<1>1. world \in Worlds
  BY DEF EligibilityInit
<1>2. WorldSound(world)
  BY <1>1, WorldAssumption DEF WorldSound, AllMarks
<1>3. verdict = NoVerdict /\ verdict.reasons # {} /\ evaluation = Resting
  BY DEF EligibilityInit, NoVerdict
<1> QED BY <1>2, <1>3 DEF EligibilityInit, EligibilityInv, EvaluationTyped, StandingStands,
     QuestionsAnswered, VerdictStands, ServedOnCurrentIdentity, Resting

(* A new evaluation is judged by the candidate alone, or begins its         *)
(* questions.                                                               *)
LEMMA EvaluationInv == ASSUME EligibilityInv, Evaluation PROVE EligibilityInv'
<1>1. PICK c \in Candidates :
        IF CheapReasons(c) # {}
        THEN /\ verdict' = [candidate |-> c.id, subject |-> c.id, reasons |-> CheapReasons(c)]
             /\ UNCHANGED evaluation
        ELSE /\ evaluation' = [Resting EXCEPT !.candidate = c.id, !.reference = c.id,
                                 !.pc = IF c.kind = "account" THEN "resolve" ELSE "provider"]
             /\ verdict' = NoVerdict
  BY DEF Evaluation
<1>2. /\ evaluation.pc = "off" /\ world' = world
      /\ standing' = [id \in DOMAIN world |-> Against(world[id])]
  BY DEF Evaluation
<1>3. WorldSound(world)' /\ StandingStands'
  BY <1>2 DEF EligibilityInv, StandingStands, WorldSound
<1>4. CASE CheapReasons(c) # {}
  <2>1. verdict'.reasons # {} /\ evaluation' = evaluation
    BY <1>1, <1>4
  <2> QED BY <1>2, <1>3, <2>1 DEF EligibilityInv, EvaluationTyped, QuestionsAnswered,
       VerdictStands, ServedOnCurrentIdentity
<1>5. CASE CheapReasons(c) = {}
  <2>1. /\ evaluation' = [pc |-> IF c.kind = "account" THEN "resolve" ELSE "provider",
                          candidate |-> c.id, reference |-> c.id, visited |-> {},
                          resolved |-> Nobody]
        /\ verdict' = NoVerdict
    BY <1>1, <1>5 DEF Resting
  <2>2. c.id \in DOMAIN world /\ (c.kind = "account" <=> c.id \in Accounts)
    BY <1>5 DEF EligibilityInv, WorldSound
  <2>3. SubjectOf(evaluation)' = c.id
    BY <2>1 DEF SubjectOf
  <2>4. c.kind # "account" => standing'[c.id] \subseteq PolicyMarks
    BY <1>2, <2>2 DEF EligibilityInv, WorldSound
  <2>5. PolicyMarks \cap (Looked \cup Restrictions) = {}
    BY DEF PolicyMarks, Looked, Restrictions, AccountMarks
  <2>6. Excluded("provider") = Looked \cup Restrictions
    BY DEF Excluded
  <2>7. verdict'.reasons # {}
    BY <2>1 DEF NoVerdict
  <2>8. EvaluationTyped'
    BY <1>2, <2>1 DEF EvaluationTyped
  <2>9. QuestionsAnswered'
    <3>1. CASE c.kind = "account"
      BY <2>1, <2>2, <3>1 DEF QuestionsAnswered
    <3>2. CASE c.kind # "account"
      <4>1. evaluation'.pc = "provider"
        BY <2>1, <3>2
      <4>2. standing'[c.id] \cap Excluded("provider") = {}
        BY <2>4, <2>5, <2>6, <3>2
      <4> QED BY <1>2, <2>1, <2>2, <2>3, <4>1, <4>2 DEF QuestionsAnswered
    <3> QED BY <3>1, <3>2
  <2> QED BY <1>3, <2>7, <2>8, <2>9 DEF EligibilityInv, VerdictStands, ServedOnCurrentIdentity
<1> QED BY <1>4, <1>5

(* An answer with a reason ends the evaluation, and recommends nobody.       *)
LEMMA RefusedInv ==
  ASSUME EligibilityInv, UNCHANGED <<world, standing>>, NEW reasons, reasons # {}, Answer(reasons)
  PROVE  EligibilityInv'
<1>1. verdict'.reasons # {} /\ evaluation' = Resting
  BY DEF Answer
<1> QED BY <1>1 DEF EligibilityInv, EvaluationTyped, QuestionsAnswered, VerdictStands,
     ServedOnCurrentIdentity, Resting, StandingStands, WorldSound

(* A policy that finds no mark leaves none of its marks standing.           *)
LEMMA MarkedIsAgainst ==
  ASSUME EligibilityInv, evaluation.pc \in {"account", "provider", "viewer"},
         NEW marks, marks \cap {"moved", "inactive"} = {}, Marked(marks) = {}
  PROVE  standing[SubjectOf(evaluation)] \cap marks = {}
<1>1. standing[SubjectOf(evaluation)] \subseteq Against(world[SubjectOf(evaluation)])
  BY DEF EligibilityInv, StandingStands, QuestionsAnswered
<1> QED BY <1>1 DEF Marked, Against

(* A question that was passed leads to the next one.                        *)
LEMMA NextQuestionInv ==
  ASSUME EligibilityInv, UNCHANGED <<world, standing, verdict>>,
         evaluation.pc \in {"account", "provider"}, NEW pc \in {"provider", "viewer"},
         evaluation' = [evaluation EXCEPT !.pc = pc],
         standing[SubjectOf(evaluation)] \cap Excluded(pc) = {}
  PROVE  EligibilityInv'
<1>1. evaluation' = [pc |-> pc, candidate |-> evaluation.candidate,
                     reference |-> evaluation.reference, visited |-> evaluation.visited,
                     resolved |-> evaluation.resolved]
  BY DEF EligibilityInv, EvaluationTyped
<1>2. SubjectOf(evaluation)' = SubjectOf(evaluation)
  BY <1>1 DEF SubjectOf
<1>3. EvaluationTyped'
  BY <1>1 DEF EvaluationTyped, EligibilityInv
<1>4. QuestionsAnswered'
  BY <1>1, <1>2 DEF QuestionsAnswered, EligibilityInv
<1> QED BY <1>3, <1>4 DEF EligibilityInv, VerdictStands, ServedOnCurrentIdentity, StandingStands,
     WorldSound

(* Following a move reaches an account that is checked like the one before  *)
(* it.                                                                      *)
LEMMA HopInv == ASSUME EligibilityInv, Hop PROVE EligibilityInv'
<1> DEFINE reference == evaluation.reference
           profile == world[reference]
<1>1. evaluation.pc = "resolve" /\ UNCHANGED <<world, standing>> /\ reference \in Accounts
  BY DEF Hop, EligibilityInv, QuestionsAnswered
<1>2. CASE verdict' # verdict
  <2>1. \E reasons : reasons # {} /\ Answer(reasons)
    <3>1. CASE "unknown" \in profile.marks
      BY <3>1 DEF Hop
    <3>2. CASE "unknown" \notin profile.marks /\ profile.movedTo # Nobody
      BY <1>2, <3>2 DEF Hop
    <3>3. CASE "unknown" \notin profile.marks /\ profile.movedTo = Nobody
      BY <1>2, <3>3 DEF Hop
    <3> QED BY <3>1, <3>2, <3>3
  <2> QED BY <1>1, <2>1, RefusedInv
<1>3. CASE verdict' = verdict
  <2>0. \A reasons : ~Answer(reasons) \/ reasons = {} \/ EligibilityInv'
    BY <1>1, RefusedInv
  <2>1. CASE "unknown" \in profile.marks
    BY <2>0, <2>1 DEF Hop
  <2>2. CASE "unknown" \notin profile.marks /\ profile.movedTo # Nobody
    <3>1. CASE Cardinality(evaluation.visited) = MaxMoves
      BY <2>0, <2>2, <3>1 DEF Hop
    <3>2. CASE Cardinality(evaluation.visited) # MaxMoves
      <4>1. evaluation' = [evaluation EXCEPT !.visited = @ \cup {reference},
                                             !.reference = profile.movedTo]
        BY <2>2, <3>2 DEF Hop
      <4>2. evaluation' = [pc |-> "resolve", candidate |-> evaluation.candidate,
                           reference |-> profile.movedTo,
                           visited |-> evaluation.visited \cup {reference},
                           resolved |-> evaluation.resolved]
        BY <1>1, <4>1 DEF EligibilityInv, EvaluationTyped
      <4>3. profile.movedTo \in Accounts
        BY <1>1, <2>2 DEF EligibilityInv, WorldSound
      <4> QED BY <1>1, <1>3, <4>2, <4>3 DEF EligibilityInv, EvaluationTyped, QuestionsAnswered,
           VerdictStands, ServedOnCurrentIdentity, StandingStands, WorldSound
    <3> QED BY <3>1, <3>2
  <2>3. CASE "unknown" \notin profile.marks /\ profile.movedTo = Nobody
    <3>1. CASE AccountReason(profile) # "eligible"
      BY <2>0, <2>3, <3>1 DEF Hop
    <3>2. CASE AccountReason(profile) = "eligible"
      <4>1. evaluation' = [evaluation EXCEPT !.pc = "account", !.resolved = reference]
        BY <2>3, <3>2 DEF Hop
      <4>2. evaluation' = [pc |-> "account", candidate |-> evaluation.candidate,
                           reference |-> evaluation.reference,
                           visited |-> evaluation.visited, resolved |-> reference]
        BY <1>1, <4>1 DEF EligibilityInv, EvaluationTyped
      <4>3. SubjectOf(evaluation)' = reference /\ reference # Nobody
        BY <1>1, <4>2, WorldAssumption DEF SubjectOf
      <4>4. reference \in DOMAIN world
        BY <1>1 DEF EligibilityInv, WorldSound
      <4>5. standing[reference] \subseteq Against(profile)
        BY <4>4 DEF EligibilityInv, StandingStands
      <4>6. Against(profile) \cap Looked = {}
        <5>1. /\ "deleted" \notin profile.marks /\ "deactivated" \notin profile.marks
              /\ "suspended" \notin profile.marks /\ ~(profile.activity > EvaluatedAt)
              /\ ~(EvaluatedAt - profile.activity > Window)
          BY <3>2 DEF AccountReason
        <5>2. Against(profile) = profile.marks
          BY <2>3, <5>1 DEF Against
        <5>3. profile.marks \subseteq AllMarks
          BY <4>4 DEF EligibilityInv, WorldSound
        <5> QED BY <2>3, <5>1, <5>2, <5>3 DEF Looked, AccountMarks, AllMarks, Restrictions, PolicyMarks
      <4>7. Excluded("account") = Looked
        BY DEF Excluded
      <4>8. QuestionsAnswered'
        BY <1>1, <1>3, <4>2, <4>3, <4>4, <4>5, <4>6, <4>7 DEF QuestionsAnswered, EligibilityInv
      <4> QED BY <1>1, <1>3, <4>2, <4>8 DEF EligibilityInv, EvaluationTyped,
           VerdictStands, ServedOnCurrentIdentity, StandingStands, WorldSound
    <3> QED BY <3>1, <3>2
  <2> QED BY <2>1, <2>2, <2>3
<1> QED BY <1>2, <1>3

(* Each policy is asked about the subject, and answers or passes on.        *)
LEMMA PoliciesInv ==
  ASSUME EligibilityInv, MoveLoop \/ AccountPolicy \/ ProviderPolicy \/ ViewerSafety
  PROVE  EligibilityInv'
<1>0. UNCHANGED <<world, standing>>
  BY DEF MoveLoop, AccountPolicy, ProviderPolicy, ViewerSafety
<1>1. CASE MoveLoop
  <2>1. Answer({"account_move_loop"}) /\ {"account_move_loop"} # {}
    BY <1>1 DEF MoveLoop
  <2> QED BY <1>0, <2>1, RefusedInv
<1>2. CASE AccountPolicy
  <2>1. evaluation.pc = "account"
    BY <1>2 DEF AccountPolicy
  <2>2. CASE Marked(Restrictions) # {}
    BY <1>0, <1>2, <2>2, RefusedInv DEF AccountPolicy
  <2>3. CASE Marked(Restrictions) = {}
    <3>1. Restrictions \cap {"moved", "inactive"} = {}
      BY DEF Restrictions
    <3>2. standing[SubjectOf(evaluation)] \cap Restrictions = {}
      BY <2>1, <2>3, <3>1, MarkedIsAgainst
    <3>3. standing[SubjectOf(evaluation)] \cap Looked = {}
      BY <2>1 DEF EligibilityInv, QuestionsAnswered, Excluded
    <3>4. standing[SubjectOf(evaluation)] \cap Excluded("provider") = {}
      BY <3>2, <3>3 DEF Excluded
    <3> QED BY <1>0, <1>2, <2>1, <2>3, <3>4, NextQuestionInv DEF AccountPolicy
  <2> QED BY <2>2, <2>3
<1>3. CASE ProviderPolicy
  <2>1. evaluation.pc = "provider"
    BY <1>3 DEF ProviderPolicy
  <2>2. CASE Marked({"refused"}) # {}
    BY <1>0, <1>3, <2>2, RefusedInv DEF ProviderPolicy
  <2>3. CASE Marked({"refused"}) = {}
    <3>2. standing[SubjectOf(evaluation)] \cap {"refused"} = {}
      BY <2>1, <2>3, MarkedIsAgainst
    <3>3. standing[SubjectOf(evaluation)] \cap (Looked \cup Restrictions) = {}
      BY <2>1 DEF EligibilityInv, QuestionsAnswered, Excluded
    <3>4. standing[SubjectOf(evaluation)] \cap Excluded("viewer") = {}
      BY <3>2, <3>3 DEF Excluded
    <3> QED BY <1>0, <1>3, <2>1, <2>3, <3>4, NextQuestionInv DEF ProviderPolicy
  <2> QED BY <2>2, <2>3
<1>4. CASE ViewerSafety
  <2>1. evaluation.pc = "viewer"
    BY <1>4 DEF ViewerSafety
  <2>2. CASE Marked({"blocked"}) # {}
    BY <1>0, <1>4, <2>2, RefusedInv DEF ViewerSafety
  <2>3. CASE Marked({"blocked"}) = {}
    <3>1. Answer({})
      BY <1>4, <2>3 DEF ViewerSafety
    <3>2. verdict'.subject = SubjectOf(evaluation) /\ evaluation' = Resting
      BY <3>1 DEF Answer, SubjectOf
    <3>3. standing[SubjectOf(evaluation)] \cap {"blocked"} = {}
      BY <2>1, <2>3, MarkedIsAgainst
    <3>4. standing[SubjectOf(evaluation)] \cap (Looked \cup Restrictions \cup {"refused"}) = {}
      BY <2>1 DEF EligibilityInv, QuestionsAnswered, Excluded
    <3>5. SubjectOf(evaluation) \in DOMAIN world
      BY <2>1 DEF EligibilityInv, QuestionsAnswered
    <3>6. Against(world[SubjectOf(evaluation)]) \subseteq AllMarks \cup {"moved", "inactive"}
      BY <3>5 DEF EligibilityInv, WorldSound, Against
    <3>7. standing[SubjectOf(evaluation)] = {}
      BY <3>3, <3>4, <3>5, <3>6 DEF EligibilityInv, StandingStands, AllMarks, Looked, PolicyMarks
    <3> QED BY <1>0, <3>2, <3>5, <3>7 DEF EligibilityInv, EvaluationTyped, QuestionsAnswered,
         VerdictStands, ServedOnCurrentIdentity, Resting, StandingStands, WorldSound
  <2> QED BY <2>2, <2>3
<1> QED BY <1>1, <1>2, <1>3, <1>4

(* An evaluation cut short recommends nobody.                               *)
LEMMA InterruptedInv ==
  ASSUME EligibilityInv, Incomplete \/ EvaluationAborted PROVE EligibilityInv'
<1>1. CASE Incomplete
  <2>1. UNCHANGED <<world, standing>> /\ \E reasons : reasons # {} /\ Answer(reasons)
    BY <1>1 DEF Incomplete
  <2> QED BY <2>1, RefusedInv
<1>2. CASE EvaluationAborted
  <2>1. evaluation.pc # "off" /\ evaluation' = Resting /\ UNCHANGED <<world, standing, verdict>>
    BY <1>2 DEF EvaluationAborted
  <2>2. verdict.reasons # {}
    BY <2>1 DEF EligibilityInv, QuestionsAnswered, NoVerdict
  <2> QED BY <2>1, <2>2 DEF EligibilityInv, EvaluationTyped, QuestionsAnswered, VerdictStands,
       ServedOnCurrentIdentity, Resting, StandingStands, WorldSound
<1> QED BY <1>1, <1>2

(* Whatever the accounts do, what has stood all along only becomes less.     *)
LEMMA WorldChangesInv == ASSUME EligibilityInv, WorldChanges PROVE EligibilityInv'
<1>1. UNCHANGED <<evaluation, verdict>> /\
      standing' = [id \in DOMAIN world |-> standing[id] \cap Against(world'[id])]
  BY DEF WorldChanges
<1>2. DOMAIN world' = DOMAIN world /\ WorldSound(world')
  <2>1. CASE \E id \in DOMAIN world, mark \in Marks :
               /\ id \in Accounts \/ mark \in {"refused", "blocked"}
               /\ world' = [world EXCEPT ![id].marks =
                              IF mark \in @ THEN @ \ {mark} ELSE @ \cup {mark}]
    <3>1. PICK id \in DOMAIN world, mark \in Marks :
               /\ id \in Accounts \/ mark \in {"refused", "blocked"}
               /\ world' = [world EXCEPT ![id].marks =
                              IF mark \in @ THEN @ \ {mark} ELSE @ \cup {mark}]
      BY <2>1
    <3> DEFINE marks == IF mark \in world[id].marks THEN world[id].marks \ {mark}
                        ELSE world[id].marks \cup {mark}
               changed == [movedTo |-> world[id].movedTo, marks |-> marks,
                           activity |-> world[id].activity]
    <3>2. /\ DOMAIN world' = DOMAIN world /\ world' = [x \in DOMAIN world' |-> world'[x]]
          /\ world'[id] = [world[id] EXCEPT !.marks = marks]
          /\ \A x \in DOMAIN world \ {id} : world'[x] = world[x]
      BY <3>1 DEF EligibilityInv, WorldSound
    <3>3. world'[id] = changed
      BY <3>2 DEF EligibilityInv, WorldSound
    <3>4. marks \subseteq AllMarks
      BY WorldAssumption DEF EligibilityInv, WorldSound, AllMarks
    <3>5. id \notin Accounts => Against(changed) \subseteq PolicyMarks
      BY <3>1 DEF EligibilityInv, WorldSound, Against, PolicyMarks
    <3>6. changed.marks = marks /\ changed.movedTo = world[id].movedTo
      OBVIOUS
    <3>7. changed = [movedTo |-> changed.movedTo, marks |-> changed.marks,
                     activity |-> changed.activity]
      OBVIOUS
    <3> HIDE DEF changed, marks
    <3> QED BY <3>2, <3>3, <3>4, <3>5, <3>6, <3>7 DEF EligibilityInv, WorldSound
  <2>2. CASE \E id, to \in Accounts : world' = [world EXCEPT ![id].movedTo = to]
    <3>1. PICK id \in Accounts, to \in Accounts : world' = [world EXCEPT ![id].movedTo = to]
      BY <2>2
    <3> DEFINE changed == [movedTo |-> to, marks |-> world[id].marks,
                           activity |-> world[id].activity]
    <3>2. /\ DOMAIN world' = DOMAIN world /\ world' = [x \in DOMAIN world' |-> world'[x]]
          /\ id \in DOMAIN world
          /\ world'[id] = [world[id] EXCEPT !.movedTo = to]
          /\ \A x \in DOMAIN world \ {id} : world'[x] = world[x]
      BY <3>1 DEF EligibilityInv, WorldSound
    <3>3. world'[id] = changed
      BY <3>2 DEF EligibilityInv, WorldSound
    <3>6. changed.marks = world[id].marks /\ changed.movedTo = to
      OBVIOUS
    <3>7. changed = [movedTo |-> changed.movedTo, marks |-> changed.marks,
                     activity |-> changed.activity]
      OBVIOUS
    <3> HIDE DEF changed
    <3> QED BY <3>1, <3>2, <3>3, <3>6, <3>7 DEF EligibilityInv, WorldSound
  <2> QED BY <2>1, <2>2 DEF WorldChanges
<1>3. \A id \in DOMAIN world : standing'[id] \subseteq standing[id] /\ standing'[id] \subseteq Against(world'[id])
  BY <1>1
<1>4. EvaluationTyped' /\ StandingStands'
  BY <1>1, <1>2, <1>3 DEF EligibilityInv, EvaluationTyped, StandingStands
<1>5. SubjectOf(evaluation)' = SubjectOf(evaluation)
  BY <1>1 DEF SubjectOf
<1>6. QuestionsAnswered'
  BY <1>1, <1>2, <1>3, <1>5 DEF EligibilityInv, QuestionsAnswered
<1>7. VerdictStands' /\ ServedOnCurrentIdentity'
  BY <1>1, <1>2, <1>3 DEF EligibilityInv, VerdictStands, ServedOnCurrentIdentity
<1> QED BY <1>2, <1>4, <1>6, <1>7 DEF EligibilityInv

(* Eligibility keeps its invariant: whatever still stands against an        *)
(* account is among its marks, and a question that was passed excludes the  *)
(* marks it asks about from those standing against the subject.             *)
THEOREM EligibilityInvariant == EligibilitySpec => []EligibilityInv
<1>1. EligibilityInv /\ [EligibilityNext]_eligibilityVars => EligibilityInv'
  <2> SUFFICES ASSUME EligibilityInv, [EligibilityNext]_eligibilityVars PROVE EligibilityInv'
    OBVIOUS
  <2>1. CASE UNCHANGED eligibilityVars
    BY <2>1 DEF eligibilityVars, EligibilityInv, EvaluationTyped, QuestionsAnswered, VerdictStands,
       ServedOnCurrentIdentity, StandingStands, WorldSound
  <2> QED BY <2>1, EvaluationInv, HopInv, PoliciesInv, InterruptedInv, WorldChangesInv
       DEF EligibilityNext
<1> QED BY <1>1, EligibilityInitInv, PTL DEF EligibilitySpec

(* Nobody is recommended against whom something stood all through the       *)
(* evaluation, though the candidate was named by an account that moved, and *)
(* moved again, while the policies were asked.                              *)
THEOREM EligibilityServedOnCurrentIdentity == EligibilitySpec => []ServedOnCurrentIdentity
<1>1. EligibilityInv => ServedOnCurrentIdentity
  BY DEF EligibilityInv
<1> QED BY <1>1, EligibilityInvariant, PTL

-----------------------------------------------------------------------------
(* What the definitions and policies say does not depend on their order.     *)

(* A listing of the elements of a list in which no element comes twice.      *)
Relisted(list, es) ==
  /\ es \in Seq(Range(list)) /\ Len(es) = Len(list) /\ Range(es) = Range(list)
  /\ \A i, j \in DOMAIN es : es[i] = es[j] => i = j

(* The first of some places is one of them.                                 *)
LEMMA FirstIsOne ==
  ASSUME NEW S \in SUBSET Nat, S # {} PROVE FirstOf(S) \in S
<1>1. \E n \in S : \A m \in S : n <= m
  BY LeastElement
<1> QED BY <1>1 DEF FirstOf

(* A list with as many names as elements has no name twice.                  *)
LEMMA NamesUnique ==
  ASSUME NEW n \in Nat, NEW names, names \in [1 .. n -> Range(names)], Cardinality(Range(names)) = n
  PROVE  \A i, j \in 1 .. n : names[i] = names[j] => i = j
<1>1. names \in Surjection(1 .. n, Range(names))
  BY DEF Surjection, Range
<1>2. IsFiniteSet(1 .. n) /\ Cardinality(1 .. n) = n
  <2>1. 1 \in Int /\ n \in Int
    OBVIOUS
  <2> QED BY <2>1, FS_Interval
<1>3. names \in Injection(1 .. n, Range(names))
  BY <1>1, <1>2, FS_Surjection
<1> QED BY <1>3 DEF Injection, IsInjective

(* ... and the other way round.                                             *)
LEMMA UniqueNames ==
  ASSUME NEW n \in Nat, NEW names, names \in [1 .. n -> Range(names)],
         \A i, j \in 1 .. n : names[i] = names[j] => i = j
  PROVE  IsFiniteSet(Range(names)) /\ Cardinality(Range(names)) = n
<1>1. names \in Bijection(1 .. n, Range(names))
  BY DEF Bijection, Injection, Surjection, IsInjective, Range
<1>2. IsFiniteSet(1 .. n) /\ Cardinality(1 .. n) = n
  <2>1. 1 \in Int /\ n \in Int
    OBVIOUS
  <2> QED BY <2>1, FS_Interval
<1> QED BY <1>1, <1>2, FS_Bijection DEF ExistsBijection

(* IdsUnique counts the ids: as many as elements, when no id comes twice.   *)
LEMMA UniqueIds ==
  ASSUME NEW list, list \in Seq(Range(list))
  PROVE  IdsUnique(list) <=> \A i, j \in DOMAIN list : list[i].id = list[j].id => i = j
<1> DEFINE n == Len(list)
           names == [i \in 1 .. n |-> list[i].id]
<1>1. n \in Nat /\ DOMAIN list = 1 .. n
  OBVIOUS
<1>2. Range(names) = {list[i].id : i \in DOMAIN list} /\ names \in [1 .. n -> Range(names)]
  BY <1>1 DEF Range
<1>3. (Cardinality(Range(names)) = n) <=> \A i, j \in 1 .. n : names[i] = names[j] => i = j
  <2> HIDE DEF names, n
  <2> QED BY <1>1, <1>2, NamesUnique, UniqueNames
<1> QED BY <1>1, <1>2, <1>3 DEF IdsUnique

(* ... and the kinds likewise.                                              *)
LEMMA UniqueKinds ==
  ASSUME NEW list, list \in Seq(Range(list))
  PROVE  Cardinality({list[i].kind : i \in DOMAIN list}) = Len(list)
           <=> \A i, j \in DOMAIN list : list[i].kind = list[j].kind => i = j
<1> DEFINE n == Len(list)
           names == [i \in 1 .. n |-> list[i].kind]
<1>1. n \in Nat /\ DOMAIN list = 1 .. n
  OBVIOUS
<1>2. Range(names) = {list[i].kind : i \in DOMAIN list} /\ names \in [1 .. n -> Range(names)]
  BY <1>1 DEF Range
<1>3. (Cardinality(Range(names)) = n) <=> \A i, j \in 1 .. n : names[i] = names[j] => i = j
  <2> HIDE DEF names, n
  <2> QED BY <1>1, <1>2, NamesUnique, UniqueNames
<1> QED BY <1>1, <1>2, <1>3

(* The listings of a list whose elements have ids of their own.              *)
LEMMA ListingsRelist ==
  ASSUME NEW list, list \in Seq(Range(list)), IdsUnique(list), NEW es \in SetToSeqs(Range(list))
  PROVE  Relisted(list, es)
<1> DEFINE n == Len(list)
<1>1. n \in Nat /\ list \in [1 .. n -> Range(list)]
  OBVIOUS
<1>2. \A i, j \in 1 .. n : list[i] = list[j] => i = j
  BY <1>1, UniqueIds
<1>3. IsFiniteSet(Range(list)) /\ Cardinality(Range(list)) = n
  BY <1>1, <1>2, UniqueNames
<1>4. es \in [1 .. n -> Range(list)] /\ \A i, j \in 1 .. n : i # j => es[i] # es[j]
  BY <1>3 DEF SetToSeqs
<1>5. es \in Injection(1 .. n, Range(list))
  BY <1>4 DEF Injection, IsInjective
<1>6. IsFiniteSet(1 .. n) /\ Cardinality(1 .. n) = n
  <2>1. 1 \in Int /\ n \in Int
    BY <1>1
  <2> HIDE DEF n
  <2> QED BY <1>1, <2>1, FS_Interval
<1>7. es \in Surjection(1 .. n, Range(list))
  <2> HIDE DEF n
  <2> QED BY <1>3, <1>5, <1>6, FS_Injection
<1>8. Range(es) = Range(list)
  BY <1>4, <1>7 DEF Surjection, Range
<1>9. es \in Seq(Range(list)) /\ Len(es) = n
  BY <1>1, <1>4
<1> QED BY <1>4, <1>8, <1>9 DEF Relisted

(* A listing has the elements of the list, and its ids and kinds.           *)
LEMMA RelistedKeeps ==
  ASSUME NEW list, list \in Seq(Range(list)), NEW es, Relisted(list, es)
  PROVE  /\ es \in Seq(Range(es))
         /\ IdsUnique(list) => IdsUnique(es)
         /\ {es[i].kind : i \in DOMAIN es} = {list[i].kind : i \in DOMAIN list}
         /\ {es[i].id : i \in DOMAIN es} = {list[i].id : i \in DOMAIN list}
         /\ \A i \in DOMAIN es : \E j \in DOMAIN list : es[i] = list[j]
         /\ \A j \in DOMAIN list : \E i \in DOMAIN es : es[i] = list[j]
<1>1. \A i \in DOMAIN es : \E j \in DOMAIN list : es[i] = list[j]
  BY DEF Relisted, Range
<1>2. \A j \in DOMAIN list : \E i \in DOMAIN es : es[i] = list[j]
  BY DEF Relisted, Range
<1>3. /\ {es[i].kind : i \in DOMAIN es} = {list[i].kind : i \in DOMAIN list}
      /\ {es[i].id : i \in DOMAIN es} = {list[i].id : i \in DOMAIN list}
  BY <1>1, <1>2
<1>4. es \in Seq(Range(es))
  BY DEF Relisted
<1>5. IdsUnique(list) => IdsUnique(es)
  BY <1>3 DEF IdsUnique, Relisted
<1> QED BY <1>1, <1>2, <1>3, <1>4, <1>5

-----------------------------------------------------------------------------
(* A definition of the list that matches, and none that matches is more specific.*)
Topmost(list, evidence, d) ==
  /\ DefinitionMatches(d, evidence)
  /\ \A j \in DOMAIN list :
       DefinitionMatches(list[j], evidence) => Specificity(list[j]) <= Specificity(d)

(* The most specific places are those of the topmost definitions.           *)
LEMMA MostSpecificIs ==
  ASSUME NEW list, NEW evidence
  PROVE  MostSpecific(list, evidence) = {i \in DOMAIN list : Topmost(list, evidence, list[i])}
  BY DEF MostSpecific, Topmost

(* What is selected of a list is selected of it however it is listed.        *)
LEMMA SelectOrderFree ==
  ASSUME NEW list, list \in Seq(Range(list)), NEW es, Relisted(list, es), NEW evidence
  PROVE  Select(es, evidence) = Select(list, evidence)
<1> DEFINE top == MostSpecific(list, evidence)
           uppermost == MostSpecific(es, evidence)
<1>1. /\ \A i \in DOMAIN es : \E j \in DOMAIN list : es[i] = list[j]
      /\ \A j \in DOMAIN list : \E i \in DOMAIN es : es[i] = list[j]
  BY RelistedKeeps
<1>2. \A d : Topmost(list, evidence, d) <=> Topmost(es, evidence, d)
  BY <1>1 DEF Topmost
<1>3. /\ \A i \in uppermost : \E j \in top : es[i] = list[j]
      /\ \A j \in top : \E i \in uppermost : es[i] = list[j]
  BY <1>1, <1>2, MostSpecificIs
<1>4. top \in SUBSET Nat /\ uppermost \in SUBSET Nat
  <2>1. DOMAIN list \subseteq Nat /\ DOMAIN es \subseteq Nat
    BY DEF Relisted
  <2> QED BY <2>1 DEF MostSpecific
<1> HIDE DEF top, uppermost
<1>5. CASE top = {}
  <2>1. uppermost = {}
    BY <1>3, <1>5
  <2> QED BY <1>5, <2>1 DEF Select, top, uppermost
<1>6. CASE top # {}
  <2>1. uppermost # {}
    BY <1>3, <1>6
  <2>2. FirstOf(top) \in top /\ FirstOf(uppermost) \in uppermost
    BY <1>4, <1>6, <2>1, FirstIsOne
  <2>3. (\E i \in top : list[i].kind # list[FirstOf(top)].kind)
          <=> (\E i \in uppermost : es[i].kind # es[FirstOf(uppermost)].kind)
    BY <1>3, <2>2
  <2>4. ~(\E i \in top : list[i].kind # list[FirstOf(top)].kind)
          => list[FirstOf(top)].kind = es[FirstOf(uppermost)].kind
    BY <1>3, <2>2
  <2>5. Select(list, evidence) = IF \E i \in top : list[i].kind # list[FirstOf(top)].kind THEN Throws
                                 ELSE Classified(list[FirstOf(top)])
    BY <1>6 DEF Select, top
  <2>6. Select(es, evidence) = IF \E i \in uppermost : es[i].kind # es[FirstOf(uppermost)].kind THEN Throws
                               ELSE Classified(es[FirstOf(uppermost)])
    BY <2>1 DEF Select, uppermost
  <2> QED BY <2>3, <2>4, <2>5, <2>6 DEF Classified
<1> QED BY <1>5, <1>6

(* Whether policies are sound does not depend on their order.               *)
LEMMA PoliciesOrderFree ==
  ASSUME NEW list, list \in Seq(Range(list)), NEW es, Relisted(list, es), IdsUnique(list)
  PROVE  PoliciesSound(es) <=> PoliciesSound(list)
<1>1. IdsUnique(es)
  BY RelistedKeeps
<1>2. Cardinality({es[i].kind : i \in DOMAIN es}) = Len(es)
        <=> Cardinality({list[i].kind : i \in DOMAIN list}) = Len(list)
  <2>1. {es[i].kind : i \in DOMAIN es} = {list[i].kind : i \in DOMAIN list} /\ Len(es) = Len(list)
    BY RelistedKeeps DEF Relisted
  <2> QED BY <2>1
<1>3. (\A i \in DOMAIN es : es[i].effect \in AllowedEffects(es[i].kind))
        <=> (\A i \in DOMAIN list : list[i].effect \in AllowedEffects(list[i].kind))
  BY RelistedKeeps
<1> QED BY <1>1, <1>2, <1>3 DEF PoliciesSound

(* The one policy for a kind is the same wherever it is listed.              *)
LEMMA EffectsOrderFree ==
  ASSUME NEW list, list \in Seq(Range(list)), NEW es, Relisted(list, es), IdsUnique(list),
         NEW classification
  PROVE  Effect(es, classification) = Effect(list, classification)
<1> DEFINE explicit == {i \in DOMAIN list : list[i].kind = classification.kind}
           stated == {i \in DOMAIN es : es[i].kind = classification.kind}
<1>1. PoliciesSound(es) <=> PoliciesSound(list)
  BY PoliciesOrderFree
<1>2. /\ \A i \in DOMAIN es : \E j \in DOMAIN list : es[i] = list[j]
      /\ \A j \in DOMAIN list : \E i \in DOMAIN es : es[i] = list[j]
  BY RelistedKeeps
<1>3. explicit = {} <=> stated = {}
  BY <1>2
<1>4. ASSUME PoliciesSound(list), explicit # {}
      PROVE  list[FirstOf(explicit)].effect = es[FirstOf(stated)].effect
  <2>1. \A i, j \in DOMAIN list : list[i].kind = list[j].kind => i = j
    BY <1>4, UniqueKinds DEF PoliciesSound
  <2>2. explicit \in SUBSET Nat /\ stated \in SUBSET Nat
    BY DEF Relisted
  <2>3. FirstOf(explicit) \in explicit /\ FirstOf(stated) \in stated
    <3> HIDE DEF explicit, stated
    <3> QED BY <1>3, <1>4, <2>2, FirstIsOne
  <2>4. PICK j \in DOMAIN list : es[FirstOf(stated)] = list[j]
    BY <1>2, <2>3
  <2>5. list[j].kind = list[FirstOf(explicit)].kind
    BY <2>3, <2>4
  <2>6. j = FirstOf(explicit)
    BY <2>1, <2>3, <2>5
  <2> QED BY <2>4, <2>6
<1>5. Effect(list, classification) =
        IF ~PoliciesSound(list) \/ classification.decision = "throws" THEN "throws"
        ELSE IF classification.decision = "unclassified" THEN "not_applicable"
        ELSE IF explicit = {} THEN DefaultEffect(classification.kind)
        ELSE list[FirstOf(explicit)].effect
  BY DEF Effect
<1>6. Effect(es, classification) =
        IF ~PoliciesSound(es) \/ classification.decision = "throws" THEN "throws"
        ELSE IF classification.decision = "unclassified" THEN "not_applicable"
        ELSE IF stated = {} THEN DefaultEffect(classification.kind)
        ELSE es[FirstOf(stated)].effect
  BY DEF Effect
<1> HIDE DEF explicit, stated
<1> QED BY <1>1, <1>3, <1>4, <1>5, <1>6

(* What a kind of definition may do is an interest for topics alone.         *)
LEMMA InterestsAreOfTopics ==
  ASSUME NEW kind \in SemanticKinds, NEW effect \in {"positive_interest", "negative_interest"},
         effect \in AllowedEffects(kind) \/ effect = DefaultEffect(kind)
  PROVE  kind = "topic_interest"
<1>1. CASE effect \in AllowedEffects(kind)
  BY <1>1 DEF AllowedEffects, SemanticKinds
<1>2. CASE effect = DefaultEffect(kind)
  BY <1>2 DEF DefaultEffect
<1> QED BY <1>1, <1>2

(* The effect of any evidence is that of the definitions and policies in    *)
(* any order.                                                               *)
LEMMA EffectOrderFreeHolds ==
  ASSUME NEW ds, ds \in Seq(Range(ds)), NEW ps, ps \in Seq(Range(ps)),
         \A d \in Range(ds) : d.kind \in SemanticKinds,
         \A p \in Range(ps) : p.kind \in SemanticKinds, NEW evidence
  PROVE  EffectOrderFree(ds, ps, evidence)
<1> DEFINE c == Classify(ds, evidence)
           effect == LabelEffect(ds, ps, evidence)
<1>1. ASSUME IdsUnique(ds), IdsUnique(ps), NEW es \in SetToSeqs(Range(ds)), NEW qs \in SetToSeqs(Range(ps))
      PROVE  LabelEffect(es, qs, evidence) = effect
  <2>1. Relisted(ds, es) /\ Relisted(ps, qs)
    BY <1>1, ListingsRelist
  <2>2. IdsUnique(es)
    BY <1>1, <2>1, RelistedKeeps
  <2>3. Classify(es, evidence) = c
    BY <1>1, <2>1, <2>2, SelectOrderFree DEF Classify
  <2>4. Effect(qs, c) = Effect(ps, c)
    BY <1>1, <2>1, EffectsOrderFree
  <2> QED BY <2>3, <2>4 DEF LabelEffect
<1>2. ASSUME effect \in {"positive_interest", "negative_interest"} PROVE c.kind = "topic_interest"
  <2> DEFINE explicit == {i \in DOMAIN ps : ps[i].kind = c.kind}
  <2>1. effect = IF ~PoliciesSound(ps) \/ c.decision = "throws" THEN "throws"
                 ELSE IF c.decision = "unclassified" THEN "not_applicable"
                 ELSE IF explicit = {} THEN DefaultEffect(c.kind) ELSE ps[FirstOf(explicit)].effect
    BY DEF LabelEffect, Effect
  <2> HIDE DEF effect, c
  <2>2. /\ PoliciesSound(ps) /\ c.decision # "throws" /\ c.decision # "unclassified"
        /\ effect = IF explicit = {} THEN DefaultEffect(c.kind) ELSE ps[FirstOf(explicit)].effect
    BY <1>2, <2>1
  <2>3. c.kind \in SemanticKinds
    <3> DEFINE top == MostSpecific(ds, evidence)
    <3>1. c = Select(ds, evidence)
      BY <2>2 DEF c, Classify, Throws
    <3>2. top # {} /\ c = Classified(ds[FirstOf(top)])
      BY <2>2, <3>1 DEF Select, Throws, Unclassified
    <3>3. top \in SUBSET Nat /\ top \subseteq DOMAIN ds
      BY DEF MostSpecific
    <3>4. FirstOf(top) \in DOMAIN ds
      <4> HIDE DEF top
      <4> QED BY <3>2, <3>3, FirstIsOne
    <3>5. ds[FirstOf(top)].kind \in SemanticKinds
      BY <3>4 DEF Range
    <3> QED BY <3>2, <3>5 DEF Classified
  <2>4. CASE explicit = {}
    BY <1>2, <2>2, <2>3, <2>4, InterestsAreOfTopics
  <2>5. CASE explicit # {}
    <3>1. explicit \in SUBSET Nat
      OBVIOUS
    <3>2. FirstOf(explicit) \in explicit
      <4> HIDE DEF explicit
      <4> QED BY <2>5, <3>1, FirstIsOne
    <3>3. effect \in AllowedEffects(c.kind)
      BY <2>2, <2>5, <3>2 DEF PoliciesSound
    <3> QED BY <1>2, <2>3, <3>3, InterestsAreOfTopics
  <2> QED BY <2>4, <2>5
<1> QED BY <1>1, <1>2 DEF EffectOrderFree

(* What a label from which a signal is derived means and does is the same   *)
(* however definitions and policies are listed, and only a label of a topic *)
(* is an interest (selectDefinition,                                        *)
(* evaluateRecommendationLabelEffectPolicy).                                *)
THEOREM LabelsEffectsOrderFree == LabelsSpec => []LabelEffectsOrderFree
<1>1. LabelEffectsOrderFree
  <2>1. \A lexicon \in Lexicons : \A evidence :
          EffectOrderFree(lexicon.definitions, lexicon.policies, evidence)
    BY LabelsAssumption, EffectOrderFreeHolds
  <2> QED BY <2>1 DEF LabelEffectsOrderFree
<1> QED BY <1>1, PTL

-----------------------------------------------------------------------------
(* The labels that may be sent, and with them the label there is none of.    *)
Given == UNION {Range(Frames[m]) : m \in DOMAIN Frames}
(* ... and with the state a target has before any label.                    *)
Dated == Given \cup {NoLabel}

(* A label sent is of a target, and made at some time.                      *)
LEMMA GivenTyped ==
  ASSUME NEW l \in Given PROVE l.target \in Targets /\ l.cts \in Nat /\ l.cts > 0 /\ l.expires \in Nat
BY LabelsAssumption DEF Given

(* What is in the state was made at some time, at 0 if it is no label.      *)
LEMMA DatedTyped == ASSUME NEW l \in Dated PROVE l.cts \in Nat
BY GivenTyped DEF Dated, NoLabel

(* A frame is a list of labels that may be sent.                            *)
LEMMA FramesGiven ==
  ASSUME NEW m \in 1 .. Len(Frames) PROVE m \in DOMAIN Frames /\ Frames[m] \in Seq(Given)
<1>1. m \in DOMAIN Frames
  BY LabelsAssumption
<1>2. Frames[m] \in Seq(Range(Frames[m]))
  BY <1>1, LabelsAssumption
<1>3. Range(Frames[m]) \subseteq Given
  BY <1>1 DEF Given
<1> QED BY <1>1, <1>2, <1>3

(* Where a label is in a frame.                                             *)
Placed == {p \in Nat \X Nat : p[1] \in DOMAIN Frames /\ p[2] \in DOMAIN Frames[p[1]]}

(* What is at such a place is a label that may be sent.                      *)
LEMMA PlacedGiven ==
  ASSUME NEW p \in Placed
  PROVE  /\ p[1] \in Nat /\ p[2] \in Nat /\ p = <<p[1], p[2]>>
         /\ LabelAt(p) \in Given /\ LabelAt(p).cts \in Nat /\ LabelAt(p).cts > 0
<1>1. /\ p[1] \in Nat /\ p[2] \in Nat /\ p = <<p[1], p[2]>>
      /\ p[1] \in DOMAIN Frames /\ p[2] \in DOMAIN Frames[p[1]]
  BY DEF Placed
<1>2. Frames[p[1]][p[2]] \in Range(Frames[p[1]])
  BY <1>1 DEF Range
<1>3. LabelAt(p) \in Given
  BY <1>1, <1>2 DEF LabelAt, Given
<1> QED BY <1>1, <1>3, GivenTyped

(* A place of a target's label is one in the frames there are.              *)
LEMMA PlacesPlaced ==
  ASSUME NEW n \in Nat, n <= Len(Frames), NEW t, NEW p \in PlacesOf(t, n)
  PROVE  /\ p \in Placed /\ p[1] \in 1 .. n
         /\ LabelAt(p).target = t /\ LabelAt(p).labeler = Labeler
<1>1. PICK m \in 1 .. n : p \in {m} \X DOMAIN Frames[m]
  BY DEF PlacesOf
<1>2. m \in 1 .. Len(Frames)
  BY LabelsAssumption
<1>3. m \in DOMAIN Frames /\ Frames[m] \in Seq(Given)
  BY <1>2, FramesGiven
<1>4. p[1] = m /\ p[2] \in DOMAIN Frames[m] /\ p = <<p[1], p[2]>>
  BY <1>1
<1>5. p[2] \in Nat
  BY <1>3, <1>4
<1>6. p \in Placed
  BY <1>3, <1>4, <1>5 DEF Placed
<1> QED BY <1>4, <1>6 DEF PlacesOf

(* A label of the labeler in one of the first n frames has its place.        *)
LEMMA PlaceOfLabel ==
  ASSUME NEW n \in Nat, NEW m \in 1 .. n, NEW i \in DOMAIN Frames[m],
         Frames[m][i].labeler = Labeler
  PROVE  /\ <<m, i>> \in PlacesOf(Frames[m][i].target, n)
         /\ LabelAt(<<m, i>>) = Frames[m][i]
BY DEF PlacesOf, LabelAt

(* What the labeler gave a target in fewer frames it gave in more.           *)
LEMMA PlacesGrow ==
  ASSUME NEW n \in Nat, NEW m \in Nat, n <= m, NEW t PROVE PlacesOf(t, n) \subseteq PlacesOf(t, m)
<1>1. 1 .. n \subseteq 1 .. m
  OBVIOUS
<1> QED BY <1>1 DEF PlacesOf

(* A place in the frames up to n is in the last of them or in those before.  *)
LEMMA PlacesNext ==
  ASSUME NEW n \in Nat, n + 1 <= Len(Frames), NEW t, NEW p \in PlacesOf(t, n + 1)
  PROVE  p \in PlacesOf(t, n) \/ p[1] = n + 1
<1>1. PICK m \in 1 .. n + 1 : p \in {m} \X DOMAIN Frames[m]
  BY DEF PlacesOf
<1>2. m \in 1 .. n \/ m = n + 1
  OBVIOUS
<1>3. p[1] = m
  BY <1>1
<1> QED BY <1>1, <1>2, <1>3 DEF PlacesOf

(* The labels a target was given.                                           *)
GivenTo(t, n) == {LabelAt(p) : p \in PlacesOf(t, n)}

(* They are labels that may be sent, of the target and by the labeler.       *)
LEMMA GivenToIsGiven ==
  ASSUME NEW n \in Nat, n <= Len(Frames), NEW t, NEW l \in GivenTo(t, n)
  PROVE  l \in Given /\ l.target = t /\ l.labeler = Labeler
<1>1. PICK p \in PlacesOf(t, n) : l = LabelAt(p)
  BY DEF GivenTo
<1> QED BY <1>1, PlacesPlaced, PlacedGiven

-----------------------------------------------------------------------------
(* The label at r is that at p or supersedes it.                            *)
Beats(r, p) == r = p \/ Supersedes(r, p)

(* Of two places one beats the other; what beats a place beats those it       *)
(* beats; and no two places beat each other.                                *)
LEMMA BeatsOrder ==
  ASSUME NEW p \in Placed, NEW q \in Placed, NEW r \in Placed
  PROVE  /\ Beats(p, q) \/ Beats(q, p)
         /\ Beats(p, q) /\ Beats(q, r) => Beats(p, r)
         /\ Beats(p, q) /\ Beats(q, p) => p = q
<1>1. /\ p[1] \in Nat /\ p[2] \in Nat /\ p = <<p[1], p[2]>> /\ LabelAt(p).cts \in Nat
      /\ q[1] \in Nat /\ q[2] \in Nat /\ q = <<q[1], q[2]>> /\ LabelAt(q).cts \in Nat
      /\ r[1] \in Nat /\ r[2] \in Nat /\ r = <<r[1], r[2]>> /\ LabelAt(r).cts \in Nat
  BY PlacedGiven
<1>2. p[1] = q[1] /\ p[2] = q[2] => p = q
  BY <1>1
<1>3. Beats(p, q) \/ Beats(q, p)
  BY <1>1, <1>2 DEF Beats, Supersedes, SentBefore
<1>4. Beats(p, q) /\ Beats(q, r) => Beats(p, r)
  BY <1>1 DEF Beats, Supersedes, SentBefore
<1>5. Beats(p, q) /\ Beats(q, p) => p = q
  BY <1>1 DEF Beats, Supersedes, SentBefore
<1> QED BY <1>3, <1>4, <1>5

(* One of the places beats every one of them.                               *)
HasLast(S) == S # {} => \E r \in S : \A p \in S : Beats(r, p)

(* Two sets that have a last word have one together.                        *)
LEMMA UnionLast ==
  ASSUME NEW S \in SUBSET Placed, NEW T \in SUBSET Placed, HasLast(S), HasLast(T)
  PROVE  HasLast(S \cup T)
<1>1. CASE S = {} \/ T = {}
  BY <1>1 DEF HasLast
<1>2. CASE S # {} /\ T # {}
  <2>1. PICK r \in S : \A p \in S : Beats(r, p)
    BY <1>2 DEF HasLast
  <2>2. PICK q \in T : \A p \in T : Beats(q, p)
    BY <1>2 DEF HasLast
  <2>3. CASE Beats(r, q)
    <3>1. \A p \in S \cup T : Beats(r, p)
      BY <2>1, <2>2, <2>3, BeatsOrder
    <3> QED BY <3>1 DEF HasLast
  <2>4. CASE Beats(q, r)
    <3>1. \A p \in S \cup T : Beats(q, p)
      BY <2>1, <2>2, <2>4, BeatsOrder
    <3> QED BY <3>1 DEF HasLast
  <2>5. Beats(r, q) \/ Beats(q, r)
    BY BeatsOrder
  <2> QED BY <2>3, <2>4, <2>5
<1> QED BY <1>1, <1>2

(* A target's labels in one frame have a last word, by induction over them.  *)
LEMMA FrameHasLast ==
  ASSUME NEW S \in SUBSET Placed, NEW m, \A p \in S : p[1] = m, NEW n \in Nat, \A p \in S : p[2] <= n
  PROVE  HasLast(S)
<1> DEFINE Upto(k) == {p \in S : p[2] <= k}
           I == {k \in Nat : HasLast(Upto(k))}
<1>0. \A p \in S : p[1] \in Nat /\ p[2] \in Nat /\ p = <<p[1], p[2]>> /\ p[2] > 0
  <2> SUFFICES ASSUME NEW p \in S PROVE p[1] \in Nat /\ p[2] \in Nat /\ p = <<p[1], p[2]>> /\ p[2] > 0
    OBVIOUS
  <2>1. p[1] \in Nat /\ p[2] \in Nat /\ p = <<p[1], p[2]>>
    BY PlacedGiven
  <2>2. p[1] \in DOMAIN Frames /\ p[2] \in DOMAIN Frames[p[1]]
    BY DEF Placed
  <2>3. Frames[p[1]] \in Seq(Range(Frames[p[1]]))
    BY <2>2, LabelsAssumption
  <2>4. p[2] > 0
    BY <2>2, <2>3
  <2> QED BY <2>1, <2>4
<1>1. 0 \in I
  <2>1. Upto(0) = {}
    BY <1>0
  <2> QED BY <2>1 DEF HasLast
<1>2. ASSUME NEW k \in Nat, k \in I PROVE k + 1 \in I
  <2> DEFINE one == {p \in S : p[2] = k + 1}
  <2>1. HasLast(Upto(k))
    BY <1>2
  <2>2. \A p \in one, q \in one : p = q
    BY <1>0
  <2>3. HasLast(one)
    <3> HIDE DEF one
    <3> QED BY <2>2 DEF HasLast, Beats
  <2>4. Upto(k + 1) = Upto(k) \cup one
    BY <1>0
  <2>5. Upto(k) \in SUBSET Placed /\ one \in SUBSET Placed
    OBVIOUS
  <2>6. HasLast(Upto(k + 1))
    <3> HIDE DEF Upto, one
    <3> QED BY <2>1, <2>3, <2>4, <2>5, UnionLast
  <2> QED BY <2>6
<1>3. Nat \subseteq I
  <2> HIDE DEF I
  <2> QED BY <1>1, <1>2, SetInduction
<1>4. Upto(n) = S
  OBVIOUS
<1>5. HasLast(Upto(n))
  BY <1>3
<1> QED BY <1>4, <1>5

(* So have its labels in any number of frames, by induction over the frames. *)
LEMMA PlacesHaveLast ==
  ASSUME NEW n \in Nat, n <= Len(Frames), NEW t PROVE HasLast(PlacesOf(t, n))
<1> DEFINE I == {k \in Nat : k <= Len(Frames) => HasLast(PlacesOf(t, k))}
<1>1. 0 \in I
  <2>1. PlacesOf(t, 0) = {}
    BY DEF PlacesOf
  <2> QED BY <2>1 DEF HasLast
<1>2. ASSUME NEW k \in Nat, k \in I PROVE k + 1 \in I
  <2> SUFFICES ASSUME k + 1 <= Len(Frames) PROVE HasLast(PlacesOf(t, k + 1))
    OBVIOUS
  <2> DEFINE next == {p \in PlacesOf(t, k + 1) : p[1] = k + 1}
  <2>0. Len(Frames) \in Nat
    BY LabelsAssumption
  <2>1. HasLast(PlacesOf(t, k))
    BY <1>2, <2>0
  <2>2. PlacesOf(t, k) \in SUBSET Placed /\ PlacesOf(t, k) \subseteq PlacesOf(t, k + 1)
    BY <2>0, PlacesPlaced, PlacesGrow
  <2>3. next \in SUBSET Placed
    BY PlacesPlaced
  <2>4. Frames[k + 1] \in Seq(Given) /\ k + 1 \in DOMAIN Frames
    BY <2>0, FramesGiven
  <2>5. Len(Frames[k + 1]) \in Nat /\ \A p \in next : p[2] <= Len(Frames[k + 1])
    <3>1. ASSUME NEW p \in next PROVE p[2] \in DOMAIN Frames[k + 1]
      BY <2>3 DEF Placed
    <3> HIDE DEF next
    <3> QED BY <2>4, <3>1
  <2>6. HasLast(next)
    <3>1. \A p \in next : p[1] = k + 1
      OBVIOUS
    <3> HIDE DEF next
    <3> QED BY <2>3, <2>5, <3>1, FrameHasLast
  <2>7. PlacesOf(t, k + 1) = PlacesOf(t, k) \cup next
    BY <2>2, PlacesNext
  <2> HIDE DEF next
  <2> QED BY <2>1, <2>2, <2>3, <2>6, <2>7, UnionLast
<1>3. Nat \subseteq I
  <2> HIDE DEF I
  <2> QED BY <1>1, <1>2, SetInduction
<1> QED BY <1>3

(* The labeler's last word on a target is at a place that beats all of its.  *)
LEMMA NewestIsLast ==
  ASSUME NEW n \in Nat, n <= Len(Frames), NEW t, PlacesOf(t, n) # {}
  PROVE  \E r \in PlacesOf(t, n) : Newest(t, n) = LabelAt(r) /\ \A p \in PlacesOf(t, n) : Beats(r, p)
<1> DEFINE Ends(q) == \A p \in PlacesOf(t, n) : q = p \/ Supersedes(q, p)
           r == CHOOSE q \in PlacesOf(t, n) : Ends(q)
<1>1. \E q \in PlacesOf(t, n) : Ends(q)
  BY PlacesHaveLast DEF HasLast, Beats
<1>2. r \in PlacesOf(t, n) /\ Ends(r)
  <2> HIDE DEF Ends
  <2> QED BY <1>1
<1>3. Newest(t, n) = LabelAt(r)
  BY DEF Newest
<1> HIDE DEF r
<1> QED BY <1>2, <1>3 DEF Beats

(* What the labeler answers a query with after n frames: labels it gave.     *)
LEMMA CurrentGiven ==
  ASSUME sent \in Nat, sent <= Len(Frames)
  PROVE  /\ Current \in Seq(Given)
         /\ \A i \in DOMAIN Current : Current[i] \in GivenTo(Current[i].target, sent)
<1> DEFINE all == {Newest(t, sent) : t \in Targets}
           some == all \ {NoLabel}
           N == Cardinality(some)
<1>1. IsFiniteSet(all)
  <2> DEFINE f == [t \in Targets |-> Newest(t, sent)]
  <2>1. f \in Surjection(Targets, all)
    BY DEF Surjection
  <2> HIDE DEF f, all
  <2> QED BY <2>1, FS_Surjection, LabelsAssumption
<1>2. IsFiniteSet(some)
  <2> HIDE DEF all
  <2> QED BY <1>1, FS_Subset
<1>3. N \in Nat /\ ExistsBijection(1 .. N, some)
  <2> HIDE DEF some
  <2> QED BY <1>2, FS_CardinalityType
<1>4. \E f \in [1 .. N -> some] : IsInjective(f)
  <2> HIDE DEF some, N
  <2> QED BY <1>3 DEF ExistsBijection, Bijection, Injection
<1>5. Current \in [1 .. N -> some]
  <2>1. Current = CHOOSE f \in [1 .. N -> some] : IsInjective(f)
    BY DEF Current, SetToSeq
  <2> HIDE DEF some, N
  <2> QED BY <1>4, <2>1
<1>6. ASSUME NEW l \in some PROVE l \in Given /\ l \in GivenTo(l.target, sent)
  <2>1. PICK t \in Targets : l = Newest(t, sent) /\ l # NoLabel
    OBVIOUS
  <2>2. PlacesOf(t, sent) # {}
    BY <2>1 DEF Newest
  <2>3. l \in GivenTo(t, sent)
    BY <2>1, <2>2, NewestIsLast DEF GivenTo
  <2> QED BY <2>3, GivenToIsGiven
<1> HIDE DEF some, N
<1> QED BY <1>3, <1>5, <1>6

-----------------------------------------------------------------------------
(* One label merged into the state.                                         *)
MergeStep(state, label) == [state EXCEPT ![label.target] = Winner(@, label)]

(* f holds the state after each of the first n labels of a list.             *)
IsMerge(f, state, list, n) ==
  f = [i \in 0 .. n |-> IF i = 0 THEN state ELSE MergeStep(f[i - 1], list[i])]

(* A list has a run, one label after the other.                             *)
LEMMA MergeExists ==
  ASSUME NEW state, NEW list, NEW n \in Nat PROVE \E f : IsMerge(f, state, list, n)
<1> DEFINE S == {k \in Nat : \E f : IsMerge(f, state, list, k)}
<1>1. 0 \in S
  <2> DEFINE f == [i \in 0 .. 0 |-> state]
  <2>1. IsMerge(f, state, list, 0)
    BY DEF IsMerge
  <2> QED BY <2>1
<1>2. ASSUME NEW k \in Nat, k \in S PROVE k + 1 \in S
  <2>1. PICK f : IsMerge(f, state, list, k)
    BY <1>2
  <2> DEFINE g == [i \in 0 .. k + 1 |-> IF i <= k THEN f[i] ELSE MergeStep(f[k], list[k + 1])]
  <2>2. \A i \in 0 .. k : g[i] = f[i]
    OBVIOUS
  <2>3. ASSUME NEW i \in 0 .. k + 1
        PROVE  g[i] = IF i = 0 THEN state ELSE MergeStep(g[i - 1], list[i])
    <3>1. CASE i <= k
      <4>1. f[i] = IF i = 0 THEN state ELSE MergeStep(f[i - 1], list[i])
        BY <2>1, <3>1 DEF IsMerge
      <4>2. i # 0 => g[i - 1] = f[i - 1]
        BY <2>2, <3>1
      <4> HIDE DEF g
      <4> QED BY <2>2, <3>1, <4>1, <4>2
    <3>2. CASE i = k + 1
      <4>1. g[i] = MergeStep(f[k], list[k + 1]) /\ g[i - 1] = f[k] /\ i # 0
        BY <3>2
      <4> QED BY <3>2, <4>1
    <3> QED BY <3>1, <3>2
  <2>4. g = [i \in 0 .. k + 1 |-> g[i]]
    OBVIOUS
  <2> HIDE DEF g
  <2>5. g = [i \in 0 .. k + 1 |-> IF i = 0 THEN state ELSE MergeStep(g[i - 1], list[i])]
    BY <2>3, <2>4
  <2>6. IsMerge(g, state, list, k + 1)
    BY <2>5 DEF IsMerge
  <2> QED BY <2>6
<1>3. Nat \subseteq S
  <2> HIDE DEF S
  <2> QED BY <1>1, <1>2, SetInduction
<1> QED BY <1>3

(* What the host merges is the end of such a run.                           *)
LEMMA MergedIsRun ==
  ASSUME NEW state, NEW list, Len(list) \in Nat
  PROVE  \E f : IsMerge(f, state, list, Len(list)) /\ Merged(state, list) = f[Len(list)]
<1> DEFINE R(f) == f = [i \in 0 .. Len(list) |->
                   IF i = 0 THEN state
                   ELSE [f[i - 1] EXCEPT ![list[i].target] = Winner(@, list[i])]]
<1>1. ASSUME NEW f PROVE R(f) <=> IsMerge(f, state, list, Len(list))
  BY DEF IsMerge, MergeStep
<1>2. \E f : R(f)
  BY <1>1, MergeExists
<1>3. R(CHOOSE f : R(f))
  <2> HIDE DEF R
  <2> QED BY <1>2
<1>4. Merged(state, list) = (CHOOSE f : R(f))[Len(list)]
  BY DEF Merged
<1> HIDE DEF R
<1> QED BY <1>1, <1>3, <1>4

(* Of a list's labels the i-th is newer than those before and those after it, *)
(* or as new as they are and not before them.                               *)
WinsAt(list, i, k) ==
  \A j \in 1 .. k : list[j].target = list[i].target =>
    list[j].cts < list[i].cts \/ (list[j].cts = list[i].cts /\ j <= i)

(* After a list's labels are merged a target has the label it had, newer than *)
(* any of them, or the one of them that wins, no older than it.             *)
FollowsAt(later, state, list, k, t) ==
  \/ later[t] = state[t] /\ \A j \in 1 .. k : list[j].target = t => list[j].cts < state[t].cts
  \/ \E i \in 1 .. k : /\ list[i].target = t /\ later[t] = list[i]
                       /\ list[i].cts >= state[t].cts /\ WinsAt(list, i, k)
Follows(later, state, list, k) ==
  later \in [Targets -> Dated] /\ \A t \in Targets : FollowsAt(later, state, list, k, t)

(* What the host merges follows from the state and the list.                *)
LEMMA MergedFollows ==
  ASSUME NEW state \in [Targets -> Dated], NEW list \in Seq(Given)
  PROVE  Follows(Merged(state, list), state, list, Len(list))
<1>1. Len(list) \in Nat
  OBVIOUS
<1>2. PICK f : IsMerge(f, state, list, Len(list)) /\ Merged(state, list) = f[Len(list)]
  BY <1>1, MergedIsRun
<1> DEFINE S == {k \in Nat : k <= Len(list) => Follows(f[k], state, list, k)}
<1>3. 0 \in S
  <2>1. f[0] = state
    BY <1>1, <1>2 DEF IsMerge
  <2> QED BY <2>1 DEF Follows, FollowsAt
<1>4. ASSUME NEW k \in Nat, k \in S PROVE k + 1 \in S
  <2> SUFFICES ASSUME k + 1 <= Len(list) PROVE Follows(f[k + 1], state, list, k + 1)
    OBVIOUS
  <2> DEFINE here == f[k]
             next == list[k + 1]
             later == f[k + 1]
             won == Winner(here[next.target], next)
  <2>0. later = MergeStep(here, next)
    BY <1>2 DEF IsMerge
  <2>1. later = [here EXCEPT ![next.target] = won]
    BY <2>0 DEF MergeStep
  <2>2. Follows(here, state, list, k)
    BY <1>4
  <2>3. next \in Given /\ \A i \in 1 .. k + 1 : list[i] \in Given
    OBVIOUS
  <2>4. next.target \in Targets /\ \A i \in 1 .. k + 1 : list[i].target \in Targets /\ list[i].cts \in Nat
    BY <2>3, GivenTyped
  <2>5. next.cts \in Nat /\ \A t \in Targets : state[t].cts \in Nat /\ here[t].cts \in Nat
    BY <2>2, <2>3, GivenTyped, DatedTyped DEF Follows
  <2>6. here \in [Targets -> Dated] /\ here[next.target] \in Dated
    BY <2>2, <2>4 DEF Follows
  <2>7. \/ won = next /\ next.cts >= here[next.target].cts
        \/ won = here[next.target] /\ next.cts < here[next.target].cts
    BY <2>4, <2>5 DEF Winner, NoLabel
  <2>8. won \in Dated
    BY <2>3, <2>6, <2>7 DEF Dated
  <2> HIDE DEF here, later, won
  <2>9. later \in [Targets -> Dated] /\ later[next.target] = won /\ \A t \in Targets : t # next.target => later[t] = here[t]
    BY <2>1, <2>4, <2>6, <2>8
  <2>10. 1 .. k + 1 = (1 .. k) \cup {k + 1} /\ next = list[k + 1]
    OBVIOUS
  <2> HIDE DEF next
  <2>11. ASSUME NEW t \in Targets PROVE FollowsAt(later, state, list, k + 1, t)
    <3>1. FollowsAt(here, state, list, k, t)
      BY <2>2 DEF Follows
    <3>2. CASE t = next.target /\ won = next /\ next.cts >= here[t].cts
      <4>1. next.cts >= state[t].cts /\ \A j \in 1 .. k : list[j].target = t => list[j].cts <= next.cts
        <5>1. CASE here[t] = state[t] /\ \A j \in 1 .. k : list[j].target = t => list[j].cts < state[t].cts
          BY <2>4, <2>5, <2>10, <3>2, <5>1
        <5>2. ASSUME NEW i \in 1 .. k, list[i].target = t, here[t] = list[i], list[i].cts >= state[t].cts,
                     WinsAt(list, i, k)
              PROVE  next.cts >= state[t].cts /\ \A j \in 1 .. k : list[j].target = t => list[j].cts <= next.cts
          BY <2>4, <2>5, <2>10, <3>2, <5>2 DEF WinsAt
        <5> QED BY <3>1, <5>1, <5>2 DEF FollowsAt
      <4>2. WinsAt(list, k + 1, k + 1)
        BY <2>4, <2>5, <2>10, <3>2, <4>1 DEF WinsAt
      <4>3. k + 1 \in 1 .. k + 1 /\ later[t] = list[k + 1] /\ list[k + 1].target = t
        BY <2>9, <2>10, <3>2
      <4> QED BY <2>10, <4>1, <4>2, <4>3 DEF FollowsAt
    <3>3. CASE t = next.target /\ won = here[t] /\ next.cts < here[t].cts
      <4>0. later[t] = here[t]
        BY <2>9, <3>3
      <4>1. CASE here[t] = state[t] /\ \A j \in 1 .. k : list[j].target = t => list[j].cts < state[t].cts
        BY <2>10, <3>3, <4>0, <4>1 DEF FollowsAt
      <4>2. ASSUME NEW i \in 1 .. k, list[i].target = t, here[t] = list[i], list[i].cts >= state[t].cts,
                   WinsAt(list, i, k)
            PROVE  FollowsAt(later, state, list, k + 1, t)
        <5>1. WinsAt(list, i, k + 1)
          BY <2>10, <3>3, <4>2 DEF WinsAt
        <5> QED BY <2>10, <4>0, <4>2, <5>1 DEF FollowsAt
      <4> QED BY <3>1, <4>1, <4>2 DEF FollowsAt
    <3>4. CASE t # next.target
      <4>0. later[t] = here[t]
        BY <2>9, <3>4
      <4>1. CASE here[t] = state[t] /\ \A j \in 1 .. k : list[j].target = t => list[j].cts < state[t].cts
        BY <2>10, <3>4, <4>0, <4>1 DEF FollowsAt
      <4>2. ASSUME NEW i \in 1 .. k, list[i].target = t, here[t] = list[i], list[i].cts >= state[t].cts,
                   WinsAt(list, i, k)
            PROVE  FollowsAt(later, state, list, k + 1, t)
        <5>1. WinsAt(list, i, k + 1)
          BY <2>10, <3>4, <4>2 DEF WinsAt
        <5> QED BY <2>10, <4>0, <4>2, <5>1 DEF FollowsAt
      <4> QED BY <3>1, <4>1, <4>2 DEF FollowsAt
    <3> QED BY <2>7, <3>2, <3>3, <3>4
  <2>12. Follows(later, state, list, k + 1)
    BY <2>9, <2>11 DEF Follows
  <2> QED BY <2>12 DEF later
<1>5. Nat \subseteq S
  <2> HIDE DEF S
  <2> QED BY <1>3, <1>4, SetInduction
<1> QED BY <1>1, <1>2, <1>5

-----------------------------------------------------------------------------
(* A target's label is as good as the one at a place: it was sent there, or    *)
(* what supersedes it was; or a query brought it, and it is no older.        *)
Stands(state, asked, k, t, p) ==
  \/ \E r \in PlacesOf(t, k) : state[t] = LabelAt(r) /\ Beats(r, p)
  \/ t \in asked /\ state[t].cts >= LabelAt(p).cts

(* Every label of the first n frames, of k sent, is in the state or gave way *)
(* to such a one.                                                           *)
Reached(state, asked, k, n) ==
  \A t \in Targets : \A p \in PlacesOf(t, n) : Stands(state, asked, k, t, p)

(* The state is of labels of the first n frames.                            *)
StateOK(state, n) ==
  /\ state \in [Targets -> Dated]
  /\ \A t \in Targets : state[t] = NoLabel \/ state[t] \in GivenTo(t, n)

(* Every label of the list is of the first n frames.                        *)
ListOK(list, n) == list \in Seq(Given) /\ \A i \in DOMAIN list : list[i] \in GivenTo(list[i].target, n)

(* What a consumption and a query may be.                                   *)
Consumptions == [pc : {"off", "reading", "handling"}, at : Nat, frame : Nat, last : Nat,
                 frames : Nat, count : Nat]
Queries == [pc : {"off", "asking", "read"}, cursor : Nat, pages : Nat, got : Seq(Given), seen : SUBSET Nat]

(* A consumption stands right after the last frame the state has reached,   *)
(* or handles the next one, which is the labeler's alone.                   *)
ConsumptionOK ==
  /\ consumption \in Consumptions
  /\ consumption.pc # "off" => /\ checkpoint <= consumption.last /\ consumption.last <= sent
                              /\ Reached(labels, queried, sent, consumption.last)
  /\ consumption.pc = "reading" => consumption.at = consumption.last
  /\ consumption.pc = "handling" =>
       /\ consumption.frame = consumption.last + 1 /\ consumption.at = consumption.frame
       /\ consumption.frame <= sent
       /\ \A i \in DOMAIN Frames[consumption.frame] : Frames[consumption.frame][i].labeler = Labeler

(* The pages a query has read are of labels the labeler gave.               *)
QueryOK ==
  /\ query \in Queries
  /\ ListOK(query.got, sent) /\ Len(query.got) <= MaxLabels

(* The inductive invariant: the state holds or supersedes what the cursor and *)
(* a running consumption have passed, and all in it, and in a query's pages,  *)
(* is a label the labeler gave.                                             *)
LabelInv ==
  /\ sent \in Nat /\ sent <= Len(Frames)
  /\ subscription \in [made : BOOLEAN, revoked : BOOLEAN, labeler : {Labeler}]
  /\ checkpoint \in Nat /\ checkpoint <= sent /\ Reached(labels, queried, sent, checkpoint)
  /\ StateOK(labels, sent)
  /\ ConsumptionOK
  /\ QueryOK

(* What is of the frames sent stays so when more are sent.                  *)
LEMMA LaterOK ==
  ASSUME NEW n \in Nat, NEW m \in Nat, n <= m
  PROVE  /\ \A state : StateOK(state, n) => StateOK(state, m)
         /\ \A list : ListOK(list, n) => ListOK(list, m)
         /\ \A state, asked, k : Reached(state, asked, n, k) => Reached(state, asked, m, k)
<1>1. \A t : PlacesOf(t, n) \subseteq PlacesOf(t, m)
  BY PlacesGrow
<1>2. \A t : GivenTo(t, n) \subseteq GivenTo(t, m)
  BY <1>1 DEF GivenTo
<1> QED BY <1>1, <1>2 DEF StateOK, ListOK, Reached, Stands

(* The state is of labels of the frames sent after such are merged.         *)
LEMMA MergedOK ==
  ASSUME NEW n \in Nat, NEW state, StateOK(state, n), NEW list, ListOK(list, n)
  PROVE  /\ StateOK(Merged(state, list), n)
         /\ Follows(Merged(state, list), state, list, Len(list))
<1> DEFINE later == Merged(state, list)
<1>1. Follows(later, state, list, Len(list))
  BY MergedFollows DEF StateOK, ListOK
<1> HIDE DEF later
<1>2. \A i \in 1 .. Len(list) : list[i] \in GivenTo(list[i].target, n)
  BY DEF ListOK
<1>3. ASSUME NEW t \in Targets PROVE later[t] = NoLabel \/ later[t] \in GivenTo(t, n)
  <2>1. later[t] = state[t] \/ \E i \in 1 .. Len(list) : list[i].target = t /\ later[t] = list[i]
    BY <1>1 DEF Follows, FollowsAt
  <2> QED BY <1>2, <2>1 DEF StateOK
<1>4. StateOK(later, n)
  BY <1>1, <1>3 DEF StateOK, Follows
<1> QED BY <1>1, <1>4 DEF later

(* What was reached still is, when every target keeps its label, or has one   *)
(* no older that a query brought or that comes from a later frame.           *)
LEMMA ReachedStays ==
  ASSUME NEW k \in Nat, k <= Len(Frames), NEW n \in Nat, n <= k, NEW state \in [Targets -> Dated],
         NEW later \in [Targets -> Dated], NEW asked, NEW next, Reached(state, asked, k, n),
         \A t \in Targets :
           \/ later[t] = state[t] /\ (t \in asked => t \in next)
           \/ /\ later[t].cts >= state[t].cts
              /\ t \in next \/ \E r \in PlacesOf(t, k) : later[t] = LabelAt(r) /\ r[1] > n
  PROVE  Reached(later, next, k, n)
<1> SUFFICES ASSUME NEW t \in Targets, NEW p \in PlacesOf(t, n) PROVE Stands(later, next, k, t, p)
  BY DEF Reached
<1>1. Stands(state, asked, k, t, p)
  BY DEF Reached
<1>2. n <= Len(Frames)
  BY LabelsAssumption
<1>3. p \in Placed /\ p[1] \in 1 .. n
  BY <1>2, PlacesPlaced
<1>4. LabelAt(p).cts \in Nat /\ later[t].cts \in Nat /\ state[t].cts \in Nat
  BY <1>3, PlacedGiven, DatedTyped
<1>5. state[t].cts >= LabelAt(p).cts
  <2>1. ASSUME NEW r \in PlacesOf(t, k), state[t] = LabelAt(r), Beats(r, p) PROVE state[t].cts >= LabelAt(p).cts
    BY <1>4, <2>1 DEF Beats, Supersedes
  <2> QED BY <1>1, <2>1 DEF Stands
<1>6. CASE later[t] = state[t] /\ (t \in asked => t \in next)
  BY <1>1, <1>6 DEF Stands
<1>7. CASE later[t].cts >= state[t].cts /\ t \in next
  BY <1>4, <1>5, <1>7 DEF Stands
<1>8. ASSUME later[t].cts >= state[t].cts, NEW r \in PlacesOf(t, k), later[t] = LabelAt(r), r[1] > n
      PROVE  Stands(later, next, k, t, p)
  <2>1. p[1] < r[1]
    <3>1. r[1] \in Nat /\ p[1] \in Nat /\ p[1] <= n
      BY <1>3, PlacesPlaced, PlacedGiven
    <3> QED BY <1>8, <3>1
  <2>2. LabelAt(r).cts >= LabelAt(p).cts
    BY <1>4, <1>5, <1>8
  <2>3. Beats(r, p)
    BY <1>4, <1>8, <2>1, <2>2 DEF Beats, Supersedes, SentBefore
  <2> QED BY <1>8, <2>3 DEF Stands
<1> QED BY <1>6, <1>7, <1>8

(* A frame of the labeler alone, and a part of it, is of the labels it gave.  *)
LEMMA FrameListOK ==
  ASSUME NEW n \in 1 .. Len(Frames), \A i \in DOMAIN Frames[n] : Frames[n][i].labeler = Labeler
  PROVE  ListOK(Frames[n], n)
<1>1. Frames[n] \in Seq(Given)
  BY FramesGiven
<1>2. ASSUME NEW i \in DOMAIN Frames[n] PROVE Frames[n][i] \in GivenTo(Frames[n][i].target, n)
  <2>1. n \in Nat /\ n \in 1 .. n
    BY LabelsAssumption
  <2>2. <<n, i>> \in PlacesOf(Frames[n][i].target, n) /\ LabelAt(<<n, i>>) = Frames[n][i]
    BY <2>1, PlaceOfLabel
  <2> QED BY <2>2 DEF GivenTo
<1> QED BY <1>1, <1>2 DEF ListOK

(* A part of a list of such labels is one, and as long as it says.          *)
LEMMA PartOK ==
  ASSUME NEW list, NEW n, ListOK(list, n), NEW from \in Nat, from > 0, NEW upto \in Int, upto <= Len(list)
  PROVE  /\ ListOK(SubSeq(list, from, upto), n)
         /\ Len(SubSeq(list, from, upto)) = IF from <= upto THEN upto - from + 1 ELSE 0
<1> DEFINE part == SubSeq(list, from, upto)
<1>1. list \in Seq(Given) /\ Len(list) \in Nat
  BY DEF ListOK
<1>2. CASE from <= upto
  <2>1. part \in Seq(Given) /\ Len(part) = upto - from + 1
    BY <1>1, <1>2
  <2>2. \A i \in 1 .. Len(part) : part[i] = list[i + from - 1] /\ i + from - 1 \in DOMAIN list
    BY <1>1, <1>2, <2>1
  <2>3. DOMAIN part = 1 .. Len(part)
    BY <2>1
  <2> HIDE DEF part
  <2>4. ListOK(part, n)
    BY <2>1, <2>2, <2>3 DEF ListOK
  <2> QED BY <1>2, <2>1, <2>4 DEF part
<1>3. CASE ~(from <= upto)
  <2>1. part = <<>>
    BY <1>1, <1>3
  <2>2. ListOK(<<>>, n)
    BY DEF ListOK
  <2> QED BY <1>3, <2>1, <2>2
<1> QED BY <1>2, <1>3

-----------------------------------------------------------------------------
(* The inductive invariant holds at first ...                               *)
LEMMA LabelsFirst == LabelsInit => LabelInv
<1> SUFFICES ASSUME LabelsInit PROVE LabelInv
  OBVIOUS
<1>1. sent = 0 /\ Len(Frames) \in Nat /\ MaxLabels \in Nat
  BY LabelsAssumption DEF LabelsInit
<1>2. \A t : PlacesOf(t, 0) = {}
  BY DEF PlacesOf
<1>3. StateOK(labels, 0) /\ Reached(labels, queried, 0, 0)
  BY <1>2 DEF LabelsInit, StateOK, Reached, Dated
<1>4. ConsumptionOK
  BY DEF LabelsInit, ConsumptionOK, Consumptions, NotConsuming
<1>5. QueryOK
  BY <1>1 DEF LabelsInit, QueryOK, Queries, NotAsking, ListOK
<1> QED BY <1>1, <1>3, <1>4, <1>5 DEF LabelInv, LabelsInit

(* Nothing of the parts of the invariant changes.                           *)
LEMMA ConsumptionSame ==
  ASSUME ConsumptionOK, UNCHANGED <<sent, consumption, checkpoint, labels, queried>> PROVE ConsumptionOK'
BY DEF ConsumptionOK, Consumptions

(* ... and of a query that is left alone.                                   *)
LEMMA QuerySame == ASSUME QueryOK, UNCHANGED <<sent, query>> PROVE QueryOK'
BY DEF QueryOK

(* The frame at hand is of labels the labeler gave.                         *)
LEMMA HandlingOK ==
  ASSUME LabelInv, consumption.pc = "handling"
  PROVE  /\ consumption.frame \in Nat /\ consumption.frame \in 1 .. Len(Frames)
         /\ ListOK(Frames[consumption.frame], consumption.frame)
         /\ ListOK(Frames[consumption.frame], sent)
<1>1. Len(Frames) \in Nat
  BY LabelsAssumption
<1>2. consumption.frame \in Nat /\ consumption.frame \in 1 .. Len(Frames) /\ consumption.frame <= sent
  BY <1>1 DEF LabelInv, ConsumptionOK, Consumptions
<1>3. ListOK(Frames[consumption.frame], consumption.frame)
  BY <1>2, FrameListOK DEF LabelInv, ConsumptionOK, Consumptions
<1>4. ListOK(Frames[consumption.frame], sent)
  BY <1>2, <1>3, LaterOK DEF LabelInv
<1> QED BY <1>2, <1>3, <1>4

(* After the first labels of the frame at hand are merged the state is of      *)
(* labels sent, and has reached all it had, and with all of them the frame.   *)
LEMMA FrameMerged ==
  ASSUME LabelInv, consumption.pc = "handling", NEW m, m = consumption.frame,
         NEW list, ListOK(list, sent), Len(list) <= Len(Frames[m]),
         \A i \in 1 .. Len(list) : list[i] = Frames[m][i],
         labels' = Merged(labels, list), Streamed, sent' = sent
  PROVE  /\ StateOK(labels', sent')
         /\ \A n \in Nat : n < m /\ Reached(labels, queried, sent, n) => Reached(labels', queried', sent', n)
         /\ Len(list) = Len(Frames[m]) /\ Reached(labels, queried, sent, m - 1)
              => Reached(labels', queried', sent', m)
<1>1. /\ sent \in Nat /\ sent <= Len(Frames) /\ StateOK(labels, sent) /\ m \in Nat /\ m \in 1 .. sent
      /\ \A i \in DOMAIN Frames[m] : Frames[m][i].labeler = Labeler
  <2>1. consumption.frame \in Nat /\ consumption.frame \in 1 .. Len(Frames)
    BY HandlingOK
  <2> QED BY <2>1 DEF LabelInv, ConsumptionOK
<1>2. StateOK(labels', sent) /\ Follows(labels', labels, list, Len(list))
  BY <1>1, MergedOK
<1>3. m \in 1 .. Len(Frames) /\ Frames[m] \in Seq(Given) /\ list \in Seq(Given)
  BY <1>1, LabelsAssumption, FramesGiven DEF ListOK
<1>4. \A i \in 1 .. Len(list) : i \in DOMAIN Frames[m] /\ list[i] \in Given
  BY <1>3
<1>5. ASSUME NEW i \in 1 .. Len(list)
      PROVE  <<m, i>> \in PlacesOf(list[i].target, sent) /\ LabelAt(<<m, i>>) = list[i]
  <2>1. Frames[m][i].labeler = Labeler /\ list[i] = Frames[m][i] /\ i \in DOMAIN Frames[m]
    BY <1>1, <1>4
  <2> QED BY <1>1, <2>1, PlaceOfLabel
<1>6. labels \in [Targets -> Dated] /\ labels' \in [Targets -> Dated]
  BY <1>1, <1>2 DEF StateOK
<1>7. ASSUME NEW n \in Nat, n < m, Reached(labels, queried, sent, n) PROVE Reached(labels', queried', sent, n)
  <2>1. ASSUME NEW t \in Targets
        PROVE  \/ labels'[t] = labels[t] /\ (t \in queried => t \in queried')
               \/ /\ labels'[t].cts >= labels[t].cts
                  /\ t \in queried' \/ \E r \in PlacesOf(t, sent) : labels'[t] = LabelAt(r) /\ r[1] > n
    <3>1. CASE labels'[t] = labels[t]
      BY <3>1 DEF Streamed
    <3>2. CASE labels'[t] # labels[t]
      <4>1. PICK i \in 1 .. Len(list) :
              list[i].target = t /\ labels'[t] = list[i] /\ list[i].cts >= labels[t].cts
        BY <1>2, <3>2 DEF Follows, FollowsAt
      <4>2. <<m, i>> \in PlacesOf(t, sent) /\ LabelAt(<<m, i>>) = labels'[t] /\ <<m, i>>[1] > n
        BY <1>1, <1>5, <1>7, <4>1
      <4> QED BY <4>1, <4>2
    <3> QED BY <3>1, <3>2
  <2>2. n <= sent
    BY <1>1, <1>7
  <2>3. \A t \in Targets :
          \/ labels'[t] = labels[t] /\ (t \in queried => t \in queried')
          \/ /\ labels'[t].cts >= labels[t].cts
             /\ t \in queried' \/ \E r \in PlacesOf(t, sent) : labels'[t] = LabelAt(r) /\ r[1] > n
    BY <2>1
  <2> QED BY <1>1, <1>6, <1>7, <2>2, <2>3, ReachedStays
<1>8. ASSUME Len(list) = Len(Frames[m]), Reached(labels, queried, sent, m - 1)
      PROVE  Reached(labels', queried', sent, m)
  <2> SUFFICES ASSUME NEW t \in Targets, NEW p \in PlacesOf(t, m) PROVE Stands(labels', queried', sent, t, p)
    BY DEF Reached
  <2>0. PICK n \in Nat : m = n + 1
    <3>1. m - 1 \in Nat /\ m = (m - 1) + 1
      BY <1>1
    <3> QED BY <3>1
  <2>1. CASE p \in PlacesOf(t, n)
    <3>1. n < m /\ m - 1 = n
      BY <2>0
    <3>2. Reached(labels', queried', sent, n)
      BY <1>7, <1>8, <3>1
    <3> QED BY <2>1, <3>2 DEF Reached
  <2>2. CASE p[1] = m
    <3> DEFINE j == p[2]
    <3>1. /\ p \in Placed /\ LabelAt(p).target = t /\ p = <<p[1], p[2]>> /\ j \in Nat
          /\ LabelAt(p).cts \in Nat /\ LabelAt(p).cts > 0
      BY <1>1, PlacesPlaced, PlacedGiven
    <3>2. j \in DOMAIN Frames[m]
      BY <2>2, <3>1 DEF Placed
    <3>3. j \in 1 .. Len(list)
      BY <1>3, <1>8, <3>2
    <3>4. LabelAt(p) = list[j]
      BY <2>2, <3>3 DEF LabelAt
    <3> HIDE DEF j
    <3>5. FollowsAt(labels', labels, list, Len(list), t)
      BY <1>2 DEF Follows
    <3>6. CASE labels'[t] = labels[t] /\ list[j].cts < labels[t].cts
      <4>1. labels[t].cts \in Nat
        BY <1>6, DatedTyped
      <4>2. labels[t] # NoLabel
        BY <3>1, <3>4, <3>6, <4>1 DEF NoLabel
      <4>3. PICK r \in PlacesOf(t, sent) : labels[t] = LabelAt(r)
        BY <1>1, <4>2 DEF StateOK, GivenTo
      <4>4. Beats(r, p)
        BY <3>1, <3>4, <3>6, <4>1, <4>3 DEF Beats, Supersedes
      <4> QED BY <3>6, <4>3, <4>4 DEF Stands
    <3>7. ASSUME NEW i \in 1 .. Len(list), list[i].target = t, labels'[t] = list[i], WinsAt(list, i, Len(list))
          PROVE  Stands(labels', queried', sent, t, p)
      <4> DEFINE r == <<m, i>>
      <4>1. r \in PlacesOf(t, sent) /\ LabelAt(r) = list[i] /\ r[1] = m /\ r[2] = i
        BY <1>5, <3>7
      <4>2. list[j].cts < list[i].cts \/ (list[j].cts = list[i].cts /\ j <= i)
        BY <3>1, <3>3, <3>4, <3>7 DEF WinsAt
      <4>3. p = <<m, j>>
        BY <2>2, <3>1 DEF j
      <4>4. list[i].cts \in Nat
        BY <1>4, GivenTyped
      <4>5. j = i => r = p
        BY <4>3
      <4>6. p[1] = m /\ p[2] = j
        BY <4>3
      <4> HIDE DEF r
      <4>7. Beats(r, p)
        BY <3>1, <3>3, <3>4, <4>1, <4>2, <4>4, <4>5, <4>6 DEF Beats, Supersedes, SentBefore
      <4> QED BY <3>7, <4>1, <4>7 DEF Stands
    <3> QED BY <3>1, <3>3, <3>4, <3>5, <3>6, <3>7 DEF FollowsAt
  <2>3. n + 1 <= Len(Frames)
    BY <1>3, <2>0
  <2> QED BY <2>0, <2>1, <2>2, <2>3, PlacesNext
<1> QED BY <1>2, <1>7, <1>8

(* ... and every action keeps it: a consumption that starts at the cursor,  *)
LEMMA ConsumeKeeps == ASSUME LabelInv, Consume PROVE LabelInv'
<1>1. ConsumptionOK'
  <2>1. checkpoint \in Nat /\ checkpoint <= sent /\ Reached(labels, queried, sent, checkpoint)
    BY DEF LabelInv
  <2>2. consumption' = [pc |-> "reading", at |-> checkpoint, frame |-> 0, last |-> checkpoint,
                        frames |-> 0, count |-> 0]
    BY DEF Consume, NotConsuming
  <2>3. checkpoint <= checkpoint /\ UNCHANGED <<sent, checkpoint, labels, queried>>
    BY <2>1 DEF Consume
  <2> QED BY <2>1, <2>2, <2>3 DEF ConsumptionOK, Consumptions
<1>2. QueryOK'
  BY QuerySame DEF LabelInv, Consume
<1> QED BY <1>1, <1>2 DEF LabelInv, Consume

(* a frame received, refused or beyond the bounds,                          *)
LEMMA ReceiveKeeps == ASSUME LabelInv, Receive PROVE LabelInv'
<1>1. PICK n \in 1 .. sent :
        /\ n = consumption.at + 1 \/ n <= consumption.at
        /\ IF AtBound THEN Truncated(n)
           ELSE /\ consumption' = IF FrameSound(n, consumption.last, MaxLabels - consumption.count)
                            THEN [consumption EXCEPT !.pc = "handling", !.frame = n, !.at = n]
                            ELSE NotConsuming
                /\ UNCHANGED checkpoint
  BY DEF Receive
<1>2. /\ consumption.pc = "reading" /\ UNCHANGED <<sent, subscription, labels, queried, query>>
      /\ consumption.at = consumption.last /\ consumption.last <= sent /\ consumption.last \in Nat
      /\ Reached(labels, queried, sent, consumption.last)
  BY DEF Receive, LabelInv, ConsumptionOK, Consumptions
<1>3. QueryOK'
  BY <1>2, QuerySame DEF LabelInv
<1>4. CASE consumption' = NotConsuming /\ (checkpoint' = consumption.last \/ checkpoint' = checkpoint)
  <2>1. ConsumptionOK'
    BY <1>4 DEF ConsumptionOK, Consumptions, NotConsuming
  <2> QED BY <1>2, <1>3, <1>4, <2>1 DEF LabelInv
<1>5. CASE /\ FrameSound(n, consumption.last, MaxLabels - consumption.count)
           /\ consumption' = [consumption EXCEPT !.pc = "handling", !.frame = n, !.at = n]
           /\ checkpoint' = checkpoint
  <2>1. n = consumption.last + 1 /\ \A i \in DOMAIN Frames[n] : Frames[n][i].labeler = Labeler
    BY <1>1, <1>2, <1>5 DEF FrameSound
  <2>2. consumption \in Consumptions /\ n \in Nat
    BY <1>2, <2>1 DEF LabelInv, ConsumptionOK, Consumptions
  <2>3. /\ consumption' \in Consumptions /\ consumption'.pc = "handling" /\ consumption'.frame = n
        /\ consumption'.at = n /\ consumption'.last = consumption.last
    BY <1>5, <2>2 DEF Consumptions
  <2>4. ConsumptionOK'
    <3>1. checkpoint <= consumption.last
      BY <1>2 DEF LabelInv, ConsumptionOK
    <3> QED BY <1>2, <1>5, <2>1, <2>3, <3>1 DEF ConsumptionOK, Consumptions
  <2> QED BY <1>2, <1>3, <1>5, <2>4 DEF LabelInv
<1> QED BY <1>1, <1>4, <1>5 DEF Truncated

(* a frame the host has handled,                                            *)
LEMMA FrameHandledKeeps == ASSUME LabelInv, FrameHandled PROVE LabelInv'
<1> DEFINE n == consumption.last
           list == Frames[consumption.frame]
<1>1. /\ consumption.pc = "handling" /\ UNCHANGED <<sent, subscription, checkpoint, query>>
      /\ labels' = Merged(labels, list) /\ Streamed
      /\ consumption' = [consumption EXCEPT !.pc = "reading", !.last = consumption.frame, !.frames = @ + 1,
                              !.count = @ + Len(list)]
  BY DEF FrameHandled
<1>2. /\ n \in Nat /\ consumption.frame = n + 1 /\ n + 1 <= Len(Frames) /\ n + 1 <= sent
      /\ Reached(labels, queried, sent, n) /\ consumption.at = n + 1
  BY <1>1, HandlingOK DEF LabelInv, ConsumptionOK, Consumptions
<1>3. ListOK(list, n + 1) /\ ListOK(list, sent)
  BY <1>1, <1>2, HandlingOK
<1>4. /\ StateOK(labels', sent')
      /\ \A k \in Nat : k < n + 1 /\ Reached(labels, queried, sent, k) => Reached(labels', queried', sent', k)
      /\ Reached(labels, queried, sent, (n + 1) - 1) => Reached(labels', queried', sent', n + 1)
  <2>1. /\ Len(list) \in Nat /\ list = Frames[n + 1] /\ n + 1 = consumption.frame /\ sent' = sent
        /\ \A i \in 1 .. Len(list) : list[i] = Frames[n + 1][i]
    BY <1>1, <1>2, <1>3 DEF ListOK
  <2>2. Len(list) <= Len(Frames[n + 1]) /\ Len(list) = Len(Frames[n + 1])
    BY <2>1
  <2> HIDE DEF list, n
  <2> QED BY <1>1, <1>3, <2>1, <2>2, FrameMerged
<1>5. Reached(labels', queried', sent', n + 1) /\ Reached(labels', queried', sent', checkpoint)
  <2>1. (n + 1) - 1 = n /\ n < n + 1
    BY <1>2
  <2>2. Reached(labels', queried', sent', n + 1)
    BY <1>2, <1>4, <2>1
  <2>3. checkpoint \in Nat /\ Reached(labels, queried, sent, checkpoint) /\ checkpoint <= n
    BY <1>1 DEF LabelInv, ConsumptionOK
  <2>4. checkpoint < n + 1
    BY <1>2, <2>3
  <2> QED BY <1>4, <2>2, <2>3, <2>4
<1>6. ConsumptionOK'
  <2>1. Len(list) \in Nat
    BY <1>3 DEF ListOK
  <2> HIDE DEF list
  <2>2. consumption \in Consumptions
    BY DEF LabelInv, ConsumptionOK, Consumptions
  <2>3. consumption.frames + 1 \in Nat /\ consumption.count + Len(list) \in Nat /\ consumption.frame \in Nat
    BY <2>1, <2>2 DEF Consumptions
  <2>4. /\ consumption' \in Consumptions /\ consumption'.pc = "reading"
        /\ consumption'.last = n + 1 /\ consumption'.at = n + 1
    BY <1>1, <1>2, <2>2, <2>3 DEF Consumptions
  <2>5. checkpoint <= n + 1
    <3>1. checkpoint \in Nat /\ checkpoint <= n
      BY <1>1 DEF LabelInv, ConsumptionOK
    <3> QED BY <1>2, <3>1
  <2> HIDE DEF n
  <2> QED BY <1>1, <1>2, <1>5, <2>4, <2>5 DEF ConsumptionOK, Consumptions
<1>7. QueryOK'
  BY <1>1, QuerySame DEF LabelInv
<1> QED BY <1>1, <1>4, <1>5, <1>6, <1>7 DEF LabelInv

(* a frame handled in part,                                                 *)
LEMMA ConsumeThrowsKeeps == ASSUME LabelInv, ConsumeThrows PROVE LabelInv'
<1>1. /\ UNCHANGED <<sent, subscription, checkpoint, query>> /\ consumption' = NotConsuming
      /\ \E k \in 0 .. IF consumption.pc = "handling" THEN Len(Frames[consumption.frame]) ELSE 0 :
           labels' = IF k = 0 THEN labels ELSE Merged(labels, SubSeq(Frames[consumption.frame], 1, k))
      /\ Streamed
  BY DEF ConsumeThrows
<1>2. StateOK(labels', sent') /\ Reached(labels', queried', sent', checkpoint)
  <2>1. CASE labels' = labels
    <3>1. queried' = queried
      BY <1>1, <2>1 DEF Streamed
    <3> QED BY <1>1, <2>1, <3>1 DEF LabelInv
  <2>2. CASE labels' # labels
    <3> DEFINE list == Frames[consumption.frame]
    <3>1. PICK k \in 0 .. IF consumption.pc = "handling" THEN Len(list) ELSE 0 :
            labels' = IF k = 0 THEN labels ELSE Merged(labels, SubSeq(list, 1, k))
      BY <1>1
    <3>2. consumption.pc = "handling" /\ k # 0
      BY <2>2, <3>1
    <3>3. ListOK(list, sent)
      BY <3>2, HandlingOK
    <3>4. k \in Int /\ k <= Len(list)
      <4>1. Len(list) \in Nat
        BY <3>3 DEF ListOK
      <4> HIDE DEF list
      <4> QED BY <3>1, <3>2, <4>1
    <3>5. PICK some : /\ some = SubSeq(list, 1, k) /\ ListOK(some, sent) /\ Len(some) = k
                      /\ \A i \in 1 .. Len(some) : some[i] = list[i]
      <4>1. k >= 1 /\ list \in Seq(Given)
        BY <3>1, <3>2, <3>3 DEF ListOK
      <4>2. ListOK(SubSeq(list, 1, k), sent) /\ Len(SubSeq(list, 1, k)) = k
        <5> HIDE DEF list
        <5>1. Len(SubSeq(list, 1, k)) = IF 1 <= k THEN k - 1 + 1 ELSE 0
          BY <3>3, <3>4, PartOK
        <5>2. ListOK(SubSeq(list, 1, k), sent)
          BY <3>3, <3>4, PartOK
        <5> QED BY <3>4, <4>1, <5>1, <5>2
      <4>3. \A i \in 1 .. k : SubSeq(list, 1, k)[i] = list[i]
        <5> HIDE DEF list
        <5> QED BY <3>4, <4>1
      <4> QED BY <4>2, <4>3
    <3>6. PICK m : m = consumption.frame /\ m \in Nat
      BY <3>2, HandlingOK
    <3>7. /\ StateOK(labels', sent')
          /\ \A n \in Nat : n < m /\ Reached(labels, queried, sent, n) => Reached(labels', queried', sent', n)
      <4>1. labels' = Merged(labels, some) /\ Streamed /\ sent' = sent /\ Len(some) <= Len(Frames[m])
        BY <1>1, <3>1, <3>2, <3>4, <3>5, <3>6
      <4>2. \A i \in 1 .. Len(some) : some[i] = Frames[m][i]
        BY <3>5, <3>6
      <4> HIDE DEF list
      <4> QED BY <3>2, <3>5, <3>6, <4>1, <4>2, FrameMerged
    <3>8. checkpoint \in Nat /\ checkpoint < m /\ Reached(labels, queried, sent, checkpoint)
      <4>1. checkpoint \in Nat /\ checkpoint <= consumption.last /\ Reached(labels, queried, sent, checkpoint)
        BY <3>2 DEF LabelInv, ConsumptionOK
      <4>2. m = consumption.last + 1 /\ consumption.last \in Nat
        BY <3>2, <3>6 DEF LabelInv, ConsumptionOK, Consumptions
      <4> QED BY <4>1, <4>2
    <3> QED BY <1>1, <3>7, <3>8
  <2> QED BY <2>1, <2>2
<1>3. ConsumptionOK'
  BY <1>1 DEF ConsumptionOK, Consumptions, NotConsuming
<1>4. QueryOK'
  BY <1>1, QuerySame DEF LabelInv
<1> QED BY <1>1, <1>2, <1>3, <1>4 DEF LabelInv

(* the end of the stream,                                                   *)
LEMMA StreamEndsKeeps == ASSUME LabelInv, StreamEnds PROVE LabelInv'
<1>1. ConsumptionOK'
  BY DEF StreamEnds, ConsumptionOK, Consumptions, NotConsuming
<1>2. QueryOK'
  BY QuerySame DEF LabelInv, StreamEnds
<1> QED BY <1>1, <1>2 DEF LabelInv, StreamEnds, ConsumptionOK, Consumptions

(* a query, before its first page,                                          *)
LEMMA AskKeeps == ASSUME LabelInv, Query PROVE LabelInv'
<1>1. QueryOK'
  <2>1. query' = [pc |-> "asking", cursor |-> 0, pages |-> 0, got |-> <<>>, seen |-> {}]
    BY DEF Query, NotAsking
  <2>3. query' \in Queries /\ query'.got = <<>>
    BY <2>1 DEF Queries
  <2>2. ListOK(<<>>, sent') /\ Len(<<>>) <= MaxLabels
    BY LabelsAssumption DEF ListOK
  <2> QED BY <2>2, <2>3 DEF QueryOK
<1>2. ConsumptionOK'
  BY ConsumptionSame DEF LabelInv, Query
<1> QED BY <1>1, <1>2 DEF LabelInv, Query

(* a page, read from what is current now,                                   *)
LEMMA QueryPageKeeps == ASSUME LabelInv, QueryPage PROVE LabelInv'
<1> DEFINE room == Smaller(LabelPageSize, MaxLabels - Len(query.got))
           upto == Smaller(query.cursor + room, Len(Current))
           page == SubSeq(Current, query.cursor + 1, upto)
           got == query.got \o page
<1>1. UNCHANGED <<sent, subscription, consumption, checkpoint, labels, queried>>
  BY DEF QueryPage
<1>2. ListOK(Current, sent)
  BY CurrentGiven DEF LabelInv, ListOK
<1>3. /\ query \in Queries
      /\ ListOK(query.got, sent) /\ Len(query.got) <= MaxLabels
  BY DEF LabelInv, QueryOK
<1>4. MaxLabels \in Nat /\ LabelPageSize \in Nat /\ Len(Current) \in Nat /\ Len(query.got) \in Nat
  BY <1>2, <1>3, LabelsAssumption DEF ListOK
<1>5. /\ room \in Nat /\ room <= MaxLabels - Len(query.got)
      /\ upto \in Int /\ upto <= Len(Current) /\ upto <= query.cursor + room
  <2>1. query.cursor \in Nat
    BY <1>3 DEF Queries
  <2> DEFINE left == MaxLabels - Len(query.got)
  <2>2. left \in Nat
    BY <1>3, <1>4
  <2>3. room = Smaller(LabelPageSize, left)
    OBVIOUS
  <2> HIDE DEF left, room
  <2>4. room \in Nat /\ room <= left
    BY <1>4, <2>2, <2>3 DEF Smaller
  <2>5. upto \in Int /\ upto <= Len(Current) /\ upto <= query.cursor + room
    BY <1>4, <2>1, <2>4 DEF Smaller
  <2> QED BY <2>4, <2>5 DEF left
<1>6. ListOK(page, sent) /\ Len(page) = IF query.cursor + 1 <= upto THEN upto - (query.cursor + 1) + 1 ELSE 0
  <2>1. query.cursor + 1 \in Nat /\ query.cursor + 1 > 0
    BY <1>3 DEF Queries
  <2> HIDE DEF upto
  <2> QED BY <1>2, <1>5, <2>1, PartOK
<1>7. Len(page) <= room /\ Len(page) \in Nat
  <2> HIDE DEF page, upto, room
  <2> QED BY <1>3, <1>5, <1>6 DEF Queries
<1>8. ListOK(got, sent) /\ Len(got) <= MaxLabels
  <2>1. page \in Seq(Given) /\ query.got \in Seq(Given)
    BY <1>3, <1>6 DEF ListOK
  <2> HIDE DEF page
  <2>2. got \in Seq(Given) /\ Len(got) = Len(query.got) + Len(page)
    BY <2>1
  <2>3. ASSUME NEW i \in 1 .. Len(got) PROVE got[i] \in GivenTo(got[i].target, sent)
    <3>1. CASE i <= Len(query.got)
      BY <1>3, <2>1, <3>1 DEF ListOK
    <3>2. CASE i > Len(query.got)
      <4>1. got[i] = page[i - Len(query.got)] /\ i - Len(query.got) \in DOMAIN page
        BY <2>1, <2>2, <3>2
      <4> HIDE DEF got
      <4> QED BY <1>6, <4>1 DEF ListOK
    <3> QED BY <1>4, <3>1, <3>2
  <2>4. DOMAIN got = 1 .. Len(got)
    BY <2>2
  <2> HIDE DEF got, room
  <2> QED BY <1>4, <1>5, <1>7, <2>2, <2>3, <2>4 DEF ListOK
<1> DEFINE read == [query EXCEPT !.got = got, !.pages = @ + 1]
<1>9. PICK next \in {query.cursor + Len(page)} \cup query.seen :
        query' = IF next >= Len(Current) /\ next \notin query.seen THEN [read EXCEPT !.pc = "read"]
                 ELSE IF next \in query.seen THEN NotAsking
                 ELSE [read EXCEPT !.cursor = next, !.seen = @ \cup {next},
                        !.pc = IF query.pages + 1 < MaxLabelPages /\ Len(got) < MaxLabels
                               THEN "asking" ELSE "read"]
  BY DEF QueryPage
<1>10. next \in Nat
  <2> HIDE DEF page
  <2> QED BY <1>3, <1>7, <1>9 DEF Queries
<1> HIDE DEF got, page
<1>11. got \in Seq(Given)
  BY <1>8 DEF ListOK
<1>12. QueryOK'
  <2>1. CASE query' = NotAsking
    BY <1>4, <2>1 DEF QueryOK, Queries, NotAsking, ListOK
  <2>2. CASE query' # NotAsking
    <3>1. query'.got = got /\ query' \in Queries
      <4>1. read \in Queries /\ read.got = got
        <5>1. query.pages + 1 \in Nat
          BY <1>3 DEF Queries
        <5> QED BY <1>3, <1>11, <5>1 DEF Queries
      <4> HIDE DEF read
      <4>2. CASE query' = [read EXCEPT !.pc = "read"]
        BY <4>1, <4>2 DEF Queries
      <4>3. CASE query' = [read EXCEPT !.cursor = next, !.seen = query.seen \cup {next},
                          !.pc = IF query.pages + 1 < MaxLabelPages /\ Len(got) < MaxLabels
                                 THEN "asking" ELSE "read"]
        <5>1. query.seen \cup {next} \in SUBSET Nat
          BY <1>3, <1>10 DEF Queries
        <5> QED BY <1>10, <4>1, <4>3, <5>1 DEF Queries
      <4>4. read.seen = query.seen
        BY <1>3 DEF read, Queries
      <4> QED BY <1>9, <2>2, <4>2, <4>3, <4>4
    <3> QED BY <1>1, <1>8, <3>1 DEF QueryOK
  <2> QED BY <2>1, <2>2
<1>13. ConsumptionOK'
  BY <1>1, ConsumptionSame DEF LabelInv
<1> QED BY <1>1, <1>12, <1>13 DEF LabelInv

(* the pages merged, however old by then,                                   *)
LEMMA QueryMergedKeeps == ASSUME LabelInv, QueryMerged PROVE LabelInv'
<1>1. /\ UNCHANGED <<sent, subscription, consumption, checkpoint>> /\ query' = NotAsking
      /\ labels' = Merged(labels, query.got)
      /\ queried' = queried \cup {t \in Targets : labels'[t] # labels[t]}
  BY DEF QueryMerged
<1> DEFINE list == query.got
<1>2. /\ StateOK(labels', sent') /\ Reached(labels', queried', sent', checkpoint)
      /\ consumption.pc # "off" => Reached(labels', queried', sent', consumption.last)
  <2>1. /\ ListOK(list, sent) /\ StateOK(labels, sent) /\ sent \in Nat /\ sent <= Len(Frames)
        /\ sent' = sent
    BY <1>1 DEF LabelInv, QueryOK
  <2> HIDE DEF list
  <2>2. StateOK(labels', sent) /\ Follows(labels', labels, list, Len(list))
    BY <1>1, <2>1, MergedOK DEF list
  <2>4. ASSUME NEW n \in Nat, n <= sent, Reached(labels, queried, sent, n)
        PROVE  Reached(labels', queried', sent, n)
    <3>1. \A t \in Targets :
            \/ labels'[t] = labels[t] /\ (t \in queried => t \in queried')
            \/ /\ labels'[t].cts >= labels[t].cts
               /\ t \in queried' \/ \E r \in PlacesOf(t, sent) : labels'[t] = LabelAt(r) /\ r[1] > n
      BY <1>1, <2>2 DEF Follows, FollowsAt
    <3>2. labels \in [Targets -> Dated] /\ labels' \in [Targets -> Dated]
      BY <2>1, <2>2 DEF StateOK
    <3> QED BY <2>1, <2>4, <3>1, <3>2, ReachedStays
  <2>5. /\ checkpoint \in Nat /\ checkpoint <= sent /\ Reached(labels, queried, sent, checkpoint)
        /\ consumption.pc # "off" => /\ consumption.last \in Nat /\ consumption.last <= sent
                                    /\ Reached(labels, queried, sent, consumption.last)
    BY DEF LabelInv, ConsumptionOK, Consumptions
  <2> QED BY <2>1, <2>2, <2>4, <2>5
<1>3. ConsumptionOK'
  BY <1>1, <1>2 DEF LabelInv, ConsumptionOK, Consumptions
<1>4. QueryOK'
  BY <1>1, LabelsAssumption DEF QueryOK, Queries, NotAsking, ListOK
<1> QED BY <1>1, <1>2, <1>3, <1>4 DEF LabelInv

(* the next frame sent,                                                     *)
LEMMA LabelerSendsKeeps == ASSUME LabelInv, LabelerSends PROVE LabelInv'
<1>1. /\ sent' = sent + 1 /\ sent + 1 <= Len(Frames) /\ sent \in Nat
      /\ UNCHANGED <<subscription, consumption, checkpoint, labels, queried, query>>
  BY LabelsAssumption DEF LabelInv, LabelerSends
<1>2. sent + 1 \in Nat /\ sent <= sent + 1
  BY <1>1
<1>3. /\ StateOK(labels, sent + 1) /\ \A list : ListOK(list, sent) => ListOK(list, sent + 1)
      /\ \A n : Reached(labels, queried, sent, n) => Reached(labels, queried, sent + 1, n)
  BY <1>1, <1>2, LaterOK DEF LabelInv
<1>4. ConsumptionOK'
  BY <1>1, <1>3 DEF LabelInv, ConsumptionOK, Consumptions
<1>5. QueryOK'
  BY <1>1, <1>3 DEF LabelInv, QueryOK
<1> QED BY <1>1, <1>3, <1>4, <1>5 DEF LabelInv

(* the end of the subscription.                                             *)
LEMMA UnsubscribeKeeps == ASSUME LabelInv, Unsubscribe PROVE LabelInv'
<1>1. QueryOK'
  BY QuerySame DEF LabelInv, Unsubscribe
<1>2. ConsumptionOK'
  BY ConsumptionSame DEF LabelInv, Unsubscribe
<1> QED BY <1>1, <1>2 DEF LabelInv, Unsubscribe

(* Every step keeps the inductive invariant.                                *)
LEMMA LabelsKept == ASSUME LabelInv, [LabelsNext]_labelVars PROVE LabelInv'
<1>1. CASE UNCHANGED labelVars
  <2>1. ConsumptionOK' /\ QueryOK'
    BY <1>1, ConsumptionSame, QuerySame DEF LabelInv, labelVars
  <2> QED BY <1>1, <2>1 DEF LabelInv, labelVars
<1> QED BY <1>1, ConsumeKeeps, ReceiveKeeps, FrameHandledKeeps, ConsumeThrowsKeeps, StreamEndsKeeps,
           AskKeeps, QueryPageKeeps, QueryMergedKeeps, LabelerSendsKeeps, UnsubscribeKeeps DEF LabelsNext

(* The inductive invariant holds throughout: what the cursor passed is held *)
(* or superseded, and all that is held was given.                           *)
THEOREM LabelsInvariant == LabelsSpec => []LabelInv
BY LabelsFirst, LabelsKept, PTL DEF LabelsSpec

(* A target's label at a place it stands against is no older than it.       *)
LEMMA StandsNoOlder ==
  ASSUME LabelInv, NEW t \in Targets, NEW n \in Nat, n <= sent, NEW p \in PlacesOf(t, n),
         Stands(labels, queried, sent, t, p)
  PROVE  /\ labels[t].cts >= LabelAt(p).cts /\ labels[t].cts \in Nat
         /\ p \in Placed /\ LabelAt(p).cts \in Nat /\ LabelAt(p).cts > 0
<1>1. n <= Len(Frames) /\ labels[t] \in Dated
  BY LabelsAssumption DEF LabelInv, StateOK
<1>2. p \in Placed /\ LabelAt(p).cts \in Nat /\ LabelAt(p).cts > 0 /\ labels[t].cts \in Nat
  BY <1>1, PlacesPlaced, PlacedGiven, DatedTyped
<1>3. ASSUME NEW r \in PlacesOf(t, sent), labels[t] = LabelAt(r), Beats(r, p)
      PROVE  labels[t].cts >= LabelAt(p).cts
  BY <1>2, <1>3 DEF Beats, Supersedes
<1> QED BY <1>2, <1>3 DEF Stands

(* Every label of a frame the host's cursor has passed is in the state or   *)
(* gave way to one no older, whatever failed on the way (consume awaits     *)
(* onFrame before the frame counts).                                        *)
THEOREM LabelsNothingSkipped == LabelsSpec => []NothingSkipped
<1>1. LabelInv => NothingSkipped
  <2> SUFFICES ASSUME LabelInv, NEW t \in Targets, NEW p \in PlacesOf(t, checkpoint)
               PROVE  labels[t].cts >= LabelAt(p).cts
    BY DEF NothingSkipped
  <2>1. checkpoint \in Nat /\ checkpoint <= sent /\ Stands(labels, queried, sent, t, p)
    BY DEF LabelInv, Reached
  <2> QED BY <2>1, StandsNoOlder
<1> QED BY <1>1, LabelsInvariant, PTL

(* A host that has consumed all that was sent has the labeler's last word on *)
(* every target, of labels of one time the last sent, though frames were     *)
(* replayed or handled in part; where a query brought the label, it is of    *)
(* the time of the last word (mergeRecommendationAtprotoLabelState).        *)
THEOREM LabelsStateConverges == LabelsSpec => []LabelsConverge
<1>1. LabelInv => LabelsConverge
  <2> SUFFICES ASSUME LabelInv, checkpoint = sent, NEW t \in Targets
               PROVE  labels[t] = Newest(t, sent) \/ (t \in queried /\ labels[t].cts = Newest(t, sent).cts)
    BY DEF LabelsConverge
  <2>1. /\ sent \in Nat /\ sent <= Len(Frames) /\ Reached(labels, queried, sent, sent)
        /\ labels[t] = NoLabel \/ labels[t] \in GivenTo(t, sent)
    BY DEF LabelInv, StateOK
  <2>2. CASE PlacesOf(t, sent) = {}
    BY <2>1, <2>2 DEF Newest, GivenTo
  <2>3. CASE PlacesOf(t, sent) # {}
    <3>1. PICK p \in PlacesOf(t, sent) :
            Newest(t, sent) = LabelAt(p) /\ \A r \in PlacesOf(t, sent) : Beats(p, r)
      BY <2>1, <2>3, NewestIsLast
    <3>2. Stands(labels, queried, sent, t, p)
      BY <2>1 DEF Reached
    <3>3. /\ labels[t].cts >= LabelAt(p).cts /\ labels[t].cts \in Nat
          /\ p \in Placed /\ LabelAt(p).cts \in Nat /\ LabelAt(p).cts > 0
      BY <2>1, <3>2, StandsNoOlder
    <3>4. ASSUME NEW r \in PlacesOf(t, sent), labels[t] = LabelAt(r), Beats(r, p)
          PROVE  labels[t] = Newest(t, sent)
      <4>1. r \in Placed /\ Beats(p, r)
        BY <2>1, <3>1, PlacesPlaced
      <4>2. r = p
        BY <3>3, <3>4, <4>1, BeatsOrder
      <4> QED BY <3>1, <3>4, <4>2
    <3>5. CASE t \in queried
      <4>1. labels[t] # NoLabel
        BY <3>3 DEF NoLabel
      <4>2. PICK r \in PlacesOf(t, sent) : labels[t] = LabelAt(r)
        BY <2>1, <4>1 DEF GivenTo
      <4>3. Beats(p, r)
        BY <3>1
      <4>4. LabelAt(p).cts >= labels[t].cts
        BY <3>3, <4>2, <4>3 DEF Beats, Supersedes
      <4> QED BY <3>1, <3>3, <3>5, <4>4
    <3> QED BY <3>2, <3>4, <3>5 DEF Stands
  <2> QED BY <2>2, <2>3
<1> QED BY <1>1, LabelsInvariant, PTL

(* A signal is derived only under the subscription, where a time is given    *)
(* only from a label that has not expired, and never from one that a frame   *)
(* the cursor has passed takes back: it is newer, or as new and sent after   *)
(* it or brought by a query (evaluateRecommendationLabelerSignalPolicy).     *)
THEOREM LabelsEvidenceIsCurrent == LabelsSpec => []EvidenceIsCurrent
<1>1. LabelInv => EvidenceIsCurrent
  <2> SUFFICES ASSUME LabelInv, NEW now \in Times \cup {NoTime}, NEW t \in Derived(now)
               PROVE  /\ MayAsk
                      /\ now # NoTime => labels[t].expires > now
                      /\ \A p \in PlacesOf(t, checkpoint) : LabelAt(p).negated =>
                           \/ \E r \in PlacesOf(t, sent) : labels[t] = LabelAt(r) /\ Supersedes(r, p)
                           \/ t \in queried /\ labels[t].cts >= LabelAt(p).cts
    BY DEF EvidenceIsCurrent
  <2> DEFINE label == labels[t]
  <2>1. /\ t \in Targets /\ label # NoLabel
        /\ Evaluate([allowed |-> TRUE, use |-> "ranking"], subscription, label, now) = "accept"
    BY DEF Derived, SignalFromLabel
  <2>2. /\ subscription.made /\ ~subscription.revoked /\ ~label.negated
        /\ label.labeler = subscription.labeler /\ (now # NoTime => ~Expired(label, now))
    BY <2>1 DEF Evaluate
  <2>3. /\ sent \in Nat /\ sent <= Len(Frames) /\ checkpoint \in Nat /\ checkpoint <= sent
        /\ Reached(labels, queried, sent, checkpoint) /\ label \in GivenTo(t, sent)
    BY <2>1 DEF LabelInv, StateOK
  <2>4. MayAsk
    BY <2>2 DEF LabelInv, MayAsk
  <2>5. label.expires \in Nat
    BY <2>3, GivenToIsGiven, GivenTyped
  <2>6. ASSUME now # NoTime PROVE label.expires > now
    <3>1. now \in Nat
      BY <2>6, LabelsAssumption
    <3> QED BY <2>2, <2>5, <2>6, <3>1 DEF Expired
  <2>7. ASSUME NEW p \in PlacesOf(t, checkpoint), LabelAt(p).negated
        PROVE  \/ \E r \in PlacesOf(t, sent) : labels[t] = LabelAt(r) /\ Supersedes(r, p)
               \/ t \in queried /\ labels[t].cts >= LabelAt(p).cts
    <3>1. Stands(labels, queried, sent, t, p)
      BY <2>1, <2>3 DEF Reached
    <3>2. ASSUME NEW r \in PlacesOf(t, sent), labels[t] = LabelAt(r), Beats(r, p) PROVE Supersedes(r, p)
      <4>1. r # p
        BY <2>2, <2>7, <3>2
      <4> QED BY <3>2, <4>1 DEF Beats
    <3> QED BY <3>1, <3>2 DEF Stands
  <2> QED BY <2>4, <2>6, <2>7
<1> QED BY <1>1, LabelsInvariant, PTL
=============================================================================
