--------------------------- MODULE PersistenceProofs ---------------------------
(***************************************************************************)
(* Proofs about ProfilePersistence for any clients, manifests, grants,     *)
(* writes and bounds: a Pod document is changed only by the call that read *)
(* it; a verified write was stored; a lapsed grant lets every client make  *)
(* at most the change it was already authorized for; a record is stored    *)
(* only where placement and consent allow it.                              *)
(***************************************************************************)
EXTENDS ProfilePersistence, TLAPS

(* What the store phase of a call knows, d being what the Pod holds and n  *)
(* the tags handed out: the tag is the one of the document it has seen, and *)
(* no other document carries it.                                           *)
KnowsItsTag(k, d, n) ==
  \/ k.seen = NoDoc /\ k.tag = NoTag
  \/ /\ k.seen # NoDoc /\ k.tag = k.seen.tag /\ k.tag \in 1 .. n
     /\ d # NoDoc /\ d.tag = k.tag => d = k.seen

(* The shape of a call, and what it knows when it is about to store.        *)
CallOK(k, d, n, pod) ==
  \/ k = Idle
  \/ /\ k = [op |-> k.op, stage |-> k.stage, phase |-> k.phase, record |-> k.record,
             tag |-> k.tag, seen |-> k.seen, input |-> k.input]
     /\ k.op = "write" => k.record # Garbled
     /\ k.stage = "verify" => k.op = "write"
     /\ pod /\ k.phase = "store" => KnowsItsTag(k, d, n)

(* A client that made a change since the grant lapsed must ask again.      *)
AsksAgain(k) == k = Idle \/ k.phase = "authorize"

(* A call goes on with what it was asked for.                              *)
SameRequest(k, next) == next = Idle \/ (next.op = k.op /\ next.input = k.input)

(* All calls are in order.                                                  *)
CallsOK ==
  /\ calls = [c \in Clients |-> calls[c]]
  /\ \A c \in Clients : CallOK(calls[c], doc, tags, OnPod)

(* The document of the Pod has a tag that was handed out.                   *)
TagsOK == /\ tags \in Nat
          /\ doc # NoDoc => doc.tag \in 1 .. tags

(* What is stored is garbled, or one of the records stored intact.          *)
DocIsIntact == doc # NoDoc => doc.record = Garbled \/ doc.record.id \in intact

(* Who changed something since the grant lapsed asks again.                 *)
LateOK ==
  /\ late \in [Clients -> {0, 1}]
  /\ \A c \in Clients : late[c] = 1 => OnPod /\ Lapsed(grant) /\ AsksAgain(calls[c])

(* The types of the environment.                                            *)
TimesOK == grant \in Grants /\ clock \in Nat /\ writes \in Nat

(* The inductive invariant.                                                 *)
PInv == CallsOK /\ TagsOK /\ DocIsIntact /\ LateOK /\ TimesOK /\ VerifiedMeansStored

-----------------------------------------------------------------------------
LEMMA InitPInv == Init => PInv
  <1> SUFFICES ASSUME Init PROVE PInv
    OBVIOUS
  <1>1. CallsOK
    BY DEF Init, CallsOK, CallOK
  <1>2. TagsOK /\ DocIsIntact /\ TimesOK /\ VerifiedMeansStored
    BY DEF Init, TagsOK, DocIsIntact, TimesOK, VerifiedMeansStored
  <1>3. LateOK
    BY DEF Init, LateOK
  <1> QED BY <1>1, <1>2, <1>3 DEF PInv

(* The operation a call turns to begins with the authorization on a Pod.    *)
LEMMA TurnsTo ==
  ASSUME NEW c \in Clients, NEW stage, CallsOK, calls[c] # Idle,
         stage = "verify" => calls[c].op = "write"
  PROVE  /\ CallOK(At(calls[c], stage), doc, tags, OnPod)
         /\ OnPod => At(calls[c], stage).phase = "authorize"
         /\ SameRequest(calls[c], At(calls[c], stage))
  <1> DEFINE k == calls[c]
             a == At(k, stage)
             p == IF OnPod THEN "authorize"
                  ELSE IF Operation([k EXCEPT !.stage = stage]) = "read" THEN "fetch" ELSE "store"
  <1>1. k = [op |-> k.op, stage |-> k.stage, phase |-> k.phase, record |-> k.record,
             tag |-> k.tag, seen |-> k.seen, input |-> k.input]
        /\ (k.op = "write" => k.record # Garbled)
    BY DEF CallsOK, CallOK
  <1>2. OnPod => p = "authorize"
    OBVIOUS
  <1>3. a = [k EXCEPT !.stage = stage, !.tag = NoTag, !.phase = p]
    BY DEF At
  <1> HIDE DEF p, a
  <1>4. a = [op |-> k.op, stage |-> stage, phase |-> p, record |-> k.record,
             tag |-> NoTag, seen |-> k.seen, input |-> k.input]
    <2> HIDE DEF k
    <2> QED BY <1>1, <1>3
  <1>5. CallOK(a, doc, tags, OnPod)
    BY <1>1, <1>2, <1>4 DEF CallOK
  <1> QED BY <1>2, <1>4, <1>5 DEF a, SameRequest

(* A step of client c that leaves the store and its tags alone.             *)
LEMMA QuietStep ==
  ASSUME PInv, NEW c \in Clients,
         UNCHANGED <<manifest, grant, clock, doc, tags, intact, late>>, writes' \in Nat,
         calls' = [calls EXCEPT ![c] = calls'[c]],
         CallOK(calls'[c], doc, tags, OnPod),
         late[c] = 1 => AsksAgain(calls'[c]),
         verified' \subseteq intact
  PROVE  PInv'
  <1>1. \A d \in Clients : d # c => calls'[d] = calls[d]
    BY DEF PInv, CallsOK
  <1>2. CallsOK'
    <2>1. calls' = [d \in Clients |-> calls'[d]]
      BY DEF PInv, CallsOK
    <2>2. \A d \in Clients : CallOK(calls'[d], doc, tags, OnPod)
      BY <1>1 DEF PInv, CallsOK
    <2> QED BY <2>1, <2>2 DEF CallsOK, CallOK, KnowsItsTag, OnPod
  <1>3. TagsOK' /\ DocIsIntact' /\ TimesOK' /\ VerifiedMeansStored'
    BY DEF PInv, TagsOK, DocIsIntact, TimesOK, VerifiedMeansStored
  <1>4. LateOK'
    BY <1>1 DEF PInv, LateOK, Lapsed, OnPod, AsksAgain
  <1> QED BY <1>2, <1>3, <1>4 DEF PInv

(* A change of the store by client c, in its store phase.                   *)
LEMMA ChangingStep ==
  ASSUME PInv, NEW c \in Clients, InPhase(c, "store"),
         UNCHANGED <<manifest, grant, clock, writes, verified>>,
         calls' = [calls EXCEPT ![c] = calls'[c]],
         CallOK(calls'[c], doc, tags, OnPod),
         calls'[c] = Idle \/ (OnPod => calls'[c].phase = "authorize"),
         late' = (IF OnPod /\ Lapsed(grant) THEN [late EXCEPT ![c] = @ + 1] ELSE late),
         \/ doc' = NoDoc /\ UNCHANGED <<tags, intact>>
         \/ /\ doc' # NoDoc => doc'.tag = tags + 1
            /\ tags' = tags + 1 /\ intact \subseteq intact'
            /\ doc' # NoDoc => doc'.record = Garbled \/ doc'.record.id \in intact'
  PROVE  PInv'
  <1>1. \A d \in Clients : d # c => calls'[d] = calls[d]
    BY DEF PInv, CallsOK
  <1>2. CallsOK'
    <2>1. calls' = [d \in Clients |-> calls'[d]]
      BY DEF PInv, CallsOK
    <2>2. \A d \in Clients : d # c => CallOK(calls'[d], doc', tags', OnPod)
      BY <1>1 DEF PInv, CallsOK, TagsOK, CallOK, KnowsItsTag
    <2>3. CallOK(calls'[c], doc', tags', OnPod)
      BY DEF CallOK
    <2> QED BY <2>1, <2>2, <2>3 DEF CallsOK, CallOK, KnowsItsTag, OnPod
  <1>3. TagsOK'
    BY DEF PInv, TagsOK
  <1>4. DocIsIntact' /\ TimesOK' /\ VerifiedMeansStored'
    BY DEF PInv, DocIsIntact, TimesOK, VerifiedMeansStored
  <1>5. LateOK'
    <2>1. late[c] = 0
      BY DEF PInv, LateOK, AsksAgain, InPhase
    <2>2. late' \in [Clients -> {0, 1}]
      BY <2>1 DEF PInv, LateOK
    <2>3. \A d \in Clients : late'[d] = 1 => OnPod /\ Lapsed(grant) /\ AsksAgain(calls'[d])
      BY <1>1, <2>1 DEF PInv, LateOK, AsksAgain
    <2> QED BY <2>2, <2>3 DEF LateOK, Lapsed, OnPod, AsksAgain
  <1> QED BY <1>2, <1>3, <1>4, <1>5 DEF PInv

(* A call that throws is over and has verified nothing.                     *)
LEMMA FailureEnds ==
  ASSUME PInv, NEW c \in Clients, calls[c] # Idle, AdapterFails(c)
  PROVE  /\ calls' = [calls EXCEPT ![c] = Idle] /\ calls'[c] = Idle
         /\ verified' = verified
  <1>1. Ends(c) /\ verified' = verified
    <2>1. CASE calls[c].stage = "verify"
      BY <2>1 DEF AdapterFails, VerificationFailed
    <2>2. CASE calls[c].stage # "verify"
      BY <2>2 DEF AdapterFails, Returns
    <2> QED BY <2>1, <2>2
  <1> QED BY <1>1 DEF Ends, PInv, CallsOK

(* A successful change ends the call, or turns it to its verification.      *)
LEMMA DoneEndsOrTurns ==
  ASSUME PInv, NEW c \in Clients, calls[c] # Idle, AdapterDone(c)
  PROVE  /\ calls' = [calls EXCEPT ![c] = calls'[c]] /\ verified' = verified
         /\ CallOK(calls'[c], doc, tags, OnPod)
         /\ calls'[c] = Idle \/ (OnPod => calls'[c].phase = "authorize")
         /\ SameRequest(calls[c], calls'[c])
  <1>1. CASE calls[c].stage = "main" /\ calls[c].op = "write" /\ Verifies(calls[c].input)
    <2>1. calls' = [calls EXCEPT ![c] = At(calls[c], "verify")] /\ verified' = verified
      BY <1>1 DEF AdapterDone, Continues
    <2>2. calls'[c] = At(calls[c], "verify")
      BY <2>1 DEF PInv, CallsOK
    <2>3. CallOK(At(calls[c], "verify"), doc, tags, OnPod)
          /\ (OnPod => At(calls[c], "verify").phase = "authorize")
          /\ SameRequest(calls[c], At(calls[c], "verify"))
      BY <1>1, TurnsTo DEF PInv
    <2>4. calls' = [calls EXCEPT ![c] = calls'[c]]
      BY <2>1, <2>2
    <2>5. CallOK(calls'[c], doc, tags, OnPod) /\ (OnPod => calls'[c].phase = "authorize")
          /\ SameRequest(calls[c], calls'[c])
      BY <2>2, <2>3
    <2> QED BY <2>1, <2>4, <2>5
  <1>2. CASE ~(calls[c].stage = "main" /\ calls[c].op = "write" /\ Verifies(calls[c].input))
    <2>1. calls' = [calls EXCEPT ![c] = Idle] /\ verified' = verified
      BY <1>2 DEF AdapterDone, VerificationFailed, Returns, Ends
    <2>2. calls'[c] = Idle
      BY <2>1 DEF PInv, CallsOK
    <2> QED BY <2>1, <2>2 DEF CallOK, SameRequest
  <1> QED BY <1>1, <1>2

(* A client in another phase than authorize has changed nothing since the   *)
(* grant lapsed.                                                            *)
LEMMA NotLate ==
  ASSUME PInv, NEW c \in Clients, calls[c] # Idle, calls[c].phase # "authorize"
  PROVE  late[c] # 1
  BY DEF PInv, LateOK, AsksAgain

LEMMA RequestStep ==
  ASSUME PInv, NEW c \in Clients, Request(c)
  PROVE  PInv'
  <1>1. ASSUME NEW op, NEW record, NEW input, Starts(c, NewCall(op, record, input)),
               op = "write" => record # Garbled, writes' \in Nat
        PROVE  PInv'
    <2> DEFINE base == [op |-> op, stage |-> "main", phase |-> "", record |-> record,
                        tag |-> NoTag, seen |-> NoDoc, input |-> input]
               k == NewCall(op, record, input)
               p == IF OnPod THEN "authorize"
                    ELSE IF Operation([base EXCEPT !.stage = "main"]) = "read" THEN "fetch"
                    ELSE "store"
    <2>1. calls' = [calls EXCEPT ![c] = k]
      BY <1>1 DEF Starts
    <2>2. calls'[c] = k
      BY <2>1 DEF PInv, CallsOK
    <2>3. k = [base EXCEPT !.stage = "main", !.tag = NoTag, !.phase = p]
      BY DEF NewCall, At
    <2>4. OnPod => p = "authorize"
      OBVIOUS
    <2> HIDE DEF p, k
    <2>5. k = [op |-> op, stage |-> "main", phase |-> p, record |-> record,
               tag |-> NoTag, seen |-> NoDoc, input |-> input]
      BY <2>3
    <2>6. CallOK(k, doc, tags, OnPod) /\ (OnPod => k.phase = "authorize")
      BY <1>1, <2>4, <2>5 DEF CallOK
    <2>7. late[c] = 1 => AsksAgain(k)
      BY <2>6 DEF PInv, LateOK, AsksAgain
    <2>8. UNCHANGED <<manifest, grant, clock, doc, tags, intact, late, verified>>
      BY <1>1 DEF Starts, environment, history
    <2>9. verified' \subseteq intact
      BY <2>8 DEF PInv, VerifiedMeansStored
    <2> HIDE DEF base
    <2> QED BY <1>1, <2>1, <2>2, <2>6, <2>7, <2>8, <2>9, QuietStep
  <1>2. ASSUME NEW w \in Writes, BeginWrite(c, w)
        PROVE  PInv'
    <2>1. writes' = writes + 1 /\ writes < MaxWrites /\ writes \in Nat
      BY <1>2 DEF BeginWrite, PInv, TimesOK
    <2> DEFINE record == [id |-> writes', boundaries |-> w.boundaries, expires |-> w.expires]
    <2>2. record # Garbled
      BY <2>1, PersistenceAssumption
    <2>3. Starts(c, NewCall("write", record, w))
      BY <1>2 DEF BeginWrite
    <2> HIDE DEF record
    <2> QED BY <1>1, <2>1, <2>2, <2>3
  <1>3. ASSUME NEW w \in Writes, WriteDenied(c, w)
        PROVE  PInv'
    BY <1>3 DEF WriteDenied, vars, PInv, CallsOK, CallOK, KnowsItsTag, OnPod, TagsOK, DocIsIntact,
                LateOK, Lapsed, AsksAgain, TimesOK, VerifiedMeansStored
  <1>4. ASSUME NEW deleteExpired \in BOOLEAN, BeginRead(c, deleteExpired)
        PROVE  PInv'
    <2>1. writes' \in Nat /\ Starts(c, NewCall("read", Garbled, [deleteExpired |-> deleteExpired]))
      BY <1>4 DEF BeginRead, PInv, TimesOK
    <2> QED BY <1>1, <2>1
  <1>5. ASSUME BeginDelete(c)
        PROVE  PInv'
    <2>1. writes' \in Nat /\ Starts(c, NewCall("delete", Garbled, [deleteExpired |-> FALSE]))
      BY <1>5 DEF BeginDelete, PInv, TimesOK
    <2> QED BY <1>1, <2>1
  <1> QED BY <1>2, <1>3, <1>4, <1>5 DEF Request

(* A step of c that ends its call, and leaves the store alone.              *)
LEMMA EndingStep ==
  ASSUME PInv, NEW c \in Clients,
         UNCHANGED <<manifest, grant, clock, doc, writes, tags, intact, late>>,
         calls' = [calls EXCEPT ![c] = Idle], verified' \subseteq intact
  PROVE  PInv'
  <1>1. calls'[c] = Idle
    BY DEF PInv, CallsOK
  <1>2. CallOK(calls'[c], doc, tags, OnPod) /\ AsksAgain(calls'[c])
    BY <1>1 DEF CallOK, AsksAgain
  <1>3. writes' \in Nat /\ calls' = [calls EXCEPT ![c] = calls'[c]]
    BY <1>1 DEF PInv, TimesOK
  <1> QED BY <1>2, <1>3, QuietStep

LEMMA AuthorizeStep ==
  ASSUME PInv, NEW c \in Clients, Authorize(c)
  PROVE  PInv'
  <1> DEFINE k == calls[c]
  <1>1. /\ k # Idle /\ k.phase = "authorize" /\ writes' \in Nat
        /\ UNCHANGED <<manifest, grant, clock, doc, writes, tags, intact, late>>
    BY DEF Authorize, InPhase, environment, PInv, TimesOK
  <1>2. CASE GrantAllows(grant, Operation(k))
    <2>1. calls' = [calls EXCEPT ![c] = [k EXCEPT !.phase = "fetch"]] /\ verified' = verified
      BY <1>2 DEF Authorize, Continues
    <2>2. calls'[c] = [k EXCEPT !.phase = "fetch"]
      BY <2>1 DEF PInv, CallsOK
    <2>3. CallOK(k, doc, tags, OnPod)
      BY DEF PInv, CallsOK
    <2>4. CallOK(calls'[c], doc, tags, OnPod)
      <3> HIDE DEF k
      <3> QED BY <1>1, <2>2, <2>3 DEF CallOK
    <2>5. ~Lapsed(grant)
      <3>1. ~grant.revoked /\ grant.expires > clock
        BY <1>2 DEF GrantAllows, GrantCurrent
      <3>2. grant.expires \in Nat /\ clock \in Nat
        BY PersistenceAssumption DEF PInv, TimesOK
      <3> QED BY <3>1, <3>2 DEF Lapsed
    <2>6. late[c] # 1
      BY <2>5 DEF PInv, LateOK
    <2>7. verified' \subseteq intact
      BY <2>1 DEF PInv, VerifiedMeansStored
    <2>8. calls' = [calls EXCEPT ![c] = calls'[c]]
      BY <2>1, <2>2
    <2> QED BY <1>1, <2>4, <2>6, <2>7, <2>8, QuietStep
  <1>3. CASE ~GrantAllows(grant, Operation(k))
    <2>1. calls' = [calls EXCEPT ![c] = Idle] /\ verified' = verified
      BY <1>1, <1>3, FailureEnds DEF Authorize
    <2>2. verified' \subseteq intact
      BY <2>1 DEF PInv, VerifiedMeansStored
    <2> QED BY <1>1, <2>1, <2>2, EndingStep
  <1> QED BY <1>2, <1>3

(* A step of c that turns its call to another operation.                    *)
LEMMA TurningStep ==
  ASSUME PInv, NEW c \in Clients, NEW stage, calls[c] # Idle, calls[c].phase # "authorize",
         stage = "verify" => calls[c].op = "write",
         UNCHANGED <<manifest, grant, clock, doc, writes, tags, intact, late>>,
         Continues(c, At(calls[c], stage))
  PROVE  PInv'
  <1>1. calls' = [calls EXCEPT ![c] = At(calls[c], stage)] /\ verified' = verified
    BY DEF Continues
  <1>2. calls'[c] = At(calls[c], stage)
    BY <1>1 DEF PInv, CallsOK
  <1>3. CallOK(calls'[c], doc, tags, OnPod)
    BY <1>2, TurnsTo DEF PInv
  <1>4. verified' \subseteq intact /\ writes' \in Nat
    BY <1>1 DEF PInv, VerifiedMeansStored, TimesOK
  <1>5. late[c] # 1
    BY NotLate
  <1>6. calls' = [calls EXCEPT ![c] = calls'[c]]
    BY <1>1, <1>2
  <1> QED BY <1>3, <1>4, <1>5, <1>6, QuietStep

(* The read that verifies a write: what it found was stored ungarbled.      *)
LEMMA FetchReadStep ==
  ASSUME PInv, NEW c \in Clients, FetchRead(c)
  PROVE  PInv'
  <1> DEFINE k == calls[c]
  <1>1. /\ k # Idle /\ k.phase # "authorize"
        /\ UNCHANGED <<manifest, grant, clock, doc, writes, tags, intact, late>>
    BY DEF FetchRead, InPhase, environment
  <1>2. verified \subseteq intact
    BY DEF PInv, VerifiedMeansStored
  <1>3. CASE AdapterFails(c)
    BY <1>1, <1>2, <1>3, FailureEnds, EndingStep
  <1>4. CASE Returns(c) \/ VerificationFailed(c)
    BY <1>1, <1>2, <1>4, EndingStep DEF Returns, VerificationFailed, Ends
  <1>5. CASE Continues(c, At(k, "expire"))
    BY <1>1, <1>5, TurningStep
  <1>6. CASE k.stage = "verify" /\ Verify(c, doc)
    <2>1. CASE doc # NoDoc /\ doc.record = k.record
      <3>1. Ends(c) /\ verified' = verified \cup {k.record.id}
        BY <1>6, <2>1 DEF Verify, ReturnsVerified
      <3>2. k.record # Garbled
        BY <1>1, <1>6 DEF PInv, CallsOK, CallOK
      <3>3. k.record.id \in intact
        BY <2>1, <3>2 DEF PInv, DocIsIntact
      <3> QED BY <1>1, <1>2, <3>1, <3>3, EndingStep DEF Ends
    <2>2. CASE ~(doc # NoDoc /\ doc.record = k.record)
      <3>1. Continues(c, At(k, "cleanup")) \/ VerificationFailed(c)
        BY <1>6, <2>2 DEF Verify
      <3>2. CASE Continues(c, At(k, "cleanup"))
        BY <1>1, <3>2, TurningStep
      <3> QED BY <1>4, <3>1, <3>2
    <2> QED BY <2>1, <2>2
  <1> QED BY <1>3, <1>4, <1>5, <1>6 DEF FetchRead

LEMMA FetchTagStep ==
  ASSUME PInv, NEW c \in Clients, FetchTag(c)
  PROVE  PInv'
  <1> DEFINE k == calls[c]
             t == IF doc = NoDoc THEN NoTag ELSE doc.tag
  <1>1. /\ k # Idle /\ k.phase # "authorize" /\ writes' \in Nat
        /\ UNCHANGED <<manifest, grant, clock, doc, writes, tags, intact, late>>
    BY DEF FetchTag, InPhase, environment, PInv, TimesOK
  <1>2. verified \subseteq intact
    BY DEF PInv, VerifiedMeansStored
  <1>3. late[c] # 1
    BY <1>1, NotLate
  <1>4. CASE doc = NoDoc /\ Operation(k) = "delete"
    <2>1. AdapterDone(c)
      BY <1>4 DEF FetchTag
    <2> QED BY <1>1, <1>2, <1>3, <2>1, DoneEndsOrTurns, QuietStep
  <1>5. CASE ~(doc = NoDoc /\ Operation(k) = "delete")
    <2>1. /\ calls' = [calls EXCEPT ![c] = [k EXCEPT !.phase = "store", !.seen = doc, !.tag = t]]
          /\ verified' = verified
      BY <1>5 DEF FetchTag, Continues
    <2>2. calls'[c] = [k EXCEPT !.phase = "store", !.seen = doc, !.tag = t]
      BY <2>1 DEF PInv, CallsOK
    <2>3. CallOK(k, doc, tags, OnPod)
      BY DEF PInv, CallsOK
    <2>4. calls'[c] = [op |-> k.op, stage |-> k.stage, phase |-> "store", record |-> k.record,
                       tag |-> t, seen |-> doc, input |-> k.input]
      <3> HIDE DEF k, t
      <3> QED BY <1>1, <2>2, <2>3 DEF CallOK, k
    <2>5. KnowsItsTag(calls'[c], doc, tags)
      BY <2>4 DEF KnowsItsTag, PInv, TagsOK
    <2>6. CallOK(calls'[c], doc, tags, OnPod)
      <3> HIDE DEF k, t
      <3> QED BY <1>1, <2>3, <2>4, <2>5 DEF CallOK, k
    <2>7. calls' = [calls EXCEPT ![c] = calls'[c]]
      BY <2>1, <2>2
    <2> QED BY <1>1, <1>2, <1>3, <2>1, <2>6, <2>7, QuietStep
  <1> QED BY <1>4, <1>5

(* A change that ends the call, or turns it to its verification.            *)
LEMMA StoreWriteStep ==
  ASSUME PInv, NEW c \in Clients, StoreWrite(c)
  PROVE  PInv'
  <1>1. InPhase(c, "store") /\ AdapterDone(c) /\ calls[c] # Idle /\ tags' = tags + 1
        /\ UNCHANGED <<manifest, grant, clock, writes>>
    BY DEF StoreWrite, InPhase, environment
  <1>2. PICK garbled \in BOOLEAN :
          /\ Changes(c, Stored(calls[c], garbled))
          /\ intact' = IF garbled THEN intact ELSE intact \cup {calls[c].record.id}
    BY DEF StoreWrite
  <1>3. /\ doc'.tag = tags + 1 /\ intact \subseteq intact'
        /\ doc'.record = Garbled \/ doc'.record.id \in intact'
    BY <1>2 DEF Changes, Stored
  <1>4. late' = IF OnPod /\ Lapsed(grant) THEN [late EXCEPT ![c] = @ + 1] ELSE late
    BY <1>2 DEF Changes
  <1> QED BY <1>1, <1>3, <1>4, DoneEndsOrTurns, ChangingStep

LEMMA StoreDeleteStep ==
  ASSUME PInv, NEW c \in Clients, StoreDelete(c)
  PROVE  PInv'
  <1>1. InPhase(c, "store") /\ AdapterDone(c) /\ calls[c] # Idle
        /\ UNCHANGED <<manifest, grant, clock, writes, tags, intact>>
    BY DEF StoreDelete, InPhase, environment
  <1>2. /\ doc' = NoDoc
        /\ late' = IF OnPod /\ Lapsed(grant) THEN [late EXCEPT ![c] = @ + 1] ELSE late
    BY DEF StoreDelete, Changes
  <1> QED BY <1>1, <1>2, DoneEndsOrTurns, ChangingStep

LEMMA StoreConflictsStep ==
  ASSUME PInv, NEW c \in Clients, StoreConflicts(c)
  PROVE  PInv'
  <1>1. /\ calls[c] # Idle /\ calls[c].phase # "authorize" /\ writes' \in Nat
        /\ UNCHANGED <<manifest, grant, clock, doc, writes, tags, intact, late>>
    BY DEF StoreConflicts, InPhase, environment, PInv, TimesOK
  <1>2. verified \subseteq intact
    BY DEF PInv, VerifiedMeansStored
  <1>3. CASE AdapterFails(c)
    BY <1>1, <1>2, <1>3, FailureEnds, EndingStep
  <1>4. CASE AdapterDone(c)
    BY <1>1, <1>2, <1>4, NotLate, DoneEndsOrTurns, QuietStep
  <1> QED BY <1>3, <1>4 DEF StoreConflicts

(* A request that rejects may have been carried out.                        *)
LEMMA RejectsStep ==
  ASSUME PInv, NEW c \in Clients, Rejects(c)
  PROVE  PInv'
  <1>1. /\ calls[c] # Idle /\ calls' = [calls EXCEPT ![c] = Idle] /\ calls'[c] = Idle
        /\ verified' = verified /\ UNCHANGED <<manifest, grant, clock, writes>>
    BY FailureEnds DEF Rejects, environment
  <1>2. CASE UNCHANGED <<doc, tags, intact, late>>
    BY <1>1, <1>2, EndingStep DEF PInv, VerifiedMeansStored
  <1>3. CASE /\ calls[c].phase = "store"
             /\ IF Operation(calls[c]) = "write"
                THEN /\ Changes(c, Stored(calls[c], FALSE)) /\ tags' = tags + 1
                     /\ intact' = intact \cup {calls[c].record.id}
                ELSE Changes(c, NoDoc) /\ UNCHANGED <<tags, intact>>
    <2>1. /\ late' = IF OnPod /\ Lapsed(grant) THEN [late EXCEPT ![c] = @ + 1] ELSE late
          /\ \/ doc' = NoDoc /\ UNCHANGED <<tags, intact>>
             \/ /\ doc'.tag = tags + 1 /\ tags' = tags + 1 /\ intact \subseteq intact'
                /\ doc'.record.id \in intact'
      BY <1>3 DEF Changes, Stored
    <2>2. InPhase(c, "store") /\ calls' = [calls EXCEPT ![c] = calls'[c]]
          /\ CallOK(calls'[c], doc, tags, OnPod)
      BY <1>1, <1>3 DEF InPhase, CallOK
    <2> QED BY <1>1, <2>1, <2>2, ChangingStep
  <1> QED BY <1>2, <1>3 DEF Rejects

(* A grant that takes the place of a lapsed one allows changes again.       *)
LEMMA GrantStep ==
  ASSUME PInv, GrantChanges
  PROVE  PInv'
  <1>1. /\ UNCHANGED <<manifest, clock, doc, calls, writes, tags, intact, verified>>
        /\ grant' \in Grants
    BY DEF GrantChanges
  <1>2. CallsOK' /\ TagsOK' /\ DocIsIntact' /\ TimesOK' /\ VerifiedMeansStored'
    BY <1>1 DEF PInv, CallsOK, CallOK, KnowsItsTag, OnPod, TagsOK, DocIsIntact, TimesOK,
                VerifiedMeansStored
  <1>3. late' = (IF ~Lapsed(grant') THEN [c \in Clients |-> 0] ELSE late)
        /\ Lapsed(grant') = Lapsed(grant)'
    BY <1>1 DEF GrantChanges, Lapsed
  <1>4. LateOK'
    <2>1. CASE ~Lapsed(grant')
      BY <1>3, <2>1 DEF LateOK
    <2>2. CASE Lapsed(grant')
      BY <1>1, <1>3, <2>2 DEF PInv, LateOK, OnPod, AsksAgain
    <2> QED BY <2>1, <2>2
  <1> QED BY <1>2, <1>4 DEF PInv

(* A lapsed grant stays lapsed as time goes by.                             *)
LEMMA TickStep ==
  ASSUME PInv, Tick
  PROVE  PInv'
  <1>1. /\ UNCHANGED <<manifest, grant, doc, calls, writes, tags, intact, verified, late>>
        /\ clock' = clock + 1
    BY DEF Tick, history
  <1>2. CallsOK' /\ TagsOK' /\ DocIsIntact' /\ TimesOK' /\ VerifiedMeansStored'
    BY <1>1 DEF PInv, CallsOK, CallOK, KnowsItsTag, OnPod, TagsOK, DocIsIntact, TimesOK,
                VerifiedMeansStored
  <1>3. Lapsed(grant) => Lapsed(grant)'
    <2>1. grant.expires \in Nat /\ clock \in Nat
      BY PersistenceAssumption DEF PInv, TimesOK
    <2> QED BY <1>1, <2>1 DEF Lapsed
  <1>4. LateOK'
    BY <1>1, <1>3 DEF PInv, LateOK, OnPod, AsksAgain
  <1> QED BY <1>2, <1>4 DEF PInv

LEMMA StepPInv == PInv /\ [Next]_vars => PInv'
  <1> SUFFICES ASSUME PInv, [Next]_vars PROVE PInv'
    OBVIOUS
  <1>1. ASSUME NEW c \in Clients, Step(c)
        PROVE  PInv'
    BY <1>1, AuthorizeStep, FetchReadStep, FetchTagStep, StoreWriteStep, StoreDeleteStep,
       StoreConflictsStep DEF Step
  <1>2. CASE UNCHANGED vars
    BY <1>2 DEF vars, PInv, CallsOK, CallOK, KnowsItsTag, OnPod, TagsOK, DocIsIntact, LateOK,
                Lapsed, AsksAgain, TimesOK, VerifiedMeansStored
  <1> QED BY <1>1, <1>2, RequestStep, RejectsStep, GrantStep, TickStep DEF Next

LEMMA AlwaysPInv == Spec => []PInv
  BY InitPInv, StepPInv, PTL DEF Spec

-----------------------------------------------------------------------------
(* A write reported as verified was in the store, ungarbled, whatever the   *)
(* transport did to it and whoever else wrote.                              *)
THEOREM PersistenceVerifiedMeansStored == Spec => []VerifiedMeansStored
  <1>1. PInv => VerifiedMeansStored
    BY DEF PInv
  <1> QED BY AlwaysPInv, <1>1, PTL

(* After the grant lapsed or was revoked no client changes the Pod more     *)
(* than once: only the request it was already authorized for.               *)
THEOREM PersistenceRevocationStopsChanges == Spec => []RevocationStopsChanges
  <1>1. PInv => RevocationStopsChanges
    BY DEF PInv, LateOK, RevocationStopsChanges
  <1> QED BY AlwaysPInv, <1>1, PTL

(* The precondition is satisfied by no other document than the one seen.    *)
LEMMA PreconditionMeansSeen ==
  ASSUME PInv, NEW c \in Clients, InPhase(c, "store"), OnPod, Precondition(calls[c])
  PROVE  calls[c].seen = doc
  <1>1. calls[c] # Idle /\ KnowsItsTag(calls[c], doc, tags)
    BY DEF InPhase, PInv, CallsOK, CallOK
  <1>2. calls[c].seen # NoDoc => calls[c].tag # NoTag
    BY <1>1, PersistenceAssumption DEF KnowsItsTag, PInv, TagsOK
  <1> QED BY <1>1, <1>2 DEF Precondition, KnowsItsTag

(* Whatever is replaced or deleted in a Pod is the document the same call   *)
(* has read, however calls interleave and requests fail.                    *)
THEOREM PersistenceNoBlindOverwrite == Spec => NoBlindOverwrite
  <1> DEFINE Seen(c) == InPhase(c, "store") /\ calls'[c] # calls[c] /\ calls[c].seen = doc
             SeenFirst == doc' # doc /\ OnPod => \E c \in Clients : Seen(c)
  <1>1. PInv /\ [Next]_vars => [SeenFirst]_vars
    <2> SUFFICES ASSUME PInv, Next, doc' # doc, OnPod
                 PROVE  \E c \in Clients : Seen(c)
      BY DEF vars
    <2>1. ASSUME NEW c \in Clients, StoreWrite(c) \/ StoreDelete(c) \/ Rejects(c)
          PROVE  Seen(c)
      <3>1. InPhase(c, "store") /\ Precondition(calls[c]) /\ (AdapterFails(c) \/ AdapterDone(c))
        BY <2>1 DEF StoreWrite, StoreDelete, Rejects, InPhase
      <3>2. calls[c] # Idle /\ calls[c].phase = "store"
        BY <3>1 DEF InPhase
      <3>3. calls'[c] = Idle \/ calls'[c].phase = "authorize"
        BY <3>1, <3>2, FailureEnds, DoneEndsOrTurns
      <3>4. calls'[c] # calls[c]
        BY <3>2, <3>3
      <3> QED BY <3>1, <3>4, PreconditionMeansSeen
    <2>2. ASSUME NEW c \in Clients, Step(c) \/ Rejects(c)
          PROVE  StoreWrite(c) \/ StoreDelete(c) \/ Rejects(c)
      BY <2>2 DEF Step, Authorize, FetchRead, FetchTag, StoreConflicts
    <2>3. ASSUME NEW c \in Clients
          PROVE  ~Request(c)
      BY DEF Request, BeginWrite, WriteDenied, BeginRead, BeginDelete, Starts, vars
    <2>4. ~GrantChanges /\ ~Tick
      BY DEF GrantChanges, Tick
    <2> QED BY <2>1, <2>2, <2>3, <2>4 DEF Next
  <1> QED BY AlwaysPInv, <1>1, PTL DEF Spec, NoBlindOverwrite

-----------------------------------------------------------------------------
(* What is written, and what is stored, was allowed when the call began: the *)
(* manifest of the adapter does not change.                                 *)
RequestsAllowed ==
  \A c \in Clients :
    calls[c] # Idle /\ calls[c].op = "write" => WriteAllowed(calls[c].input)

DocAllowed == doc # NoDoc => WriteAllowed(doc.input)

LEMMA AllowedIsWithinPolicy == DocAllowed => StoredWithinPolicy
  <1> SUFFICES ASSUME doc # NoDoc, ~doc.input.plain, WriteAllowed(doc.input)
               PROVE  StoredWithinPolicy
    BY DEF DocAllowed, StoredWithinPolicy
  <1> DEFINE w == doc.input
             request == WriteRequest(w)
  <1>1. AdapterAccepted /\ WriteConsented(w) /\ TargetMatches(w.target)
    BY DEF WriteAllowed
  <1>2. "aggregate_only" \notin w.boundaries
    BY <1>1 DEF WriteConsented
  <1>3. ASSUME OnPod \/ w.boundary = "server_allowed"
        PROVE  /\ w.policy # NoPolicy /\ ~w.policy.revoked /\ ~w.policy.deletionRequested
               /\ w.use \in w.policy.server \cap w.policy.private
    <2>1. ServerSide(w)
      BY <1>1, <1>3 DEF TargetMatches, OnPod, ServerSide
    <2>2. w.policy # NoPolicy /\ ConsentAllows(w.policy, request)
      BY <1>1, <2>1 DEF WriteConsented
    <2>3. ~PolicyDenies(w.policy, request)
      BY <2>2 DEF ConsentAllows
    <2>4. request.use = w.use /\ request.serverSide = ServerSide(w) /\ request.containsPrivate = TRUE
      BY DEF WriteRequest
    <2> QED BY <2>1, <2>2, <2>3, <2>4 DEF PolicyDenies, EffectivelyPrivate
  <1> QED BY <1>1, <1>2, <1>3 DEF AdapterAccepted, StoredWithinPolicy

(* Between two requests of a client only what its call is about is stored.   *)
LEMMA GoesOn ==
  ASSUME PInv, NEW c \in Clients, Step(c) \/ Rejects(c)
  PROVE  /\ calls[c] # Idle /\ calls' = [calls EXCEPT ![c] = calls'[c]]
         /\ SameRequest(calls[c], calls'[c])
  <1> DEFINE k == calls[c]
  <1>1. k # Idle
    BY DEF Step, Rejects, Authorize, FetchRead, FetchTag, StoreWrite, StoreDelete, StoreConflicts,
           InPhase
  <1>2. ASSUME Ends(c)
        PROVE  calls' = [calls EXCEPT ![c] = calls'[c]] /\ SameRequest(k, calls'[c])
    BY <1>2 DEF Ends, SameRequest, PInv, CallsOK
  <1>3. CASE AdapterFails(c)
    BY <1>1, <1>3, FailureEnds DEF SameRequest
  <1>4. CASE AdapterDone(c)
    BY <1>1, <1>4, DoneEndsOrTurns
  <1>5. ASSUME NEW stage, stage # "verify", Continues(c, At(k, stage))
        PROVE  calls' = [calls EXCEPT ![c] = calls'[c]] /\ SameRequest(k, calls'[c])
    <2>1. calls' = [calls EXCEPT ![c] = At(k, stage)]
      BY <1>5 DEF Continues
    <2>2. calls'[c] = At(k, stage)
      BY <2>1 DEF PInv, CallsOK
    <2>3. SameRequest(k, At(k, stage))
      BY <1>1, <1>5, TurnsTo DEF PInv
    <2> QED BY <2>1, <2>2, <2>3
  <1>6. CASE FetchRead(c)
    <2>1. \/ AdapterFails(c) \/ Ends(c)
          \/ Continues(c, At(k, "cleanup")) \/ Continues(c, At(k, "expire"))
      BY <1>6 DEF FetchRead, Verify, ReturnsVerified, VerificationFailed, Returns
    <2> QED BY <1>1, <1>2, <1>3, <1>5, <2>1
  <1>7. ASSUME NEW phase, NEW seen, NEW tag,
               \/ Continues(c, [k EXCEPT !.phase = phase])
               \/ Continues(c, [k EXCEPT !.phase = phase, !.seen = seen, !.tag = tag])
        PROVE  calls' = [calls EXCEPT ![c] = calls'[c]] /\ SameRequest(k, calls'[c])
    <2>1. CallOK(k, doc, tags, OnPod)
      BY DEF PInv, CallsOK
    <2>2. \/ calls'[c] = [k EXCEPT !.phase = phase]
          \/ calls'[c] = [k EXCEPT !.phase = phase, !.seen = seen, !.tag = tag]
      BY <1>7 DEF Continues, PInv, CallsOK
    <2>3. calls' = [calls EXCEPT ![c] = calls'[c]]
      BY <1>7, <2>2 DEF Continues, PInv, CallsOK
    <2>4. SameRequest(k, calls'[c])
      <3> HIDE DEF k
      <3> QED BY <1>1, <2>1, <2>2 DEF CallOK, SameRequest
    <2> QED BY <2>3, <2>4
  <1>8. CASE Authorize(c)
    <2>1. AdapterFails(c) \/ Continues(c, [k EXCEPT !.phase = "fetch"])
      BY <1>8 DEF Authorize
    <2> QED BY <1>1, <1>3, <1>7, <2>1
  <1>9. CASE FetchTag(c)
    <2>1. \/ AdapterDone(c)
          \/ Continues(c, [k EXCEPT !.phase = "store", !.seen = doc,
                              !.tag = IF doc = NoDoc THEN NoTag ELSE doc.tag])
      BY <1>9 DEF FetchTag
    <2> QED BY <1>1, <1>4, <1>7, <2>1
  <1> QED
    BY <1>1, <1>3, <1>4, <1>6, <1>8, <1>9
       DEF Step, Rejects, StoreWrite, StoreDelete, StoreConflicts

LEMMA StoresItsInput ==
  ASSUME PInv, RequestsAllowed, DocAllowed, NEW c \in Clients, Step(c) \/ Rejects(c)
  PROVE  doc' # NoDoc => WriteAllowed(doc'.input)
  <1>1. calls[c] # Idle
    BY GoesOn
  <1>2. doc' = doc \/ doc' = NoDoc
        \/ (Operation(calls[c]) = "write" /\ doc'.input = calls[c].input)
    BY DEF Step, Rejects, Authorize, FetchRead, FetchTag, StoreWrite, StoreDelete, StoreConflicts,
           Changes, Stored
  <1>3. Operation(calls[c]) = "write" => calls[c].op = "write"
    BY DEF Operation
  <1> QED BY <1>1, <1>2, <1>3 DEF RequestsAllowed, DocAllowed

LEMMA StartsAllowed ==
  ASSUME PInv, RequestsAllowed, NEW c \in Clients, Request(c)
  PROVE  \A d \in Clients :
           calls'[d] # Idle /\ calls'[d].op = "write" => WriteAllowed(calls'[d].input)
  <1>1. ASSUME NEW op, NEW record, NEW input, Starts(c, NewCall(op, record, input)),
               op = "write" => WriteAllowed(input)
        PROVE  \A d \in Clients :
                 calls'[d] # Idle /\ calls'[d].op = "write" => WriteAllowed(calls'[d].input)
    <2> DEFINE k == NewCall(op, record, input)
    <2>1. k.op = op /\ k.input = input
      BY DEF NewCall, At
    <2>2. calls' = [calls EXCEPT ![c] = k]
      BY <1>1 DEF Starts
    <2> HIDE DEF k
    <2> QED BY <1>1, <2>1, <2>2 DEF RequestsAllowed, PInv, CallsOK
  <1>2. ASSUME NEW w \in Writes, BeginWrite(c, w)
        PROVE  \A d \in Clients :
                 calls'[d] # Idle /\ calls'[d].op = "write" => WriteAllowed(calls'[d].input)
    <2> DEFINE record == [id |-> writes', boundaries |-> w.boundaries, expires |-> w.expires]
    <2>1. Starts(c, NewCall("write", record, w)) /\ WriteAllowed(w)
      BY <1>2 DEF BeginWrite
    <2> HIDE DEF record
    <2> QED BY <1>1, <2>1
  <1>3. CASE \E w \in Writes : WriteDenied(c, w)
    BY <1>3 DEF WriteDenied, vars, RequestsAllowed
  <1>4. ASSUME NEW deleteExpired \in BOOLEAN, BeginRead(c, deleteExpired)
        PROVE  \A d \in Clients :
                 calls'[d] # Idle /\ calls'[d].op = "write" => WriteAllowed(calls'[d].input)
    <2>1. Starts(c, NewCall("read", Garbled, [deleteExpired |-> deleteExpired]))
      BY <1>4 DEF BeginRead
    <2> QED BY <1>1, <2>1
  <1>5. CASE BeginDelete(c)
    <2>1. Starts(c, NewCall("delete", Garbled, [deleteExpired |-> FALSE]))
      BY <1>5 DEF BeginDelete
    <2> QED BY <1>1, <2>1
  <1> QED BY <1>2, <1>3, <1>4, <1>5 DEF Request

LEMMA StepAllowed ==
  PInv /\ RequestsAllowed /\ DocAllowed /\ [Next]_vars => (RequestsAllowed /\ DocAllowed)'
  <1> SUFFICES ASSUME PInv, RequestsAllowed, DocAllowed, [Next]_vars
               PROVE  (RequestsAllowed /\ DocAllowed)'
    OBVIOUS
  <1>1. manifest' = manifest
    BY DEF Next, Request, Step, BeginWrite, WriteDenied, BeginRead, BeginDelete, Starts, Authorize,
           FetchRead, FetchTag, StoreWrite, StoreDelete, StoreConflicts, Rejects, GrantChanges,
           Tick, environment, vars
  <1>2. (\A d \in Clients :
           calls'[d] # Idle /\ calls'[d].op = "write" => WriteAllowed(calls'[d].input))
        => RequestsAllowed'
    BY <1>1 DEF RequestsAllowed, WriteAllowed, AdapterAccepted, TargetMatches
  <1>3. (doc' # NoDoc => WriteAllowed(doc'.input)) => DocAllowed'
    BY <1>1 DEF DocAllowed, WriteAllowed, AdapterAccepted, TargetMatches
  <1>4. ASSUME NEW c \in Clients, Step(c) \/ Rejects(c)
        PROVE  (RequestsAllowed /\ DocAllowed)'
    <2>1. \A d \in Clients :
            calls'[d] # Idle /\ calls'[d].op = "write" => WriteAllowed(calls'[d].input)
      BY <1>4, GoesOn DEF SameRequest, RequestsAllowed, PInv, CallsOK
    <2> QED BY <1>2, <1>3, <1>4, <2>1, StoresItsInput
  <1>5. ASSUME NEW c \in Clients, Request(c)
        PROVE  (RequestsAllowed /\ DocAllowed)'
    <2>1. doc' = doc
      BY <1>5 DEF Request, BeginWrite, WriteDenied, BeginRead, BeginDelete, Starts, vars
    <2> QED BY <1>2, <1>3, <1>5, <2>1, StartsAllowed DEF DocAllowed
  <1>6. CASE GrantChanges \/ Tick \/ UNCHANGED vars
    <2>1. UNCHANGED <<calls, doc>>
      BY <1>6 DEF GrantChanges, Tick, vars
    <2> QED BY <1>2, <1>3, <2>1 DEF RequestsAllowed, DocAllowed
  <1> QED BY <1>4, <1>5, <1>6 DEF Next

(* No record of the hardened write is stored that its subject did not agree  *)
(* to, or in a place the placement policy does not allow, whatever calls     *)
(* interleave, fail, or change the grant.                                   *)
THEOREM PersistenceStoredWithinPolicy == Spec => []StoredWithinPolicy
  <1>1. Init => RequestsAllowed /\ DocAllowed
    BY DEF Init, RequestsAllowed, DocAllowed
  <1> QED BY AlwaysPInv, <1>1, StepAllowed, AllowedIsWithinPolicy, PTL DEF Spec
=============================================================================
