------------------------ MODULE AnnOrchestratorProofs ------------------------
(* What holds of the provider orchestration for every set of clients, sequence *)
(* of candidates, configuration and bound. The argument has three layers:      *)
(*   routing     sorting arranges the admitted candidates, each once, so a     *)
(*               generation's candidates are distinct names, all admissible;   *)
(*   steps       every piece of an operation takes a client that is in order   *)
(*               to one that is, and leaves its generation in order (StepOK);  *)
(*   the system  AnnInv: every client is in order on the generation it began   *)
(*               on, every generation is what its input admits.                *)
EXTENDS AnnOrchestrator, FiniteSetTheorems, WellFoundedInduction, TLAPS

(* A client is a record with these fields; stated of all fields at once, so    *)
(* that an update says of the others that they stay.                           *)
Fields == {"work", "gen", "stage", "wait", "at", "provider", "primary", "attempt", "query", "sent",
           "served", "cold", "again", "heat", "answer"}

IsClient(k) == k = [f \in Fields |-> k[f]]

(* The providers of a generation, and those a loop has been past.              *)
Routes(route) == {route[i] : i \in DOMAIN route}

Tried(k, route) == {route[i] : i \in {j \in DOMAIN route : j <= k.at}}

(* What an operation has done so far.                                       *)
History(k) ==
  /\ k.answer.by \in k.answer.served
  /\ k.heat = FALSE /\ k.again \in BOOLEAN
  /\ k.again => options.retryWrites

Resting == {"idle", "finished"}

Waits == {"probe", "operation", "cleared", "recovered", "selected", "failure", "retry"}

(* Where an operation can be: selecting, nothing sent yet; on its primary, sent *)
(* nowhere else; falling back, past the candidates it tried, never the primary. *)
SelectOK(k) == k.sent = {} /\ k.wait \notin {"operation", "retry"}

PrimaryOK(k) ==
  /\ k.wait \notin {"probe", "selected"}
  /\ k.primary = k.provider /\ k.sent \subseteq {k.provider}
  /\ k.wait \in {"cleared", "recovered"} => k.provider \in k.served

FallbackOK(k, route) ==
  /\ k.wait # "selected" /\ k.at \in DOMAIN route /\ k.provider = route[k.at]
  /\ k.provider # k.primary
  /\ k.sent \subseteq {k.primary} \cup Tried(k, route)
  /\ k.wait \in {"probe", "cleared", "recovered"} => k.provider \notin k.sent

(* A suspended operation: its provider is none that has been open throughout.  *)
Live(k, route) ==
  /\ k.wait \in Waits /\ k.at \in Nat
  /\ k.provider \in Routes(route) /\ k.provider \notin k.cold /\ k.sent \subseteq Routes(route)
  /\ \/ k.stage = "select" /\ SelectOK(k)
     \/ k.stage = "primary" /\ PrimaryOK(k)
     \/ k.stage = "fallback" /\ FallbackOK(k, route)
  /\ k.wait = "retry" => options.retryWrites \/ Head(k.work) \notin Writes

(* Between operations nothing is left of the last one.                         *)
Quiet(k) == k.wait \in Resting /\ k.at = 0 /\ k.sent = {} /\ k.cold = {}

ClientOK(k, route) ==
  /\ IsClient(k) /\ History(k)
  /\ Quiet(k) \/ Live(k, route)

(* The circuits cold for a client are open now.                                *)
ColdIsOpen(k, g) == \A n \in k.cold : g.failures[n].until > now

(* No provider comes twice.                                                    *)
RouteOK(route) == route \in Seq(Names) /\ \A i, j \in DOMAIN route : route[i] = route[j] => i = j

Failures == [count : Nat, until : Nat]

Generations == [config : {Validated(i) : i \in {j \in Inputs : ValidInput(j)} \cup {FirstInput}},
                candidates : Seq(Names), active : Names \cup {None},
                failures : [Names -> Failures]]

(* A generation keeps its configuration and its candidates.                 *)
Rerouted(g, h) ==
  /\ h \in Generations /\ h.config = g.config /\ h.candidates = g.candidates
  /\ h.active \in Routes(g.candidates) \cup {None}

(* What a step makes of a client and its generation.                        *)
StepOK(pair, k, g) ==
  /\ ClientOK(pair[1], g.candidates) /\ Rerouted(g, pair[2])
  /\ pair[1].gen = k.gen \/ pair[1] = Idle

(* What the loops and the operation need of a client.                       *)
Searching(k, g) ==
  /\ IsClient(k) /\ History(k) /\ ColdIsOpen(k, g)
  /\ k.at \in Nat /\ k.sent \subseteq Routes(g.candidates)
  /\ \/ k.stage = "select" /\ k.sent = {}
     \/ k.stage = "fallback" /\ k.sent \subseteq {k.primary} \cup Tried(k, g.candidates)

GenerationOK(g) ==
  /\ g \in Generations /\ RouteOK(g.candidates)
  /\ g.active \in Routes(g.candidates) \cup {None}
-----------------------------------------------------------------------------
(* The least of some naturals is one of them.                                  *)
LEMMA LeastOf ==
  ASSUME NEW S \in SUBSET Nat, S # {} PROVE Min(S) \in S
<1>1. IsWellFoundedOn(OpToRel(<, Nat), Nat)
  BY NatLessThanWellFounded
<1>2. PICK n \in S : \A m \in S : ~(<<m, n>> \in OpToRel(<, Nat))
  BY <1>1, WFMin
<1>3. \A m \in S : ~(m < n)
  BY <1>2 DEF OpToRel
<1>4. \E x \in S : \A y \in S : x <= y
  BY <1>3
<1> QED BY <1>4 DEF Min

(* An operation that ends leaves nothing but its history.                   *)
LEMMA EndsOK ==
  ASSUME NEW k, IsClient(k), History(k), NEW route
  PROVE  /\ ClientOK(Finished(k), route) /\ Finished(k).gen = k.gen /\ Finished(k).cold = {}
         /\ ClientOK(Rejected(k), route) /\ Rejected(k).gen = k.gen /\ Rejected(k).cold = {}
         /\ k.provider \in k.served => ClientOK(Returned(k), route) /\ Returned(k).gen = k.gen
<1>1. /\ IsClient(Finished(k)) /\ Finished(k).gen = k.gen /\ History(Finished(k)) /\ Quiet(Finished(k))
  BY DEF IsClient, Fields, Finished, Idle, History, Quiet, Resting
<1>2. /\ IsClient(Rejected(k)) /\ Rejected(k).gen = k.gen /\ History(Rejected(k)) /\ Quiet(Rejected(k))
  BY <1>1 DEF IsClient, Fields, Rejected, History, Quiet, Resting
<1>3. k.provider \in k.served =>
        IsClient(Returned(k)) /\ Returned(k).gen = k.gen /\ History(Returned(k)) /\ Quiet(Returned(k))
  BY <1>1 DEF IsClient, Fields, Returned, History, Quiet, Resting
<1> QED BY <1>1, <1>2, <1>3 DEF ClientOK, Quiet

(* What sending changes, and what it leaves alone.                             *)
LEMMA SendsFields ==
  ASSUME NEW k, IsClient(k)
  PROVE  LET m == Sends(k) IN
         /\ IsClient(m) /\ m.wait = "operation" /\ m.sent = k.sent \cup {k.provider}
         /\ m.again = (k.again \/ (Head(k.work) \in Writes /\ k.provider \in k.sent))
         /\ m.heat = (k.heat \/ k.provider \in k.cold)
         /\ \A f \in Fields \ {"wait", "query", "sent", "again", "heat"} : m[f] = k[f]
BY DEF Sends, IsClient, Fields

(* A client about to call a provider that is not cold for it; a write only  *)
(* when it has not been there, or when writes are retried.                  *)
Ready(k, route) ==
  /\ IsClient(k) /\ History(k) /\ k.at \in Nat
  /\ k.provider \in Routes(route) /\ k.provider \notin k.cold /\ k.sent \subseteq Routes(route)
  /\ Head(k.work) \in Writes /\ k.provider \in k.sent => options.retryWrites
  /\ \/ k.stage = "primary" /\ k.primary = k.provider /\ k.sent \subseteq {k.provider}
     \/ /\ k.stage = "fallback" /\ k.at \in DOMAIN route /\ k.provider = route[k.at]
        /\ k.provider # k.primary /\ k.sent \subseteq {k.primary} \cup Tried(k, route)

(* Sending keeps the client in order.                                          *)
LEMMA SendsOK ==
  ASSUME NEW k, NEW route, Ready(k, route), RouteOK(route)
  PROVE  ClientOK(Sends(k), route) /\ Sends(k).gen = k.gen /\ Sends(k).cold = k.cold
<1> DEFINE m == Sends(k)
<1>1. /\ IsClient(m) /\ m.wait = "operation" /\ m.sent = k.sent \cup {k.provider}
      /\ m.again = (k.again \/ (Head(k.work) \in Writes /\ k.provider \in k.sent))
      /\ m.heat = (k.heat \/ k.provider \in k.cold)
      /\ m.work = k.work /\ m.gen = k.gen /\ m.stage = k.stage /\ m.at = k.at
      /\ m.provider = k.provider /\ m.primary = k.primary /\ m.served = k.served
      /\ m.cold = k.cold /\ m.answer = k.answer
  BY SendsFields DEF Ready, Fields
<1> HIDE DEF m
<1>2. History(m)
  BY <1>1 DEF Ready, History
<1>3. Tried(m, route) = Tried(k, route)
  BY <1>1 DEF Tried
<1>4. k.stage = "fallback" => k.provider \in Tried(k, route)
  BY DEF Ready, Tried, RouteOK
<1>5. Live(m, route)
  BY <1>1, <1>3, <1>4 DEF Ready, Live, Waits, PrimaryOK, FallbackOK, SelectOK
<1> QED BY <1>1, <1>2, <1>5 DEF ClientOK, m

(* So does running the operation on a provider it has not been sent to.        *)
LEMMA RunsOK ==
  ASSUME NEW k, NEW g, NEW h, GenerationOK(g), Rerouted(g, h),
         IsClient(k), History(k), k.at \in Nat,
         k.provider \in Routes(g.candidates), k.provider \notin k.cold,
         k.sent \subseteq Routes(g.candidates), k.provider \notin k.sent,
         \/ k.stage = "primary" /\ k.primary = k.provider /\ k.sent = {}
         \/ /\ k.stage = "fallback" /\ k.at \in DOMAIN g.candidates
            /\ k.provider = g.candidates[k.at] /\ k.provider # k.primary
            /\ k.sent \subseteq {k.primary} \cup Tried(k, g.candidates)
  PROVE  StepOK(Runs(k, h), k, g) /\ Runs(k, h)[2] = h /\ Runs(k, h)[1].cold \subseteq k.cold
<1>1. CASE Head(k.work) = "selection"
  BY <1>1, EndsOK DEF Runs, StepOK
<1>2. CASE Head(k.work) # "selection"
  <2> DEFINE m == [k EXCEPT !.attempt = 1]
  <2>1. /\ IsClient(m) /\ \A f \in Fields \ {"attempt"} : m[f] = k[f]
    BY DEF IsClient, Fields
  <2> HIDE DEF m
  <2>2. /\ m.work = k.work /\ m.gen = k.gen /\ m.stage = k.stage /\ m.at = k.at
        /\ m.provider = k.provider /\ m.primary = k.primary /\ m.sent = k.sent
        /\ m.cold = k.cold /\ m.again = k.again /\ m.heat = k.heat /\ m.answer = k.answer
    BY <2>1 DEF Fields
  <2>3. Ready(m, g.candidates)
    BY <2>1, <2>2 DEF Ready, History, Tried
  <2>4. ClientOK(Sends(m), g.candidates) /\ Sends(m).gen = k.gen /\ Sends(m).cold = k.cold
    BY <2>2, <2>3, SendsOK DEF GenerationOK
  <2>5. Runs(k, h) = <<Sends(m), h>>
    BY <1>2 DEF Runs, m
  <2> QED BY <2>4, <2>5 DEF StepOK
<1> QED BY <1>1, <1>2

(* The loops take a candidate whose circuit is closed, so none that is cold;*)
(* a fallback takes one the operation has not been to.                      *)
LEMMA TriesNextOK ==
  ASSUME NEW k, NEW g, GenerationOK(g), Searching(k, g)
  PROVE  /\ StepOK(TriesNext(k, g), k, g) /\ TriesNext(k, g)[2].failures = g.failures
         /\ TriesNext(k, g)[1].cold \subseteq k.cold
<1>1. Rerouted(g, g)
  BY DEF GenerationOK, Rerouted
<1>2. CASE Remaining(k, g) = {}
  BY <1>1, <1>2, EndsOK DEF TriesNext, StepOK, Searching
<1>3. CASE Remaining(k, g) # {}
  <2> DEFINE i == Min(Remaining(k, g))
             next == [k EXCEPT !.at = i, !.provider = g.candidates[i]]
             skips == k.stage = "select" /\ ~options.healthCheckOnInit
             m == IF skips THEN [next EXCEPT !.wait = "selected"] ELSE [next EXCEPT !.wait = "probe"]
             h == IF skips THEN [g EXCEPT !.active = g.candidates[i]] ELSE g
  <2>1. DOMAIN g.candidates \subseteq Nat
    BY DEF GenerationOK, RouteOK
  <2>2. Remaining(k, g) \in SUBSET Nat
    BY <2>1 DEF Remaining
  <2>3. i \in Remaining(k, g)
    BY <1>3, <2>2, LeastOf
  <2>4. /\ i \in DOMAIN g.candidates /\ i \in Nat /\ i > k.at /\ ~(g.failures[g.candidates[i]].until > now)
        /\ k.stage = "fallback" => g.candidates[i] # k.primary
    BY <2>1, <2>3 DEF Remaining, Open
  <2>5. TriesNext(k, g) = <<m, h>>
    BY <1>3 DEF TriesNext
  <2>6. Rerouted(g, h) /\ h.failures = g.failures
    BY <2>4 DEF GenerationOK, Rerouted, Generations, Routes, RouteOK
  <2> HIDE DEF i
  <2>7. /\ IsClient(m) /\ m.at = i /\ m.provider = g.candidates[i]
        /\ m.wait = IF skips THEN "selected" ELSE "probe"
        /\ \A f \in Fields \ {"at", "provider", "wait"} : m[f] = k[f]
    BY DEF Searching, IsClient, Fields
  <2> HIDE DEF m, h
  <2>8. /\ m.work = k.work /\ m.gen = k.gen /\ m.stage = k.stage /\ m.primary = k.primary
        /\ m.sent = k.sent /\ m.cold = k.cold /\ m.again = k.again /\ m.heat = k.heat
        /\ m.answer = k.answer
    BY <2>7 DEF Fields
  <2>9. History(m)
    BY <2>8 DEF Searching, History
  <2>10. Tried(k, g.candidates) \subseteq Tried(m, g.candidates) /\ g.candidates[i] \notin Tried(k, g.candidates)
    BY <2>1, <2>4, <2>7 DEF Tried, GenerationOK, RouteOK, Searching
  <2>11. g.candidates[i] \notin k.cold /\ g.candidates[i] \in Routes(g.candidates)
    BY <2>4 DEF Searching, ColdIsOpen, Routes
  <2>12. Live(m, g.candidates)
    <3>1. CASE k.stage = "select"
      BY <2>4, <2>7, <2>8, <2>11, <3>1 DEF Searching, Live, Waits, SelectOK
    <3>2. CASE k.stage = "fallback"
      BY <2>4, <2>7, <2>8, <2>10, <2>11, <3>2 DEF Searching, Live, Waits, FallbackOK
    <3> QED BY <3>1, <3>2 DEF Searching
  <2> QED BY <2>5, <2>6, <2>7, <2>8, <2>9, <2>12 DEF StepOK, ClientOK
<1> QED BY <1>2, <1>3
-----------------------------------------------------------------------------
(* Waiting for something else changes nothing else.                            *)
LEMMA WaitFields ==
  ASSUME NEW k, NEW w, IsClient(k)
  PROVE  LET m == [k EXCEPT !.wait = w] IN
         /\ IsClient(m) /\ m.wait = w
         /\ m.work = k.work /\ m.gen = k.gen /\ m.stage = k.stage /\ m.at = k.at
         /\ m.provider = k.provider /\ m.primary = k.primary /\ m.attempt = k.attempt
         /\ m.query = k.query /\ m.sent = k.sent /\ m.served = k.served /\ m.cold = k.cold
         /\ m.again = k.again /\ m.heat = k.heat /\ m.answer = k.answer
BY DEF IsClient, Fields

(* A client that stays where it is and waits for something else.            *)
LEMMA WaitsOK ==
  ASSUME NEW k, NEW w \in Waits, NEW route, ClientOK(k, route), Live(k, route),
         k.stage = "select" => w \notin {"operation", "retry"},
         k.stage # "select" => w # "selected",
         k.stage = "primary" => w # "probe" /\ (w \in {"cleared", "recovered"} => k.provider \in k.served),
         k.stage = "fallback" /\ w \in {"probe", "cleared", "recovered"} => k.provider \notin k.sent,
         w = "retry" => options.retryWrites \/ Head(k.work) \notin Writes
  PROVE  /\ ClientOK([k EXCEPT !.wait = w], route) /\ Live([k EXCEPT !.wait = w], route)
         /\ [k EXCEPT !.wait = w].gen = k.gen
<1> DEFINE m == [k EXCEPT !.wait = w]
<1>1. /\ IsClient(m) /\ m.wait = w
      /\ m.work = k.work /\ m.gen = k.gen /\ m.stage = k.stage /\ m.at = k.at
      /\ m.provider = k.provider /\ m.primary = k.primary /\ m.sent = k.sent /\ m.served = k.served
      /\ m.cold = k.cold /\ m.again = k.again /\ m.heat = k.heat /\ m.answer = k.answer
  BY WaitFields DEF ClientOK
<1> HIDE DEF m
<1>2. History(m)
  BY <1>1 DEF ClientOK, History
<1>3. Tried(m, route) = Tried(k, route)
  BY <1>1 DEF Tried
<1>4. Live(m, route)
  BY <1>1, <1>3 DEF Live, SelectOK, PrimaryOK, FallbackOK
<1> QED BY <1>1, <1>2, <1>4 DEF ClientOK, m

(* A provider that may have carried the operation out.                      *)
LEMMA ServesOK ==
  ASSUME NEW k, NEW done, NEW route, ClientOK(k, route), Live(k, route)
  PROVE  LET m == [k EXCEPT !.served = @ \cup done] IN
         /\ ClientOK(m, route) /\ Live(m, route)
         /\ m.gen = k.gen /\ m.stage = k.stage /\ m.wait = k.wait /\ m.provider = k.provider
         /\ m.work = k.work /\ m.sent = k.sent /\ m.served = k.served \cup done
<1> DEFINE m == [k EXCEPT !.served = @ \cup done]
<1>1. /\ IsClient(m) /\ m.wait = k.wait /\ m.served = k.served \cup done
      /\ m.work = k.work /\ m.gen = k.gen /\ m.stage = k.stage /\ m.at = k.at
      /\ m.provider = k.provider /\ m.primary = k.primary /\ m.sent = k.sent
      /\ m.cold = k.cold /\ m.again = k.again /\ m.heat = k.heat /\ m.answer = k.answer
  BY DEF ClientOK, IsClient, Fields
<1> HIDE DEF m
<1>2. History(m)
  BY <1>1 DEF ClientOK, History
<1>3. Tried(m, route) = Tried(k, route)
  BY <1>1 DEF Tried
<1>4. Live(m, route)
  BY <1>1, <1>3 DEF Live, SelectOK, PrimaryOK, FallbackOK
<1> QED BY <1>1, <1>2, <1>4 DEF ClientOK, m

(* A failure is counted against the provider, and deactivates it.              *)
LEMMA RecordsFailureOK ==
  ASSUME NEW k, NEW g, GenerationOK(g), ClientOK(k, g.candidates), Live(k, g.candidates), now \in Nat
  PROVE  StepOK(RecordsFailure(k, g), k, g)
<1> DEFINE n == k.provider
           count == Min({g.failures[n].count + 1, Threshold})
           until == IF count >= Threshold THEN now + Cooldown ELSE 0
           h == [g EXCEPT !.failures[n] = [count |-> count, until |-> until],
                          !.active = IF @ = n THEN None ELSE @]
<1>1. n \in Names /\ g \in Generations /\ g.failures \in [Names -> Failures]
  BY DEF Live, Routes, GenerationOK, RouteOK, Generations
<1>2. {g.failures[n].count + 1, Threshold} \in SUBSET Nat
  BY <1>1, AnnAssumption DEF Failures
<1>3. count \in Nat
  BY <1>2, LeastOf
<1>4. until \in Nat
  BY AnnAssumption
<1> HIDE DEF count, until
<1>5. [g.failures EXCEPT ![n] = [count |-> count, until |-> until]] \in [Names -> Failures]
  BY <1>1, <1>3, <1>4 DEF Failures
<1>6. /\ h \in Generations /\ h.config = g.config /\ h.candidates = g.candidates
      /\ h.active = IF g.active = n THEN None ELSE g.active
  BY <1>1, <1>5 DEF Generations
<1>7. Rerouted(g, h)
  BY <1>6 DEF Rerouted, GenerationOK
<1> DEFINE m == [k EXCEPT !.wait = "failure"]
<1>8. RecordsFailure(k, g) = <<m, h>>
  BY DEF RecordsFailure, count, until
<1>9. ClientOK(m, g.candidates) /\ m.gen = k.gen
  BY WaitsOK DEF Waits
<1> HIDE DEF h, m
<1> QED BY <1>7, <1>8, <1>9 DEF StepOK

(* A success clears it.                                                        *)
LEMMA ClearsFailureOK ==
  ASSUME NEW k, NEW g, GenerationOK(g), ClientOK(k, g.candidates), Live(k, g.candidates),
         k.stage = "primary" => k.provider \in k.served,
         k.stage = "fallback" => k.provider \notin k.sent
  PROVE  StepOK(ClearsFailure(k, g), k, g)
<1> DEFINE n == k.provider
           h == [g EXCEPT !.failures[n] = [count |-> 0, until |-> 0]]
<1>1. n \in Names /\ g \in Generations /\ g.failures \in [Names -> Failures]
  BY DEF Live, Routes, GenerationOK, RouteOK, Generations
<1>2. [g.failures EXCEPT ![n] = [count |-> 0, until |-> 0]] \in [Names -> Failures]
  BY <1>1 DEF Failures
<1>3. Rerouted(g, h) /\ Rerouted(g, g)
  BY <1>1, <1>2 DEF Generations, GenerationOK, Rerouted
<1> DEFINE m(w) == [k EXCEPT !.wait = w]
<1>4. ASSUME NEW w \in {"cleared", "recovered"}
      PROVE  ClientOK(m(w), g.candidates) /\ m(w).gen = k.gen
  BY <1>4, WaitsOK DEF Waits
<1>5. ClearsFailure(k, g) = <<m("cleared"), g>> \/ ClearsFailure(k, g) = <<m("recovered"), h>>
  BY DEF ClearsFailure
<1> HIDE DEF h, m
<1> QED BY <1>3, <1>4, <1>5 DEF StepOK

(* The provider selected becomes the primary.                                  *)
LEMMA RunsPrimaryOK ==
  ASSUME NEW k, NEW g, GenerationOK(g), IsClient(k), History(k), k.at \in Nat, k.sent = {},
         k.provider \in Routes(g.candidates), k.provider \notin k.cold
  PROVE  /\ StepOK(RunsPrimary(k, g), k, g) /\ RunsPrimary(k, g)[2] = g
         /\ RunsPrimary(k, g)[1].cold \subseteq k.cold
<1> DEFINE m == [k EXCEPT !.stage = "primary", !.primary = k.provider]
<1>1. /\ IsClient(m) /\ m.stage = "primary" /\ m.primary = k.provider
      /\ m.work = k.work /\ m.gen = k.gen /\ m.at = k.at /\ m.provider = k.provider
      /\ m.sent = k.sent /\ m.cold = k.cold /\ m.again = k.again /\ m.heat = k.heat
      /\ m.answer = k.answer
  BY DEF IsClient, Fields
<1>2. RunsPrimary(k, g) = Runs(m, g)
  BY DEF RunsPrimary
<1> HIDE DEF m
<1>3. Rerouted(g, g)
  BY DEF GenerationOK, Rerouted
<1>4. History(m)
  BY <1>1 DEF History
<1>5. StepOK(Runs(m, g), m, g) /\ Runs(m, g)[2] = g /\ Runs(m, g)[1].cold \subseteq m.cold
  BY <1>1, <1>3, <1>4, RunsOK DEF GenerationOK
<1> QED BY <1>1, <1>2, <1>5 DEF StepOK

(* What follows the events: a cleared failure, a failure, any, one that threw. *)
LEMMA AfterClearingOK ==
  ASSUME NEW k, NEW g, GenerationOK(g), ClientOK(k, g.candidates), Live(k, g.candidates),
         k.wait \in {"cleared", "recovered"}
  PROVE  StepOK(AfterClearing(k, g), k, g)
<1> DEFINE h == [g EXCEPT !.active = k.provider]
<1>1. Rerouted(g, h) /\ Rerouted(g, g)
  BY DEF Live, Routes, GenerationOK, RouteOK, Generations, Rerouted
<1>2. CASE k.stage = "select"
  <2> DEFINE m == [k EXCEPT !.wait = "selected"]
  <2>1. AfterClearing(k, g) = <<m, h>>
    BY <1>2 DEF AfterClearing
  <2>2. ClientOK(m, g.candidates) /\ m.gen = k.gen
    BY <1>2, WaitsOK DEF Waits
  <2> HIDE DEF h, m
  <2> QED BY <1>1, <2>1, <2>2 DEF StepOK
<1>3. CASE k.stage = "fallback"
  <2>1. AfterClearing(k, g) = Runs(k, h)
    BY <1>3 DEF AfterClearing
  <2> HIDE DEF h
  <2>2. FallbackOK(k, g.candidates)
    BY <1>3 DEF Live
  <2> QED BY <1>1, <1>3, <2>1, <2>2, RunsOK DEF ClientOK, Live, FallbackOK
<1>4. CASE k.stage = "primary"
  <2>1. k.provider \in k.served
    BY <1>4 DEF Live, PrimaryOK
  <2> QED BY <1>1, <1>4, <2>1, EndsOK DEF AfterClearing, StepOK, ClientOK
<1> QED BY <1>2, <1>3, <1>4 DEF Live

LEMMA AfterFailureOK ==
  ASSUME NEW k, NEW g, GenerationOK(g), ClientOK(k, g.candidates), Live(k, g.candidates), ColdIsOpen(k, g)
  PROVE  StepOK(AfterFailure(k, g), k, g)
<1>1. CASE k.stage # "primary"
  <2>1. Searching(k, g)
    BY <1>1 DEF Live, ClientOK, Searching, SelectOK, FallbackOK
  <2>2. AfterFailure(k, g) = TriesNext(k, g)
    BY <1>1 DEF AfterFailure
  <2> QED BY <2>1, <2>2, TriesNextOK
<1>2. CASE k.stage = "primary" /\ options.failOpen
  <2> DEFINE m == [k EXCEPT !.stage = "fallback", !.at = 0]
  <2>1. /\ IsClient(m) /\ m.stage = "fallback" /\ m.at = 0 /\ m.primary = k.primary
        /\ m.gen = k.gen /\ m.sent = k.sent /\ m.cold = k.cold /\ m.again = k.again
        /\ m.heat = k.heat /\ m.answer = k.answer
    BY DEF ClientOK, IsClient, Fields
  <2>2. AfterFailure(k, g) = TriesNext(m, g)
    BY <1>2 DEF AfterFailure
  <2> HIDE DEF m
  <2>3. k.sent \subseteq {k.primary} /\ k.sent \subseteq Routes(g.candidates)
    BY <1>2 DEF Live, PrimaryOK
  <2>4. Searching(m, g)
    BY <2>1, <2>3 DEF ClientOK, Searching, History, ColdIsOpen
  <2> QED BY <2>1, <2>2, <2>4, TriesNextOK DEF StepOK
<1>3. CASE k.stage = "primary" /\ ~options.failOpen
  <2>1. Rerouted(g, g)
    BY DEF GenerationOK, Rerouted
  <2> QED BY <1>3, <2>1, EndsOK DEF AfterFailure, StepOK, ClientOK
<1> QED BY <1>1, <1>2, <1>3

LEMMA AfterEventOK ==
  ASSUME NEW k, NEW g, GenerationOK(g), ClientOK(k, g.candidates), Live(k, g.candidates), ColdIsOpen(k, g),
         k.wait \in {"cleared", "recovered", "selected", "failure", "retry"}
  PROVE  StepOK(AfterEvent(k, g), k, g)
<1>1. CASE k.wait \in {"cleared", "recovered"}
  BY <1>1, AfterClearingOK DEF AfterEvent
<1>2. CASE k.wait = "selected"
  <2>1. k.stage = "select" /\ k.sent = {}
    BY <1>2 DEF Live, PrimaryOK, FallbackOK, SelectOK
  <2> QED BY <1>2, <2>1, RunsPrimaryOK DEF AfterEvent, ClientOK, Live
<1>3. CASE k.wait = "failure"
  BY <1>3, AfterFailureOK DEF AfterEvent
<1>4. CASE k.wait = "retry"
  <2> DEFINE m == [k EXCEPT !.attempt = @ + 1]
  <2>1. /\ IsClient(m) /\ m.work = k.work /\ m.gen = k.gen /\ m.stage = k.stage /\ m.at = k.at
        /\ m.provider = k.provider /\ m.primary = k.primary /\ m.sent = k.sent
        /\ m.cold = k.cold /\ m.again = k.again /\ m.heat = k.heat /\ m.answer = k.answer
    BY DEF ClientOK, IsClient, Fields
  <2>2. AfterEvent(k, g) = <<Sends(m), g>>
    BY <1>4 DEF AfterEvent
  <2> HIDE DEF m
  <2>3. Ready(m, g.candidates)
    BY <1>4, <2>1 DEF ClientOK, Live, Ready, History, Tried, SelectOK, PrimaryOK, FallbackOK
  <2>4. ClientOK(Sends(m), g.candidates) /\ Sends(m).gen = k.gen
    BY <2>1, <2>3, SendsOK DEF GenerationOK
  <2>5. Rerouted(g, g)
    BY DEF GenerationOK, Rerouted
  <2> QED BY <2>2, <2>4, <2>5 DEF StepOK
<1> QED BY <1>1, <1>2, <1>3, <1>4

LEMMA AfterThrowOK ==
  ASSUME NEW k, NEW g, GenerationOK(g), ClientOK(k, g.candidates), Live(k, g.candidates), now \in Nat
  PROVE  StepOK(AfterThrow(k, g), k, g)
<1>1. Rerouted(g, g)
  BY DEF GenerationOK, Rerouted
<1>2. StepOK(<<Rejected(k), g>>, k, g)
  BY <1>1, EndsOK DEF StepOK, ClientOK
<1> QED BY <1>2, RecordsFailureOK DEF AfterThrow

(* An operation begins with the providers that are cold for it.             *)
LEMMA BeginsOK ==
  ASSUME NEW k, NEW g, GenerationOK(g), IsClient(k), History(k), k.sent = {}, k.at \in Nat
  PROVE  /\ StepOK(Begins(k, g), k, g) /\ Begins(k, g)[2].failures = g.failures
         /\ ColdIsOpen(Begins(k, g)[1], g)
<1> DEFINE m == [k EXCEPT !.cold = {n \in Names : Open(g, n)}]
<1>1. /\ IsClient(m) /\ m.cold = {n \in Names : Open(g, n)} /\ m.work = k.work /\ m.gen = k.gen
      /\ m.at = k.at /\ m.sent = {} /\ m.again = k.again /\ m.heat = k.heat /\ m.answer = k.answer
  BY DEF IsClient, Fields
<1>2. Begins(k, g) = Selects(m, g)
  BY DEF Begins
<1> HIDE DEF m
<1>3. CASE g.active # None /\ ~Open(g, g.active)
  <2> DEFINE p == [m EXCEPT !.provider = g.active]
  <2>1. /\ IsClient(p) /\ p.provider = g.active /\ p.gen = k.gen /\ p.cold = m.cold
        /\ p.at = k.at /\ p.sent = {} /\ p.again = k.again /\ p.heat = k.heat /\ p.answer = k.answer
    BY <1>1 DEF IsClient, Fields
  <2>2. Selects(m, g) = RunsPrimary(p, g)
    BY <1>3 DEF Selects
  <2> HIDE DEF p
  <2>3. p.provider \in Routes(g.candidates) /\ p.provider \notin p.cold
    BY <1>1, <1>3, <2>1 DEF GenerationOK
  <2>4. History(p)
    BY <2>1 DEF History
  <2>5. StepOK(Begins(k, g), k, g) /\ Begins(k, g)[2].failures = g.failures
    BY <1>2, <2>1, <2>2, <2>3, <2>4, RunsPrimaryOK DEF StepOK
  <2>6. Begins(k, g)[1].cold \subseteq m.cold
    BY <1>2, <2>1, <2>2, <2>3, <2>4, RunsPrimaryOK
  <2> QED BY <1>1, <2>5, <2>6 DEF ColdIsOpen, Open
<1>4. CASE ~(g.active # None /\ ~Open(g, g.active))
  <2> DEFINE p == [m EXCEPT !.stage = "select", !.at = 0]
  <2>1. /\ IsClient(p) /\ p.stage = "select" /\ p.at = 0 /\ p.gen = k.gen /\ p.cold = m.cold
        /\ p.sent = {} /\ p.again = k.again /\ p.heat = k.heat /\ p.answer = k.answer
    BY <1>1 DEF IsClient, Fields
  <2>2. Selects(m, g) = TriesNext(p, g)
    BY <1>4 DEF Selects
  <2> HIDE DEF p
  <2>3. Searching(p, g)
    BY <1>1, <2>1 DEF Searching, History, ColdIsOpen, Open
  <2>4. StepOK(Begins(k, g), k, g) /\ Begins(k, g)[2].failures = g.failures
    BY <1>2, <2>1, <2>2, <2>3, TriesNextOK DEF StepOK
  <2>5. Begins(k, g)[1].cold \subseteq m.cold
    BY <1>2, <2>1, <2>2, <2>3, TriesNextOK
  <2> QED BY <1>1, <2>4, <2>5 DEF ColdIsOpen, Open
<1> QED BY <1>3, <1>4
-----------------------------------------------------------------------------
(* The places that do not come after i, i among them.                          *)
AheadOf(P, scores, i) == {j \in P : scores[j] > scores[i] \/ (scores[j] = scores[i] /\ j <= i)}

(* Of two places, the one ahead has fewer ahead of it.                         *)
LEMMA AheadNests ==
  ASSUME NEW P \in SUBSET Nat, NEW scores, \A i \in P : scores[i] \in Int, NEW i \in P, NEW j \in P,
         scores[i] > scores[j] \/ (scores[i] = scores[j] /\ i < j)
  PROVE  /\ AheadOf(P, scores, i) \in SUBSET AheadOf(P, scores, j)
         /\ j \in AheadOf(P, scores, j) /\ j \notin AheadOf(P, scores, i)
<1>1. j \in AheadOf(P, scores, j) /\ j \notin AheadOf(P, scores, i)
  BY DEF AheadOf
<1>2. ASSUME NEW m \in AheadOf(P, scores, i) PROVE m \in AheadOf(P, scores, j)
  <2>1. m \in P /\ m \in Nat /\ i \in Nat /\ j \in Nat
    BY <1>2 DEF AheadOf
  <2>2. scores[m] \in Int /\ scores[i] \in Int /\ scores[j] \in Int
    BY <2>1
  <2>3. scores[m] > scores[i] \/ (scores[m] = scores[i] /\ m <= i)
    BY <1>2 DEF AheadOf
  <2>4. scores[m] > scores[j] \/ (scores[m] = scores[j] /\ m <= j)
    BY <2>1, <2>2, <2>3
  <2> QED BY <2>1, <2>4 DEF AheadOf
<1> QED BY <1>1, <1>2

(* So every rank is taken: an injection of a finite set into one of its size   *)
(* is onto.                                                                    *)
LEMMA RanksOK ==
  ASSUME NEW P \in SUBSET Nat, IsFiniteSet(P), NEW scores, \A i \in P : scores[i] \in Int
  PROVE  \A k \in 1 .. Cardinality(P) : \E i \in P : Cardinality(AheadOf(P, scores, i)) = k
<1> DEFINE R == 1 .. Cardinality(P)
           A(i) == AheadOf(P, scores, i)
           rank == [i \in P |-> Cardinality(A(i))]
<1>1. Cardinality(P) \in Nat
  BY FS_CardinalityType
<1>2. IsFiniteSet(R) /\ Cardinality(R) = Cardinality(P)
  BY <1>1, FS_Interval
<1>3. ASSUME NEW i \in P PROVE A(i) \in SUBSET P /\ i \in A(i) /\ IsFiniteSet(A(i))
  <2>1. A(i) \in SUBSET P /\ i \in A(i)
    BY DEF AheadOf
  <2> HIDE DEF A
  <2> QED BY <2>1, FS_Subset
<1>4. ASSUME NEW i \in P PROVE rank[i] \in R
  <2>1. A(i) \in SUBSET P /\ i \in A(i) /\ IsFiniteSet(A(i))
    BY <1>3
  <2> HIDE DEF A
  <2>2. Cardinality(A(i)) <= Cardinality(P) /\ Cardinality(A(i)) \in Nat
    BY <2>1, FS_Subset, FS_CardinalityType
  <2>3. Cardinality(A(i)) # 0
    BY <2>1, FS_EmptySet
  <2> QED BY <1>1, <2>2, <2>3
<1>5. ASSUME NEW i \in P, NEW j \in P, i # j PROVE rank[i] # rank[j]
  <2>2. \/ A(i) \in SUBSET A(j) /\ j \in A(j) /\ j \notin A(i)
        \/ A(j) \in SUBSET A(i) /\ i \in A(i) /\ i \notin A(j)
    <3>1. CASE scores[i] > scores[j] \/ (scores[i] = scores[j] /\ i < j)
      BY <3>1, AheadNests
    <3>2. CASE scores[j] > scores[i] \/ (scores[i] = scores[j] /\ j < i)
      BY <3>2, AheadNests
    <3>3. scores[i] \in Int /\ scores[j] \in Int /\ i \in Nat /\ j \in Nat
      OBVIOUS
    <3> QED BY <1>5, <3>1, <3>2, <3>3
  <2>3. IsFiniteSet(A(i)) /\ IsFiniteSet(A(j))
    BY <1>3
  <2> HIDE DEF A
  <2>4. Cardinality(A(i)) # Cardinality(A(j))
    BY <2>2, <2>3, FS_Subset
  <2> QED BY <2>4
<1> HIDE DEF A, R
<1>6. rank \in Injection(P, R)
  <2>1. rank \in [P -> R]
    BY <1>4
  <2>2. IsInjective(rank)
    BY <1>5, <2>1 DEF IsInjective
  <2> QED BY <2>1, <2>2 DEF Injection
<1>7. rank \in Surjection(P, R)
  <2> HIDE DEF rank
  <2>1. Cardinality(P) = Cardinality(R) <=> rank \in Surjection(P, R)
    BY <1>2, <1>6, FS_Injection
  <2> QED BY <1>2, <2>1
<1>8. \A k \in R : \E i \in P : rank[i] = k
  <2> HIDE DEF rank
  <2> QED BY <1>7 DEF Surjection
<1> QED BY <1>8 DEF A, R

(* t has the n elements of s that stand at the places P, each once.         *)
Arranges(t, s, P, n) ==
  \E place \in [1 .. n -> P] :
    /\ \A k, l \in 1 .. n : place[k] = place[l] => k = l
    /\ t = [k \in 1 .. n |-> s[place[k]]]

(* Sorting arranges the places it is given; sorting again, the same ones.      *)
LEMMA SortedArranges ==
  ASSUME NEW s, NEW P \in SUBSET Nat, IsFiniteSet(P), NEW scores, \A i \in P : scores[i] \in Int
  PROVE  Arranges(Sorted(s, P, scores), s, P, Cardinality(P))
<1> DEFINE n == Cardinality(P)
           rank(i) == Cardinality(AheadOf(P, scores, i))
           place == [k \in 1 .. n |-> CHOOSE i \in P : rank(i) = k]
<1>1. Sorted(s, P, scores) = [k \in 1 .. n |-> s[place[k]]]
  BY DEF Sorted, AheadOf
<1>2. \A k \in 1 .. n : \E i \in P : rank(i) = k
  BY RanksOK
<1> HIDE DEF rank
<1>3. place \in [1 .. n -> P] /\ \A k \in 1 .. n : rank(place[k]) = k
  BY <1>2
<1> HIDE DEF place, n
<1>4. Arranges(Sorted(s, P, scores), s, P, n)
  BY <1>1, <1>3 DEF Arranges
<1> QED BY <1>4 DEF n

LEMMA ArrangesTwice ==
  ASSUME NEW s, NEW P, NEW n \in Nat, NEW t, NEW u, Arranges(t, s, P, n), Arranges(u, t, 1 .. n, n)
  PROVE  Arranges(u, s, P, n)
<1>1. PICK first \in [1 .. n -> P] :
        /\ \A k, l \in 1 .. n : first[k] = first[l] => k = l
        /\ t = [k \in 1 .. n |-> s[first[k]]]
  BY DEF Arranges
<1>2. PICK place \in [1 .. n -> 1 .. n] :
        /\ \A k, l \in 1 .. n : place[k] = place[l] => k = l
        /\ u = [k \in 1 .. n |-> t[place[k]]]
  BY DEF Arranges
<1> DEFINE both == [k \in 1 .. n |-> first[place[k]]]
<1>3. both \in [1 .. n -> P] /\ \A k, l \in 1 .. n : both[k] = both[l] => k = l
  BY <1>1, <1>2
<1>4. u = [k \in 1 .. n |-> s[both[k]]]
  BY <1>1, <1>2
<1> HIDE DEF both
<1> QED BY <1>3, <1>4 DEF Arranges

(* The orchestrator goes by the admissible candidates, each once.           *)
LEMMA OrderArranges ==
  ASSUME NEW s, NEW config, DOMAIN s \in SUBSET Nat, IsFiniteSet(DOMAIN s),
         \A i \in DOMAIN s : s[i].priority \in Int
  PROVE  LET P == {i \in DOMAIN s : Admissible(s[i], config)} IN
         Cardinality(P) \in Nat /\ Arranges(Order(s, config), s, P, Cardinality(P))
<1> DEFINE P == {i \in DOMAIN s : Admissible(s[i], config)}
           boosted == [i \in DOMAIN s |-> s[i].priority + Boost(s[i].capabilities, config.deployment)]
           admitted == Sorted(s, P, boosted)
           scores == [i \in DOMAIN admitted |-> admitted[i].priority]
           n == Cardinality(P)
<1>1. P \in SUBSET Nat /\ IsFiniteSet(P)
  BY FS_Subset
<1>2. \A i \in P : boosted[i] \in Int
  BY DEF Boost
<1>3. n \in Nat
  BY <1>1, FS_CardinalityType
<1>4. \A i \in P : s[i].priority \in Int
  OBVIOUS
<1>5. Order(s, config) = Sorted(admitted, DOMAIN admitted, scores)
  BY DEF Order, Admitted
<1> HIDE DEF P, boosted
<1>6. Arranges(admitted, s, P, n)
  BY <1>1, <1>2, SortedArranges
<1> HIDE DEF admitted, n
<1>7. /\ DOMAIN admitted = 1 .. n
      /\ \A i \in 1 .. n : admitted[i].priority \in Int
  BY <1>4, <1>6 DEF Arranges
<1>8. \A i \in 1 .. n : scores[i] \in Int
  BY <1>7
<1>9. 1 .. n \in SUBSET Nat /\ IsFiniteSet(1 .. n) /\ Cardinality(1 .. n) = n
  BY <1>3, FS_Interval
<1> HIDE DEF scores
<1>10. Arranges(Sorted(admitted, 1 .. n, scores), admitted, 1 .. n, n)
  BY <1>8, <1>9, SortedArranges
<1>11. Arranges(Order(s, config), s, P, n)
  BY <1>3, <1>5, <1>6, <1>7, <1>10, ArrangesTwice
<1> QED BY <1>3, <1>11 DEF P, n
-----------------------------------------------------------------------------
(* A generation goes by the names of the candidates it admits, each once.   *)
LEMMA GenerationFits ==
  ASSUME NEW config
  PROVE  LET g == Generation(config) IN
         /\ RouteOK(g.candidates) /\ g.config = config /\ g.active = None
         /\ g.failures \in [Names -> Failures]
         /\ g = [config |-> config, candidates |-> g.candidates, active |-> None, failures |-> g.failures]
         /\ \A n \in Routes(g.candidates) : \E i \in DOMAIN Candidates :
              Candidates[i].name = n /\ Admissible(Candidates[i], config)
<1> DEFINE g == Generation(config)
           P == {i \in DOMAIN Candidates : Admissible(Candidates[i], config)}
           order == Order(Candidates, config)
           m == Cardinality(P)
<1>1. /\ DOMAIN Candidates \in SUBSET Nat /\ IsFiniteSet(DOMAIN Candidates)
      /\ \A i \in DOMAIN Candidates : Candidates[i].priority \in Int
  <2>1. DOMAIN Candidates = 1 .. Len(Candidates) /\ Len(Candidates) \in Nat
    BY CandidatesAssumption
  <2>2. IsFiniteSet(1 .. Len(Candidates))
    BY <2>1, FS_Interval
  <2> QED BY <2>1, <2>2, CandidatesAssumption
<1>2. m \in Nat /\ Arranges(order, Candidates, P, m)
  BY <1>1, OrderArranges
<1> HIDE DEF m, order
<1>3. PICK place \in [1 .. m -> P] :
        /\ \A k, l \in 1 .. m : place[k] = place[l] => k = l
        /\ order = [k \in 1 .. m |-> Candidates[place[k]]]
  BY <1>2 DEF Arranges
<1>4. g.candidates = [k \in 1 .. m |-> Candidates[place[k]].name]
  BY <1>3 DEF Generation, order
<1>5. \A k \in 1 .. m : place[k] \in DOMAIN Candidates /\ Admissible(Candidates[place[k]], config)
  BY <1>3
<1>6. [k \in 1 .. m |-> Candidates[place[k]].name] \in [1 .. m -> Names]
  BY <1>5 DEF Names
<1>7. [k \in 1 .. m |-> Candidates[place[k]].name] \in Seq(Names)
  BY <1>2, <1>6
<1>8. \A k, l \in 1 .. m : Candidates[place[k]].name = Candidates[place[l]].name => k = l
  BY <1>3, <1>5, CandidatesAssumption
<1>9. RouteOK(g.candidates)
  BY <1>4, <1>7, <1>8 DEF RouteOK
<1>10. \A n \in Routes(g.candidates) : \E i \in DOMAIN Candidates :
         Candidates[i].name = n /\ Admissible(Candidates[i], config)
  BY <1>4, <1>5 DEF Routes
<1>11. /\ g.config = config /\ g.active = None /\ g.failures = [n \in Names |-> [count |-> 0, until |-> 0]]
       /\ g = [config |-> config, candidates |-> g.candidates, active |-> None, failures |-> g.failures]
  BY DEF Generation
<1>12. [n \in Names |-> [count |-> 0, until |-> 0]] \in [Names -> Failures]
  BY DEF Failures
<1> HIDE DEF g
<1> QED BY <1>9, <1>10, <1>11, <1>12 DEF g
-----------------------------------------------------------------------------
(* What the deployment options come to, field by field.                     *)
LEMMA OptionOf ==
  ASSUME NEW asked, asked.profile \in Profiles, NEW field \in {"requireDurableWrites", "allowEphemeralFallback"}
  PROVE  LET chosen == Over(Merged(asked), Defaults) IN
         /\ field \in DOMAIN asked.deployment => chosen[field] = asked.deployment[field]
         /\ asked.profile = "server" /\ field \notin DOMAIN asked.deployment =>
              chosen[field] = (field = "requireDurableWrites")
<1> DEFINE profile == ProfileDeployment[asked.profile]
           set == Merged(asked)
           chosen == Over(set, Defaults)
<1>1. field \in DOMAIN Defaults
  BY DEF Defaults
<1>2. asked.profile = "server" => field \in DOMAIN profile /\ profile[field] = (field = "requireDurableWrites")
  <2>1. ProfileDeployment["server"] =
          [environment |-> "server", requireDurableWrites |-> TRUE, allowEphemeralFallback |-> FALSE]
    BY DEF ProfileDeployment
  <2>2. /\ DOMAIN ProfileDeployment["server"] = {"environment", "requireDurableWrites", "allowEphemeralFallback"}
        /\ ProfileDeployment["server"]["requireDurableWrites"] = TRUE
        /\ ProfileDeployment["server"]["allowEphemeralFallback"] = FALSE
    BY <2>1
  <2>3. CASE field = "requireDurableWrites"
    BY <2>2, <2>3
  <2>4. CASE field = "allowEphemeralFallback"
    BY <2>2, <2>4
  <2> QED BY <2>3, <2>4
<1> HIDE DEF profile
<1>3. /\ field \in DOMAIN set <=> field \in DOMAIN asked.deployment \/ field \in DOMAIN profile
      /\ field \in DOMAIN asked.deployment => set[field] = asked.deployment[field]
      /\ field \notin DOMAIN asked.deployment /\ field \in DOMAIN profile => set[field] = profile[field]
  BY DEF Merged, Over, profile
<1> HIDE DEF set
<1>4. chosen[field] = IF field \in DOMAIN set THEN set[field] ELSE Defaults[field]
  BY <1>1 DEF Over
<1> HIDE DEF chosen
<1> QED BY <1>2, <1>3, <1>4 DEF chosen, set

(* An admissible candidate is what the input asks for.                         *)
LEMMA AdmissibleMeets ==
  ASSUME NEW asked, ValidInput(asked), NEW i \in DOMAIN Candidates, Admissible(Candidates[i], Validated(asked))
  PROVE  LET capabilities == Candidates[i].capabilities IN
         /\ Asks(asked, "requireDurableWrites", TRUE) => capabilities.persistence = "durable"
         /\ Asks(asked, "allowEphemeralFallback", FALSE) => capabilities.persistence # "none"
         /\ asked.requirement.features \subseteq capabilities.features
<1> DEFINE capabilities == Candidates[i].capabilities
           chosen == Over(Merged(asked), Defaults)
<1>1. asked.profile \in Profiles
  BY DEF ValidInput
<1>2. Validated(asked).deployment = Merged(asked) /\ Validated(asked).requirement = asked.requirement
  BY DEF Validated
<1>3. EnvironmentAllows(capabilities, Merged(asked)) /\ Satisfies(capabilities, asked.requirement)
  BY <1>2 DEF Admissible
<1>4. /\ chosen.allowEphemeralFallback \/ capabilities.persistence # "none"
      /\ chosen.requireDurableWrites => capabilities.persistence = "durable"
  BY <1>3 DEF EnvironmentAllows
<1>5. asked.requirement.features \subseteq capabilities.features
  BY <1>3 DEF Satisfies
<1>6. Asks(asked, "requireDurableWrites", TRUE) => chosen.requireDurableWrites
  <2>1. /\ "requireDurableWrites" \in DOMAIN asked.deployment =>
             chosen["requireDurableWrites"] = asked.deployment["requireDurableWrites"]
        /\ asked.profile = "server" /\ "requireDurableWrites" \notin DOMAIN asked.deployment =>
             chosen["requireDurableWrites"] = TRUE
    BY <1>1, OptionOf
  <2> HIDE DEF chosen
  <2> QED BY <2>1 DEF Asks
<1>7. Asks(asked, "allowEphemeralFallback", FALSE) => ~chosen.allowEphemeralFallback
  <2>1. /\ "allowEphemeralFallback" \in DOMAIN asked.deployment =>
             chosen["allowEphemeralFallback"] = asked.deployment["allowEphemeralFallback"]
        /\ asked.profile = "server" /\ "allowEphemeralFallback" \notin DOMAIN asked.deployment =>
             chosen["allowEphemeralFallback"] = FALSE
    BY <1>1, OptionOf
  <2> HIDE DEF chosen
  <2> QED BY <2>1 DEF Asks
<1> HIDE DEF chosen
<1> QED BY <1>4, <1>5, <1>6, <1>7
-----------------------------------------------------------------------------
(* A generation was made from the input the manager took then.              *)
Made(g, asked) ==
  /\ GenerationOK(g) /\ asked \in Inputs \cup {FirstInput} /\ ValidInput(asked)
  /\ g.config = Validated(asked)
  /\ \A n \in Routes(g.candidates) : \E i \in DOMAIN Candidates :
       Candidates[i].name = n /\ Admissible(Candidates[i], g.config)

GenerationsOK ==
  /\ generations \in Seq(Generations) /\ Len(generations) >= 1
  /\ input \in Seq(Inputs \cup {FirstInput}) /\ Len(input) = Len(generations)
  /\ \A i \in 1 .. Len(generations) : Made(generations[i], input[i])

(* A client and the generation it runs on.                                  *)
Placed(c) ==
  /\ clients[c].gen \in 0 .. Len(generations)
  /\ clients[c].gen = 0 => clients[c].wait = "idle"
  /\ ClientOK(clients[c], generations[clients[c].gen].candidates)
  /\ ColdIsOpen(clients[c], generations[clients[c].gen])

(* The inductive invariant.                                                    *)
AnnInv ==
  /\ now \in 0 .. MaxNow
  /\ GenerationsOK
  /\ clients = [c \in Clients |-> clients[c]]
  /\ \A c \in Clients : Placed(c)

(* An idle client is in order on any route.                                    *)
LEMMA IdleOK == \A route : ClientOK(Idle, route) /\ Idle.gen = 0 /\ Idle.wait = "idle" /\ Idle.cold = {} /\ IsClient(Idle)
<1>1. IsClient(Idle)
  BY DEF IsClient, Fields, Idle
<1>2. History(Idle) /\ Quiet(Idle) /\ Idle.gen = 0 /\ Idle.wait = "idle" /\ Idle.cold = {}
  BY DEF Idle, History, Quiet, Resting
<1> QED BY <1>1, <1>2 DEF ClientOK

(* A circuit that closes matters to no other part of a client.              *)
(* A client for which only the circuits of C are still cold.                   *)
Cooled(k, C) == [k EXCEPT !.cold = C]

LEMMA CooledOK ==
  ASSUME NEW k, NEW route, ClientOK(k, route), NEW C, C \subseteq k.cold
  PROVE  LET m == Cooled(k, C) IN
         ClientOK(m, route) /\ m.gen = k.gen /\ m.wait = k.wait /\ m.cold = C
<1> DEFINE m == Cooled(k, C)
<1>1. /\ IsClient(m) /\ m.wait = k.wait /\ m.cold = C /\ m.served = k.served
      /\ m.work = k.work /\ m.gen = k.gen /\ m.stage = k.stage /\ m.at = k.at
      /\ m.provider = k.provider /\ m.primary = k.primary /\ m.sent = k.sent
      /\ m.again = k.again /\ m.heat = k.heat /\ m.answer = k.answer
  BY DEF Cooled, ClientOK, IsClient, Fields
<1> HIDE DEF m
<1>2. History(m)
  BY <1>1 DEF ClientOK, History
<1>3. Tried(m, route) = Tried(k, route)
  BY <1>1 DEF Tried
<1>4. Live(k, route) => Live(m, route)
  BY <1>1, <1>3 DEF Live, SelectOK, PrimaryOK, FallbackOK
<1>5. Quiet(k) => Quiet(m)
  BY <1>1 DEF Quiet
<1> QED BY <1>1, <1>2, <1>4, <1>5 DEF ClientOK, m

(* The options never change, and a client's order depends on nothing else.     *)
LEMMA ClientKept ==
  ASSUME options' = options, NEW d,
         ClientOK(clients'[d], generations'[clients'[d].gen].candidates)
  PROVE  ClientOK(clients[d], generations[clients[d].gen].candidates)'
BY DEF ClientOK, History, Quiet, Live, SelectOK, PrimaryOK, FallbackOK, IsClient, Tried, Routes

(* A step of a client changes its generation's circuits and active provider.*)
LEMMA GenerationStays ==
  ASSUME GenerationsOK, NEW i \in 1 .. Len(generations), NEW h, Rerouted(generations[i], h),
         generations' = [generations EXCEPT ![i] = h], input' = input
  PROVE  /\ GenerationsOK'
         /\ Len(generations') = Len(generations)
         /\ \A j \in 1 .. Len(generations) : generations'[j].candidates = generations[j].candidates
<1>1. /\ generations \in Seq(Generations) /\ Len(generations) \in Nat /\ DOMAIN generations = 1 .. Len(generations)
      /\ \A j \in 1 .. Len(generations) : Made(generations[j], input[j])
  BY DEF GenerationsOK
<1>2. h \in Generations /\ h.config = generations[i].config /\ h.candidates = generations[i].candidates
  BY DEF Rerouted
<1>3. generations' \in Seq(Generations) /\ Len(generations') = Len(generations)
  BY <1>1, <1>2
<1>4. Made(h, input[i])
  <2>1. Made(generations[i], input[i])
    BY <1>1
  <2> QED BY <1>2, <2>1 DEF Made, GenerationOK, Rerouted
<1>5. generations'[i] = h /\ \A j \in 1 .. Len(generations) : j # i => generations'[j] = generations[j]
  BY <1>1
<1>6. \A j \in 1 .. Len(generations) : Made(generations'[j], input'[j])
  BY <1>1, <1>4, <1>5
<1>7. GenerationsOK'
  BY <1>3, <1>6 DEF GenerationsOK
<1> QED BY <1>2, <1>3, <1>5, <1>7

(* Whatever a client's step came to, the clock cools everyone's circuits.   *)
LEMMA CooledPlaced ==
  ASSUME NEW k, NEW C, C \subseteq k.cold, NEW d \in Clients, options' = options,
         k.gen \in 0 .. Len(generations'), k.gen = 0 => k.wait = "idle",
         ClientOK(k, generations'[k.gen].candidates),
         \A n \in C : generations'[k.gen].failures[n].until > now',
         clients'[d] = Cooled(k, C)
  PROVE  Placed(d)'
<1> DEFINE m == Cooled(k, C)
<1>1. ClientOK(m, generations'[k.gen].candidates) /\ m.gen = k.gen /\ m.wait = k.wait /\ m.cold = C
  BY CooledOK
<1> HIDE DEF m
<1>2. clients'[d] = m
  BY DEF m
<1>3. ClientOK(clients[d], generations[clients[d].gen].candidates)'
  BY <1>1, <1>2, ClientKept
<1>4. ColdIsOpen(clients[d], generations[clients[d].gen])'
  BY <1>1, <1>2 DEF ColdIsOpen
<1> QED BY <1>1, <1>2, <1>3, <1>4 DEF Placed

(* A step that is in order keeps the invariant.                                *)
LEMMA BecomeOK ==
  ASSUME AnnInv, NEW c \in Clients, clients[c].gen # 0, NEW pair,
         StepOK(pair, clients[c], generations[clients[c].gen]), Become(c, pair)
  PROVE  AnnInv'
<1> DEFINE g == clients[c].gen
           all == [clients EXCEPT ![c] = pair[1]]
<1>1. /\ g \in 1 .. Len(generations) /\ now \in 0 .. MaxNow /\ GenerationsOK
      /\ clients = [d \in Clients |-> clients[d]] /\ \A d \in Clients : Placed(d)
  BY DEF AnnInv, Placed
<1>2. /\ generations' = [generations EXCEPT ![g] = pair[2]] /\ input' = input /\ now' = now /\ options' = options
      /\ clients' = Warmed(all, generations', now')
  BY DEF Become
<1>3. /\ ClientOK(pair[1], generations[g].candidates) /\ Rerouted(generations[g], pair[2])
      /\ pair[1].gen = g \/ pair[1] = Idle
  BY DEF StepOK
<1> DEFINE h == pair[2]
<1>4. /\ GenerationsOK' /\ Len(generations') = Len(generations) /\ Len(generations) \in Nat
      /\ \A j \in 1 .. Len(generations) : generations'[j].candidates = generations[j].candidates
  <2>1. Len(generations) \in Nat
    BY <1>1 DEF GenerationsOK
  <2>2. generations' = [generations EXCEPT ![g] = h] /\ Rerouted(generations[g], h)
    BY <1>2, <1>3
  <2> HIDE DEF g, h
  <2> QED BY <1>1, <1>2, <2>1, <2>2, GenerationStays
<1>5. /\ all[c] = pair[1] /\ \A d \in Clients : d # c => all[d] = clients[d]
      /\ DOMAIN all = Clients
  BY <1>1
<1> HIDE DEF all
<1>6. ASSUME NEW d \in Clients
      PROVE  /\ all[d].gen \in 0 .. Len(generations)
             /\ all[d].gen = 0 => all[d].wait = "idle"
             /\ ClientOK(all[d], generations'[all[d].gen].candidates)
  <2>1. CASE d = c /\ pair[1] = Idle
    <3>1. all[d] = Idle
      BY <1>5, <2>1
    <3>2. 0 \in 0 .. Len(generations)
      BY <1>4
    <3> QED BY <3>1, <3>2, IdleOK
  <2>2. CASE d = c /\ pair[1] # Idle
    BY <1>1, <1>3, <1>4, <1>5, <2>2
  <2>3. CASE d # c
    <3>1. all[d] = clients[d] /\ Placed(d)
      BY <1>1, <1>5, <2>3
    <3>2. CASE clients[d].gen = 0
      <4>1. Quiet(clients[d]) /\ IsClient(clients[d]) /\ History(clients[d])
        BY <3>1, <3>2 DEF Placed, ClientOK, Live, Waits
      <4> QED BY <1>4, <3>1, <3>2, <4>1 DEF Placed, ClientOK
    <3>3. CASE clients[d].gen # 0
      BY <1>4, <3>1, <3>3 DEF Placed
    <3> QED BY <3>2, <3>3
  <2> QED BY <2>1, <2>2, <2>3
<1>7. \A d \in Clients : Placed(d)'
  <2> SUFFICES ASSUME NEW d \in Clients PROVE Placed(d)'
    OBVIOUS
  <2> DEFINE k == all[d]
             C == {n \in k.cold : generations'[k.gen].failures[n].until > now'}
  <2>1. /\ k.gen \in 0 .. Len(generations')
        /\ k.gen = 0 => k.wait = "idle"
        /\ ClientOK(k, generations'[k.gen].candidates)
    BY <1>4, <1>6
  <2>2. clients'[d] = Cooled(k, C)
    BY <1>2 DEF Warmed, Cooled
  <2>3. C \subseteq k.cold /\ \A n \in C : generations'[k.gen].failures[n].until > now'
    OBVIOUS
  <2>4. options' = options
    BY <1>2
  <2> HIDE DEF C, k
  <2> QED BY <2>1, <2>2, <2>3, <2>4, CooledPlaced
<1>8. clients' = [d \in Clients |-> clients'[d]]
  BY <1>2 DEF Warmed
<1> QED BY <1>1, <1>2, <1>4, <1>7, <1>8 DEF AnnInv

(* A provider that retries the query itself.                                   *)
LEMMA QueriesOK ==
  ASSUME NEW k, NEW route, ClientOK(k, route), Live(k, route)
  PROVE  LET m == [k EXCEPT !.query = @ + 1] IN ClientOK(m, route) /\ m.gen = k.gen
<1> DEFINE m == [k EXCEPT !.query = @ + 1]
<1>1. /\ IsClient(m) /\ m.wait = k.wait /\ m.served = k.served
      /\ m.work = k.work /\ m.gen = k.gen /\ m.stage = k.stage /\ m.at = k.at
      /\ m.provider = k.provider /\ m.primary = k.primary /\ m.sent = k.sent /\ m.cold = k.cold
      /\ m.again = k.again /\ m.heat = k.heat /\ m.answer = k.answer
  BY DEF ClientOK, IsClient, Fields
<1> HIDE DEF m
<1>2. History(m)
  BY <1>1 DEF ClientOK, History
<1>3. Tried(m, route) = Tried(k, route)
  BY <1>1 DEF Tried
<1>4. Live(m, route)
  BY <1>1, <1>3 DEF Live, SelectOK, PrimaryOK, FallbackOK
<1> QED BY <1>1, <1>2, <1>4 DEF ClientOK, m

(* A client that is not idle runs on a generation that exists.                 *)
LEMMA Running ==
  ASSUME AnnInv, NEW c \in Clients, clients[c].wait # "idle"
  PROVE  LET k == clients[c]
             g == generations[k.gen] IN
         /\ k.gen # 0 /\ k.gen \in 1 .. Len(generations) /\ now \in Nat
         /\ Made(g, input[k.gen]) /\ GenerationOK(g)
         /\ ClientOK(k, g.candidates) /\ ColdIsOpen(k, g)
         /\ k.wait # "finished" => Live(k, g.candidates)
<1>1. Placed(c) /\ GenerationsOK /\ now \in Nat
  BY DEF AnnInv
<1>2. clients[c].gen \in 1 .. Len(generations)
  BY <1>1 DEF Placed, GenerationsOK
<1>3. Made(generations[clients[c].gen], input[clients[c].gen])
  BY <1>1, <1>2 DEF GenerationsOK
<1> QED BY <1>1, <1>2, <1>3 DEF Placed, Made, ClientOK, Quiet, Resting

(* Every step of a client is in order.                                         *)
LEMMA StepKeepsInv ==
  ASSUME AnnInv, NEW c \in Clients, Step(c) PROVE AnnInv'
<1> DEFINE k == clients[c]
           g == generations[k.gen]
<1> SUFFICES ASSUME k.wait # "idle" PROVE AnnInv'
  BY DEF Step, Continue, ProbeAnswers, OperationSucceeds, OperationFails, HandlerReturns, HandlerThrows
<1>1. /\ k.gen # 0 /\ now \in Nat /\ GenerationOK(g)
      /\ ClientOK(k, g.candidates) /\ ColdIsOpen(k, g)
      /\ k.wait # "finished" => Live(k, g.candidates)
  BY Running
<1>2. Rerouted(g, g)
  BY <1>1 DEF GenerationOK, Rerouted
<1> SUFFICES \E pair : StepOK(pair, k, g) /\ Become(c, pair)
  BY <1>1, BecomeOK
<1>3. CASE Continue(c)
  <2>1. k.wait = "finished" /\ Quiet(k) /\ IsClient(k) /\ History(k)
    BY <1>1, <1>3 DEF Continue, ClientOK, Live, Waits
  <2>2. CASE k.work = <<>>
    <3>1. Become(c, <<Idle, g>>)
      BY <1>3, <2>2 DEF Continue
    <3>2. StepOK(<<Idle, g>>, k, g)
      BY <1>2, IdleOK DEF StepOK
    <3> QED BY <3>1, <3>2
  <2>3. CASE k.work # <<>>
    <3>1. Become(c, Begins(k, g))
      BY <1>3, <2>3 DEF Continue
    <3>2. k.sent = {} /\ k.at \in Nat
      BY <2>1 DEF Quiet
    <3>3. StepOK(Begins(k, g), k, g)
      BY <1>1, <2>1, <3>2, BeginsOK
    <3> QED BY <3>1, <3>3
  <2> QED BY <2>2, <2>3
<1>4. CASE ProbeAnswers(c)
  <2>1. k.wait = "probe" /\ Live(k, g.candidates)
    BY <1>1, <1>4 DEF ProbeAnswers
  <2>2. StepOK(ClearsFailure(k, g), k, g)
    BY <1>1, <2>1, ClearsFailureOK DEF Live, PrimaryOK, FallbackOK
  <2>3. Searching(k, g)
    BY <1>1, <2>1 DEF Live, ClientOK, Searching, SelectOK, PrimaryOK, FallbackOK
  <2>4. StepOK(TriesNext(k, g), k, g)
    BY <1>1, <2>3, TriesNextOK
  <2>5. StepOK(RecordsFailure(k, g), k, g)
    BY <1>1, <2>1, RecordsFailureOK
  <2>6. Become(c, ClearsFailure(k, g)) \/ Become(c, TriesNext(k, g)) \/ Become(c, RecordsFailure(k, g))
    BY <1>4 DEF ProbeAnswers
  <2> QED BY <2>2, <2>4, <2>5, <2>6
<1>5. CASE OperationSucceeds(c)
  <2> DEFINE served == [k EXCEPT !.served = @ \cup {k.provider}]
  <2>1. k.wait = "operation" /\ Live(k, g.candidates)
    BY <1>1, <1>5 DEF OperationSucceeds
  <2>2. /\ ClientOK(served, g.candidates) /\ Live(served, g.candidates)
        /\ served.gen = k.gen /\ served.stage = k.stage /\ served.provider = k.provider
        /\ served.provider \in served.served
    BY <1>1, <2>1, ServesOK
  <2>3. \/ k.stage = "primary" /\ Become(c, ClearsFailure(served, g))
        \/ k.stage # "primary" /\ Become(c, <<Returned(served), g>>)
    BY <1>5 DEF OperationSucceeds
  <2> HIDE DEF served
  <2>4. k.stage = "primary" => StepOK(ClearsFailure(served, g), k, g)
    BY <1>1, <2>2, ClearsFailureOK DEF StepOK
  <2>5. StepOK(<<Returned(served), g>>, k, g)
    BY <1>2, <2>2, EndsOK DEF StepOK, ClientOK
  <2> QED BY <2>3, <2>4, <2>5
<1>6. CASE OperationFails(c)
  <2>1. k.wait = "operation" /\ Live(k, g.candidates) /\ k.stage # "select"
    BY <1>1, <1>6 DEF OperationFails, Live, SelectOK
  <2>2. CASE Become(c, RecordsFailure(k, g))
    BY <1>1, <2>1, <2>2, RecordsFailureOK
  <2>3. ASSUME NEW done,
               LET client == [k EXCEPT !.served = @ \cup done]
               IN  Become(c, IF client.query < QueryAttempts[k.provider]
                             THEN <<[client EXCEPT !.query = @ + 1], g>>
                             ELSE IF MayRetry(client)
                             THEN <<[client EXCEPT !.wait = "retry"], g>>
                             ELSE RecordsFailure(client, g))
        PROVE  \E pair : StepOK(pair, k, g) /\ Become(c, pair)
    <3> DEFINE m == [k EXCEPT !.served = @ \cup done]
               again == [m EXCEPT !.query = @ + 1]
               waits == [m EXCEPT !.wait = "retry"]
    <3>1. /\ ClientOK(m, g.candidates) /\ Live(m, g.candidates)
          /\ m.gen = k.gen /\ m.stage = k.stage
      BY <1>1, <2>1, ServesOK
    <3>2. \/ Become(c, <<again, g>>)
          \/ MayRetry(m) /\ Become(c, <<waits, g>>)
          \/ Become(c, RecordsFailure(m, g))
      BY <2>3
    <3> HIDE DEF m
    <3>3. ClientOK(again, g.candidates) /\ again.gen = k.gen
      BY <3>1, QueriesOK
    <3>4. MayRetry(m) => ClientOK(waits, g.candidates) /\ waits.gen = k.gen
      BY <2>1, <3>1, WaitsOK DEF Waits, MayRetry
    <3>5. StepOK(RecordsFailure(m, g), k, g)
      BY <1>1, <3>1, RecordsFailureOK DEF StepOK
    <3> HIDE DEF again, waits
    <3>6. StepOK(<<again, g>>, k, g)
      BY <1>2, <3>3 DEF StepOK
    <3>7. MayRetry(m) => StepOK(<<waits, g>>, k, g)
      BY <1>2, <3>4 DEF StepOK
    <3> QED BY <3>2, <3>5, <3>6, <3>7
  <2> QED BY <1>6, <2>2, <2>3 DEF OperationFails
<1>7. CASE HandlerReturns(c)
  <2>1. StepOK(AfterEvent(k, g), k, g)
    BY <1>1, <1>7, AfterEventOK DEF HandlerReturns
  <2> QED BY <1>7, <2>1 DEF HandlerReturns
<1>8. CASE HandlerThrows(c)
  <2>1. StepOK(AfterThrow(k, g), k, g)
    BY <1>1, <1>8, AfterThrowOK DEF HandlerThrows
  <2> QED BY <1>8, <2>1 DEF HandlerThrows
<1> QED BY <1>3, <1>4, <1>5, <1>6, <1>7, <1>8 DEF Step

(* A script begins on the current generation.                                  *)
LEMMA StartKeepsInv ==
  ASSUME AnnInv, NEW c \in Clients, NEW script, StartScript(c, script) PROVE AnnInv'
<1> DEFINE i == Len(generations)
           g == generations[i]
           k == [Idle EXCEPT !.work = script, !.gen = i]
           pair == Begins(k, g)
<1>1. /\ GenerationsOK /\ now \in 0 .. MaxNow /\ i \in Nat /\ i \in 1 .. i
      /\ clients = [d \in Clients |-> clients[d]] /\ \A d \in Clients : Placed(d)
  BY DEF AnnInv, GenerationsOK
<1>2. GenerationOK(g)
  BY <1>1 DEF GenerationsOK, Made
<1>3. IsClient(k) /\ History(k) /\ k.sent = {} /\ k.at \in Nat /\ k.gen = i
  BY DEF IsClient, Fields, Idle, History
<1>4. /\ clients' = [clients EXCEPT ![c] = pair[1]] /\ generations' = [generations EXCEPT ![i] = pair[2]]
      /\ input' = input /\ now' = now /\ options' = options
  BY DEF StartScript
<1> HIDE DEF k
<1>5. /\ StepOK(pair, k, g) /\ pair[2].failures = g.failures /\ ColdIsOpen(pair[1], g)
  BY <1>2, <1>3, BeginsOK
<1> HIDE DEF pair
<1>6. /\ ClientOK(pair[1], g.candidates) /\ Rerouted(g, pair[2])
      /\ pair[1].gen = i \/ pair[1] = Idle
  BY <1>3, <1>5 DEF StepOK
<1>7. /\ GenerationsOK' /\ Len(generations') = i
      /\ \A j \in 1 .. i : generations'[j].candidates = generations[j].candidates
  <2> DEFINE h == pair[2]
  <2>1. generations' = [generations EXCEPT ![i] = h] /\ Rerouted(generations[i], h)
    BY <1>4, <1>6
  <2> HIDE DEF h
  <2> QED BY <1>1, <1>4, <2>1, GenerationStays
<1>8. \A j \in 1 .. i : generations'[j].failures = generations[j].failures
  <2>1. DOMAIN generations = 1 .. i
    BY <1>1 DEF GenerationsOK
  <2> QED BY <1>4, <1>5, <2>1
<1>9. ASSUME NEW d \in Clients PROVE Placed(d)'
  <2>1. CASE d # c /\ clients[d].gen # 0
    <3>1. clients'[d] = clients[d] /\ clients[d].gen \in 1 .. i
      BY <1>1, <1>4, <2>1 DEF Placed
    <3>2. ClientOK(clients'[d], generations'[clients'[d].gen].candidates)
      BY <1>1, <1>7, <3>1 DEF Placed
    <3>3. ClientOK(clients[d], generations[clients[d].gen].candidates)'
      BY <1>4, <3>2, ClientKept
    <3>4. ColdIsOpen(clients[d], generations[clients[d].gen])'
      BY <1>1, <1>4, <1>8, <3>1 DEF ColdIsOpen, Placed
    <3> QED BY <1>7, <2>1, <3>1, <3>3, <3>4 DEF Placed
  <2>2. CASE d # c /\ clients[d].gen = 0
    <3>1. clients'[d] = clients[d] /\ Placed(d)
      BY <1>1, <1>4, <2>2
    <3>2. Quiet(clients[d]) /\ IsClient(clients[d]) /\ History(clients[d])
      BY <2>2, <3>1 DEF Placed, ClientOK, Live, Waits
    <3>3. ClientOK(clients'[d], generations'[clients'[d].gen].candidates)
      BY <3>1, <3>2 DEF ClientOK
    <3>4. ClientOK(clients[d], generations[clients[d].gen].candidates)'
      BY <1>4, <3>3, ClientKept
    <3>5. ColdIsOpen(clients[d], generations[clients[d].gen])'
      BY <3>1, <3>2 DEF ColdIsOpen, Quiet
    <3>6. clients'[d].gen \in 0 .. Len(generations')
      BY <1>1, <1>7, <2>2, <3>1
    <3> QED BY <2>2, <3>1, <3>4, <3>5, <3>6 DEF Placed
  <2>3. CASE d = c
    <3>1. clients'[d] = pair[1]
      BY <1>1, <1>4, <2>3
    <3>2. CASE pair[1] = Idle
      <4>1. ClientOK(clients'[d], generations'[clients'[d].gen].candidates)
        BY <3>1, <3>2, IdleOK
      <4>2. ClientOK(clients[d], generations[clients[d].gen].candidates)'
        BY <1>4, <4>1, ClientKept
      <4>3. ColdIsOpen(clients[d], generations[clients[d].gen])'
        BY <3>1, <3>2, IdleOK DEF ColdIsOpen
      <4>4. clients'[d].gen \in 0 .. Len(generations') /\ clients'[d].wait = "idle"
        BY <1>1, <1>7, <3>1, <3>2, IdleOK
      <4> QED BY <4>2, <4>3, <4>4 DEF Placed
    <3>3. CASE pair[1].gen = i
      <4>1. ClientOK(clients'[d], generations'[clients'[d].gen].candidates)
        BY <1>1, <1>6, <1>7, <3>1, <3>3
      <4>2. ClientOK(clients[d], generations[clients[d].gen].candidates)'
        BY <1>4, <4>1, ClientKept
      <4>3. ColdIsOpen(clients[d], generations[clients[d].gen])'
        BY <1>1, <1>4, <1>5, <1>8, <3>1, <3>3 DEF ColdIsOpen
      <4>4. clients'[d].gen \in 0 .. Len(generations') /\ clients'[d].gen # 0
        BY <1>1, <1>7, <3>1, <3>3
      <4> QED BY <4>2, <4>3, <4>4 DEF Placed
    <3> QED BY <1>6, <3>2, <3>3
  <2> QED BY <2>1, <2>2, <2>3
<1>10. clients' = [d \in Clients |-> clients'[d]]
  BY <1>1, <1>4
<1> QED BY <1>1, <1>4, <1>7, <1>9, <1>10 DEF AnnInv

(* A new generation is what its input admits; clients stay on the old ones.    *)
LEMMA ReconfigureKeepsInv ==
  ASSUME AnnInv, NEW asked \in Inputs \cup {FirstInput}, ValidInput(asked),
         Reconfigures(Validated(asked), asked), UNCHANGED <<now, options, clients>>
  PROVE  AnnInv'
<1> DEFINE g == Generation(Validated(asked))
           n == Len(generations)
<1>1. /\ generations \in Seq(Generations) /\ input \in Seq(Inputs \cup {FirstInput}) /\ n \in Nat /\ Len(input) = n
      /\ n >= 1 /\ \A i \in 1 .. n : Made(generations[i], input[i])
  BY DEF AnnInv, GenerationsOK
<1>2. generations' = Append(generations, g) /\ input' = Append(input, asked)
  BY DEF Reconfigures
<1>3. Validated(asked) \in {Validated(i) : i \in {j \in Inputs : ValidInput(j)} \cup {FirstInput}}
  OBVIOUS
<1>4. GenerationOK(g) /\ Made(g, asked)
  <2>1. /\ RouteOK(g.candidates) /\ g.config = Validated(asked) /\ g.active = None
        /\ g.failures \in [Names -> Failures]
        /\ g = [config |-> Validated(asked), candidates |-> g.candidates, active |-> None, failures |-> g.failures]
        /\ \A m \in Routes(g.candidates) : \E i \in DOMAIN Candidates :
             Candidates[i].name = m /\ Admissible(Candidates[i], Validated(asked))
    BY GenerationFits
  <2> HIDE DEF g
  <2>2. g.candidates \in Seq(Names)
    BY <2>1 DEF RouteOK
  <2>3. g \in Generations
    BY <1>3, <2>1, <2>2 DEF Generations
  <2> QED BY <2>1, <2>3 DEF GenerationOK, Made
<1> HIDE DEF g
<1>5. /\ generations' \in Seq(Generations) /\ Len(generations') = n + 1
      /\ input' \in Seq(Inputs \cup {FirstInput}) /\ Len(input') = n + 1
  BY <1>1, <1>2, <1>4 DEF GenerationOK
<1>6. /\ generations'[n + 1] = g /\ input'[n + 1] = asked
      /\ \A i \in 1 .. n : generations'[i] = generations[i] /\ input'[i] = input[i]
  BY <1>1, <1>2
<1>7. GenerationsOK'
  <2>1. \A i \in 1 .. n + 1 : Made(generations'[i], input'[i])
    BY <1>1, <1>4, <1>6
  <2> QED BY <1>1, <1>5, <2>1 DEF GenerationsOK
<1>8. ASSUME NEW d \in Clients PROVE Placed(d)'
  <2>1. Placed(d) /\ clients'[d] = clients[d] /\ options' = options /\ now' = now
    BY DEF AnnInv
  <2>2. CASE clients[d].gen = 0
    <3>1. Quiet(clients[d]) /\ IsClient(clients[d]) /\ History(clients[d])
      BY <2>1, <2>2 DEF Placed, ClientOK, Live, Waits
    <3>2. ClientOK(clients'[d], generations'[clients'[d].gen].candidates)
      BY <2>1, <3>1 DEF ClientOK
    <3>3. ClientOK(clients[d], generations[clients[d].gen].candidates)'
      BY <2>1, <3>2, ClientKept
    <3>4. ColdIsOpen(clients[d], generations[clients[d].gen])'
      BY <2>1, <3>1 DEF ColdIsOpen, Quiet
    <3> QED BY <1>1, <1>5, <2>1, <2>2, <3>3, <3>4 DEF Placed
  <2>3. CASE clients[d].gen # 0
    <3>1. clients[d].gen \in 1 .. n /\ generations'[clients[d].gen] = generations[clients[d].gen]
      BY <1>1, <1>6, <2>1, <2>3 DEF Placed
    <3>2. ClientOK(clients'[d], generations'[clients'[d].gen].candidates)
      BY <2>1, <3>1 DEF Placed
    <3>3. ClientOK(clients[d], generations[clients[d].gen].candidates)'
      BY <2>1, <3>2, ClientKept
    <3>4. ColdIsOpen(clients[d], generations[clients[d].gen])'
      BY <2>1, <3>1 DEF ColdIsOpen, Placed
    <3> QED BY <1>1, <1>5, <2>1, <2>3, <3>1, <3>3, <3>4 DEF Placed
  <2> QED BY <2>2, <2>3
<1>9. now' \in 0 .. MaxNow /\ clients' = [d \in Clients |-> clients'[d]]
  BY DEF AnnInv
<1> QED BY <1>7, <1>8, <1>9 DEF AnnInv

(* Nothing moves.                                                              *)
LEMMA StaysInv ==
  ASSUME AnnInv, UNCHANGED <<now, options, clients, generations, input>> PROVE AnnInv'
<1>1. ASSUME NEW d \in Clients PROVE Placed(d)'
  <2>1. Placed(d) /\ clients'[d] = clients[d] /\ options' = options /\ now' = now /\ generations' = generations
    BY DEF AnnInv
  <2>2. ClientOK(clients'[d], generations'[clients'[d].gen].candidates)
    BY <2>1 DEF Placed
  <2>3. ClientOK(clients[d], generations[clients[d].gen].candidates)'
    BY <2>1, <2>2, ClientKept
  <2> QED BY <2>1, <2>3 DEF Placed, ColdIsOpen
<1> QED BY <1>1 DEF AnnInv, GenerationsOK

(* Time passes: circuits cool, for everyone.                                   *)
LEMMA TickKeepsInv == AnnInv /\ Tick => AnnInv'
<1> SUFFICES ASSUME AnnInv, Tick PROVE AnnInv'
  OBVIOUS
<1>1. /\ now' \in 0 .. MaxNow /\ generations' = generations /\ input' = input /\ options' = options
      /\ clients' = Warmed(clients, generations', now')
  BY AnnAssumption DEF Tick, AnnInv
<1>2. GenerationsOK'
  BY <1>1 DEF AnnInv, GenerationsOK
<1>3. ASSUME NEW d \in Clients PROVE Placed(d)'
  <2> DEFINE k == clients[d]
             C == {n \in k.cold : generations'[k.gen].failures[n].until > now'}
  <2>1. /\ k.gen \in 0 .. Len(generations')
        /\ k.gen = 0 => k.wait = "idle"
        /\ ClientOK(k, generations'[k.gen].candidates)
    BY <1>1 DEF AnnInv, Placed
  <2>2. clients'[d] = Cooled(k, C)
    BY <1>1 DEF Warmed, Cooled
  <2>3. C \subseteq k.cold /\ \A n \in C : generations'[k.gen].failures[n].until > now'
    OBVIOUS
  <2> HIDE DEF C, k
  <2> QED BY <1>1, <2>1, <2>2, <2>3, CooledPlaced
<1>4. clients' = [d \in Clients |-> clients'[d]]
  BY <1>1 DEF Warmed
<1> QED BY <1>1, <1>2, <1>3, <1>4 DEF AnnInv

(* The manager is created with a generation that admits somebody.              *)
LEMMA InitInv == Init => AnnInv
<1> SUFFICES ASSUME Init PROVE AnnInv
  OBVIOUS
<1> DEFINE g == Generation(Validated(FirstInput))
<1>1. /\ now = 0 /\ generations = <<g>> /\ input = <<FirstInput>> /\ clients = [c \in Clients |-> Idle]
  BY DEF Init
<1>2. GenerationOK(g) /\ Made(g, FirstInput)
  <2>1. /\ RouteOK(g.candidates) /\ g.config = Validated(FirstInput) /\ g.active = None
        /\ g.failures \in [Names -> Failures]
        /\ g = [config |-> Validated(FirstInput), candidates |-> g.candidates, active |-> None, failures |-> g.failures]
        /\ \A m \in Routes(g.candidates) : \E i \in DOMAIN Candidates :
             Candidates[i].name = m /\ Admissible(Candidates[i], Validated(FirstInput))
    BY GenerationFits
  <2> HIDE DEF g
  <2>2. g.candidates \in Seq(Names)
    BY <2>1 DEF RouteOK
  <2>3. Validated(FirstInput) \in {Validated(i) : i \in {j \in Inputs : ValidInput(j)} \cup {FirstInput}}
    OBVIOUS
  <2>4. g \in Generations
    BY <2>1, <2>2, <2>3 DEF Generations
  <2> QED BY <2>1, <2>4, AnnAssumption DEF GenerationOK, Made
<1> HIDE DEF g
<1>3. GenerationsOK
  <2>1. <<g>> \in Seq(Generations) /\ Len(<<g>>) = 1 /\ <<g>>[1] = g
    BY <1>2 DEF GenerationOK
  <2>2. <<FirstInput>> \in Seq(Inputs \cup {FirstInput}) /\ Len(<<FirstInput>>) = 1 /\ <<FirstInput>>[1] = FirstInput
    OBVIOUS
  <2> QED BY <1>1, <1>2, <2>1, <2>2 DEF GenerationsOK
<1>4. \A c \in Clients : Placed(c)
  <2>1. Len(generations) \in Nat
    BY <1>1
  <2> QED BY <1>1, <2>1, IdleOK DEF Placed, ColdIsOpen
<1>5. 0 \in 0 .. MaxNow
  BY AnnAssumption
<1> QED BY <1>1, <1>3, <1>4, <1>5 DEF AnnInv

-----------------------------------------------------------------------------
(* Every client is in order on the generation it began on, and every generation *)
(* is what its input admits, whatever fails, retries, throws or is reconfigured *)
(* meanwhile (orchestrator.ts, config-manager.ts).                              *)
THEOREM AnnInvariant == Spec => []AnnInv
<1>1. ASSUME AnnInv, [Next]_vars PROVE AnnInv'
  <2>1. CASE \E c \in Clients : Step(c)
    BY <1>1, <2>1, StepKeepsInv
  <2>2. CASE \E c \in Clients, script \in Scripts : StartScript(c, script)
    BY <1>1, <2>2, StartKeepsInv
  <2>3. ASSUME NEW asked \in Inputs, ApplyConfig(asked) PROVE AnnInv'
    <3>1. CASE UNCHANGED <<generations, input>>
      BY <1>1, <2>3, <3>1, StaysInv DEF ApplyConfig
    <3>2. CASE ValidInput(asked) /\ Reconfigures(Validated(asked), asked)
      BY <1>1, <2>3, <3>2, ReconfigureKeepsInv DEF ApplyConfig
    <3> QED BY <2>3, <3>1, <3>2 DEF ApplyConfig, NothingReconfigured
  <2>4. ASSUME NEW i \in 1 .. MaxGenerations, RestoreSnapshot(i) PROVE AnnInv'
    <3>1. CASE UNCHANGED <<generations, input>>
      BY <1>1, <2>4, <3>1, StaysInv DEF RestoreSnapshot
    <3>2. CASE Reconfigures(generations[i].config, input[i])
      <4>1. Made(generations[i], input[i])
        BY <1>1, <2>4 DEF AnnInv, GenerationsOK, RestoreSnapshot
      <4>2. /\ generations[i].config = Validated(input[i])
            /\ input[i] \in Inputs \cup {FirstInput} /\ ValidInput(input[i])
        BY <4>1 DEF Made
      <4> QED BY <1>1, <2>4, <3>2, <4>2, ReconfigureKeepsInv DEF RestoreSnapshot
    <3> QED BY <2>4, <3>1, <3>2 DEF RestoreSnapshot, NothingReconfigured
  <2>5. CASE Tick
    BY <1>1, <2>5, TickKeepsInv
  <2>6. CASE UNCHANGED vars
    BY <1>1, <2>6, StaysInv DEF vars
  <2> QED BY <1>1, <2>1, <2>2, <2>3, <2>4, <2>5, <2>6 DEF Next
<1> QED BY <1>1, InitInv, PTL DEF Spec

(* Type correctness.                                                           *)
THEOREM AnnTypeCorrect == Spec => []TypeOK
<1>1. AnnInv => TypeOK
  BY DEF AnnInv, GenerationsOK, Placed, TypeOK, Generations, Failures
<1> QED BY <1>1, AnnInvariant, PTL

(* An operation is never sent to a provider whose circuit has been open ever   *)
(* since it began: selectProvider and the fallback loop skip those, and the    *)
(* provider in hand is one whose circuit was closed when it was taken.         *)
THEOREM AnnCircuitRespected == Spec => []CircuitRespected
<1>1. AnnInv => CircuitRespected
  BY DEF AnnInv, Placed, ClientOK, History, CircuitRespected
<1> QED BY <1>1, AnnInvariant, PTL

(* withFallbackExecution answers with the provider that carried the operation  *)
(* out, though a clearFailure and its handler run in between.                  *)
THEOREM AnnAnswersNameTheServer == Spec => []AnswersNameTheServer
<1>1. AnnInv => AnswersNameTheServer
  BY DEF AnnInv, Placed, ClientOK, History, AnswersNameTheServer
<1> QED BY <1>1, AnnInvariant, PTL

(* Without retries for writes no write goes to one provider twice: the fallback*)
(* skips the primary, goes forward only, and candidates are distinct.          *)
THEOREM AnnWritesSentOnce == Spec => []WritesSentOnce
<1>1. AnnInv => WritesSentOnce
  BY DEF AnnInv, Placed, ClientOK, History, WritesSentOnce
<1> QED BY <1>1, AnnInvariant, PTL

(* An operation reaches only providers its configuration allows, although the  *)
(* manager may have replaced that configuration since.                         *)
THEOREM AnnWithinDeployment == Spec => []WithinDeployment
<1>1. ASSUME AnnInv, NEW c \in Clients, NEW n \in clients[c].sent
      PROVE  LET asked == input[clients[c].gen]
                 capabilities == CapabilitiesOf(n)
             IN  /\ Asks(asked, "requireDurableWrites", TRUE) => capabilities.persistence = "durable"
                 /\ Asks(asked, "allowEphemeralFallback", FALSE) => capabilities.persistence # "none"
                 /\ asked.requirement.features \subseteq capabilities.features
  <2> DEFINE k == clients[c]
             g == generations[k.gen]
             asked == input[k.gen]
  <2>1. Placed(c) /\ ClientOK(k, g.candidates)
    BY <1>1 DEF AnnInv, Placed
  <2>2. Live(k, g.candidates)
    BY <1>1, <2>1 DEF ClientOK, Quiet
  <2>3. n \in Routes(g.candidates) /\ k.wait # "idle"
    BY <1>1, <2>2 DEF Live, Waits
  <2>4. Made(g, asked)
    BY <1>1, <2>3, Running
  <2>5. PICK i \in DOMAIN Candidates : Candidates[i].name = n /\ Admissible(Candidates[i], g.config)
    BY <2>3, <2>4 DEF Made
  <2>6. ValidInput(asked) /\ Admissible(Candidates[i], Validated(asked))
    BY <2>4, <2>5 DEF Made
  <2>7. CapabilitiesOf(n) = Candidates[i].capabilities
    <3>1. \A j \in DOMAIN Candidates : Candidates[j].name = n <=> j = i
      BY <2>5, CandidatesAssumption
    <3>2. (CHOOSE j \in DOMAIN Candidates : Candidates[j].name = n) = i
      BY <3>1
    <3> QED BY <3>2 DEF CapabilitiesOf
  <2> HIDE DEF asked, k, g
  <2>8. LET capabilities == Candidates[i].capabilities IN
        /\ Asks(asked, "requireDurableWrites", TRUE) => capabilities.persistence = "durable"
        /\ Asks(asked, "allowEphemeralFallback", FALSE) => capabilities.persistence # "none"
        /\ asked.requirement.features \subseteq capabilities.features
    BY <2>6, AdmissibleMeets
  <2> QED BY <2>7, <2>8 DEF asked, k
<1>2. AnnInv => WithinDeployment
  BY <1>1 DEF WithinDeployment
<1> QED BY <1>2, AnnInvariant, PTL
=============================================================================
