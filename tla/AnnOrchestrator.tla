--------------------------- MODULE AnnOrchestrator ---------------------------
(* The nearest-neighbour provider orchestration of src/src/ann: a config       *)
(* manager reconfigures an adaptive orchestrator, each configuration being a   *)
(* generation with candidates, an active provider and circuit breakers of its  *)
(* own; clients run upserts, deletes, searches and snapshot restores (several  *)
(* upserts, one after the other) on the generation that was current when they  *)
(* began. Each operation selects a provider, retries, and fails over.          *)
(*                                                                             *)
(* A client is always suspended at one await; what runs between two awaits is  *)
(* one step. Its "wait" says which:                                            *)
(*   probe      a health check, answered, failed or timed out                  *)
(*   operation  the provider's own call                                        *)
(*   cleared    clearFailure had nothing to clear                              *)
(*   recovered, selected, failure, retry   the event handler of that event     *)
(*              (and, for a retry, the sleep)                                  *)
(* and its "stage" where: select (selectProvider), primary, fallback.          *)
EXTENDS AnnRouting, FiniteSetsExt

CONSTANTS
  Clients,
  Candidates,        \* the sequence of candidates the orchestrator is made with
  Inputs,            \* configurations the manager is asked to apply
  FirstInput,        \* the one it is created with
  Scripts,           \* sequences of operations, a restore being several upserts
  OptionSets,        \* sets of [failOpen, healthCheckOnInit, retryWrites, handlerThrows]
  Threshold,         \* circuitBreakerThreshold
  Cooldown,          \* failureCooldownMs
  Attempts,          \* retryPolicy.attempts
  QueryAttempts,     \* [name -> attempts]: a pgvector provider retries each query itself
  None,
  MaxNow, MaxGenerations, MaxScripts, MaxFaults    \* bounds on the clock, reconfigurations, scripts and faults

Names == {Candidates[i].name : i \in DOMAIN Candidates}
Writes == {"upsert", "delete"}

ASSUME AnnAssumption ==
  /\ Threshold \in Nat \ {0} /\ Attempts \in Nat \ {0} /\ Cooldown \in Nat
  /\ QueryAttempts \in [Names -> Nat \ {0}]
  /\ ValidInput(FirstInput)
  /\ \E i \in DOMAIN Candidates : Admissible(Candidates[i], Validated(FirstInput))
  /\ MaxNow \in Nat

\* The orchestrator keys circuits, the active provider and the one to fail over
\* from by name, so a name stands for one provider.
ASSUME CandidatesAssumption ==
  /\ Candidates \in Seq({Candidates[i] : i \in DOMAIN Candidates})
  /\ \A i \in DOMAIN Candidates : Candidates[i].priority \in Int
  /\ \A i, j \in DOMAIN Candidates : Candidates[i].name = Candidates[j].name => i = j

VARIABLES
  now,
  options,
  snapshot,      \* the config manager's
  generations,   \* a sequence of [config, candidates, active, failures]; the last is current
  clients,
  input,         \* history: the input the manager last took, per generation
  scripts,       \* scripts started
  faults         \* health checks, operations and handlers that failed

vars == <<now, options, snapshot, generations, clients, input, scripts, faults>>

CapabilitiesOf(name) ==
  LET i == CHOOSE k \in DOMAIN Candidates : Candidates[k].name = name
  IN  Candidates[i].capabilities

Admits(config) == \E i \in DOMAIN Candidates : Admissible(Candidates[i], config)

Generation(config) ==
  LET order == Order(Candidates, config)
  IN  [config |-> config,
       candidates |-> [i \in DOMAIN order |-> order[i].name],
       active |-> None,
       failures |-> [n \in Names |-> [count |-> 0, until |-> 0]]]

\* sent and served are history: the providers the running operation was sent to,
\* and those that carried it out; "cold" those whose circuit has been open since
\* it began; "again" that a write was sent twice, "heat" that one was sent to a
\* cold provider. answer is the last operation's.
Idle == [work |-> <<>>, gen |-> 0, stage |-> "select", wait |-> "idle", at |-> 0,
         provider |-> None, primary |-> None, attempt |-> 1, query |-> 1,
         sent |-> {}, served |-> {}, cold |-> {}, again |-> FALSE, heat |-> FALSE,
         answer |-> [by |-> None, served |-> {None}]]

Init ==
  /\ now = 0
  /\ options \in OptionSets
  /\ snapshot = Validated(FirstInput)
  /\ generations = <<Generation(Validated(FirstInput))>>
  /\ clients = [c \in Clients |-> Idle]
  /\ input = <<FirstInput>>
  /\ scripts = 0
  /\ faults = 0

--------------------------------------------------------------------------------
(* The pieces of an operation that run without an await. Each takes a client   *)
(* and its generation and gives the pair they become.                          *)

Open(g, name) == g.failures[name].until > now

\* Mutant: the circuit is not looked at.
RemainingWithOpen(client, g) ==
  {i \in DOMAIN g.candidates :
     i > client.at /\ (client.stage = "fallback" => g.candidates[i] # client.primary)}

\* Mutant: a fallback may go back to the primary.
RemainingWithPrimary(client, g) ==
  {i \in DOMAIN g.candidates : i > client.at /\ ~Open(g, g.candidates[i])}

\* selectProvider's and the fallback's loop: the next candidate whose circuit is closed.
Remaining(client, g) ==
  {i \in DOMAIN g.candidates :
     /\ i > client.at
     /\ ~Open(g, g.candidates[i])
     /\ client.stage = "fallback" => g.candidates[i] # client.primary}

Finished(client) ==
  [Idle EXCEPT !.work = Tail(client.work), !.wait = "finished", !.gen = client.gen,
               !.again = client.again, !.heat = client.heat]

\* A restore stops at the first operation that rejects.
Rejected(client) == [Finished(client) EXCEPT !.work = <<>>]

\* Mutant: the answer names the primary.
ReturnedPrimary(client) ==
  [Finished(client) EXCEPT !.answer = [by |-> client.primary, served |-> client.served]]

Returned(client) ==
  [Finished(client) EXCEPT !.answer = [by |-> client.provider, served |-> client.served]]

Sends(client) ==
  [client EXCEPT !.wait = "operation", !.query = 1, !.sent = @ \cup {client.provider},
                 !.again = @ \/ (/\ Head(client.work) \in Writes
                                  /\ client.provider \in client.sent),
                 !.heat = @ \/ client.provider \in client.cold]

Runs(client, g) ==
  IF Head(client.work) = "selection"
  THEN <<Finished(client), g>>
  ELSE <<Sends([client EXCEPT !.attempt = 1]), g>>

TriesNext(client, g) ==
  IF Remaining(client, g) = {}
  THEN <<Rejected(client), g>>
  ELSE LET i == Min(Remaining(client, g))
           next == [client EXCEPT !.at = i, !.provider = g.candidates[i]]
       IN  IF client.stage = "select" /\ ~options.healthCheckOnInit
           THEN <<[next EXCEPT !.wait = "selected"], [g EXCEPT !.active = g.candidates[i]]>>
           ELSE <<[next EXCEPT !.wait = "probe"], g>>

RunsPrimary(client, g) ==
  Runs([client EXCEPT !.stage = "primary", !.primary = client.provider], g)

Selects(client, g) ==
  IF g.active # None /\ ~Open(g, g.active)
  THEN RunsPrimary([client EXCEPT !.provider = g.active], g)
  ELSE TriesNext([client EXCEPT !.stage = "select", !.at = 0], g)

\* The count is only compared with the threshold, so it stops there.
RecordsFailure(client, g) ==
  LET n == client.provider
      count == Min({g.failures[n].count + 1, Threshold})
      until == IF count >= Threshold THEN now + Cooldown ELSE 0
  IN  <<[client EXCEPT !.wait = "failure"],
        [g EXCEPT !.failures[n] = [count |-> count, until |-> until],
                  !.active = IF @ = n THEN None ELSE @]>>

ClearsFailure(client, g) ==
  LET n == client.provider
  IN  IF g.failures[n].count = 0
      THEN <<[client EXCEPT !.wait = "cleared"], g>>
      ELSE <<[client EXCEPT !.wait = "recovered"],
             [g EXCEPT !.failures[n] = [count |-> 0, until |-> 0]]>>

\* What follows clearFailure: the candidate becomes active, or the result is returned.
AfterClearing(client, g) ==
  CASE client.stage = "select" ->
         <<[client EXCEPT !.wait = "selected"], [g EXCEPT !.active = client.provider]>>
    [] client.stage = "fallback" -> Runs(client, [g EXCEPT !.active = client.provider])
    [] OTHER -> <<Returned(client), g>>

AfterFailure(client, g) ==
  CASE client.stage # "primary" -> TriesNext(client, g)
    [] client.stage = "primary" /\ options.failOpen ->
         TriesNext([client EXCEPT !.stage = "fallback", !.at = 0], g)
    [] OTHER -> <<Rejected(client), g>>

AfterEvent(client, g) ==
  CASE client.wait \in {"cleared", "recovered"} -> AfterClearing(client, g)
    [] client.wait = "selected" -> RunsPrimary(client, g)
    [] client.wait = "failure" -> AfterFailure(client, g)
    [] OTHER -> <<Sends([client EXCEPT !.attempt = @ + 1]), g>>

\* A handler that throws inside a try block makes the candidate fail, even one
\* that has just carried the operation out; elsewhere it rejects the operation.
AfterThrow(client, g) ==
  IF client.wait = "failure" \/ (client.wait = "selected" /\ ~options.healthCheckOnInit)
  THEN <<Rejected(client), g>>
  ELSE RecordsFailure(client, g)

\* The default isRetryable refuses writes, whatever retryWrites says; the option
\* stands for a policy that also has a predicate of its own.
MayRetry(client) ==
  /\ options.retryWrites \/ Head(client.work) \notin Writes
  /\ client.attempt < Attempts

--------------------------------------------------------------------------------
(* Clients                                                                     *)

\* History: a circuit that closed is no longer cold for the operations under way.
Warmed(all, gens, time) ==
  [c \in Clients |-> [all[c] EXCEPT !.cold =
     {n \in @ : gens[all[c].gen].failures[n].until > time}]]

Become(c, pair) ==
  LET gens == [generations EXCEPT ![clients[c].gen] = pair[2]]
  IN  /\ generations' = gens
      /\ clients' = Warmed([clients EXCEPT ![c] = pair[1]], gens, now)
  /\ UNCHANGED <<now, options, snapshot, input, scripts>>

Begins(client, g) ==
  Selects([client EXCEPT !.cold = {n \in Names : Open(g, n)}], g)

StartScript(c, script) ==
  /\ clients[c].wait = "idle" /\ scripts < MaxScripts
  /\ scripts' = scripts + 1
  /\ LET g == Len(generations)
         pair == Begins([Idle EXCEPT !.work = script, !.gen = g], generations[g])
     IN  /\ clients' = [clients EXCEPT ![c] = pair[1]]
         /\ generations' = [generations EXCEPT ![g] = pair[2]]
  /\ UNCHANGED <<now, options, snapshot, input, faults>>

Fault == faults < MaxFaults /\ faults' = faults + 1

\* The caller gets the answer of one operation; a restore goes on with the next.
Continue(c) ==
  /\ clients[c].wait = "finished"
  /\ Become(c, IF clients[c].work = <<>>
               THEN <<Idle, generations[clients[c].gen]>>
               ELSE Begins(clients[c], generations[clients[c].gen]))
  /\ UNCHANGED faults

ProbeAnswers(c) ==
  LET g == generations[clients[c].gen] IN
  /\ clients[c].wait = "probe"
  /\ \/ Become(c, ClearsFailure(clients[c], g)) /\ UNCHANGED faults    \* healthy
     \/ Become(c, TriesNext(clients[c], g)) /\ Fault                    \* answered false
     \/ Become(c, RecordsFailure(clients[c], g)) /\ Fault               \* threw, or timed out

OperationSucceeds(c) ==
  LET g == generations[clients[c].gen]
      n == clients[c].provider
      served == [clients[c] EXCEPT !.served = @ \cup {n}]
  IN
  /\ clients[c].wait = "operation"
  /\ Become(c, IF clients[c].stage = "primary" THEN ClearsFailure(served, g)
               ELSE <<Returned(served), g>>)
  /\ UNCHANGED faults

\* An operation fails: refused for good, or with an error worth a retry, in which
\* case a write may have been applied all the same (the connection broke after it).
OperationFails(c) ==
  LET g == generations[clients[c].gen]
      n == clients[c].provider
  IN
  /\ clients[c].wait = "operation"
  /\ Fault
  /\ \/ Become(c, RecordsFailure(clients[c], g))
     \/ \E done \in SUBSET {n} :
          LET client == [clients[c] EXCEPT !.served = @ \cup done]
          IN  Become(c, IF client.query < QueryAttempts[n]
                        THEN <<[client EXCEPT !.query = @ + 1], g>>
                        ELSE IF MayRetry(client)
                        THEN <<[client EXCEPT !.wait = "retry"], g>>
                        ELSE RecordsFailure(client, g))

HandlerReturns(c) ==
  /\ clients[c].wait \in {"cleared", "recovered", "selected", "failure", "retry"}
  /\ Become(c, AfterEvent(clients[c], generations[clients[c].gen]))
  /\ UNCHANGED faults

HandlerThrows(c) ==
  /\ options.handlerThrows
  /\ Fault
  /\ clients[c].wait \in {"recovered", "selected", "failure", "retry"}
  /\ Become(c, AfterThrow(clients[c], generations[clients[c].gen]))

--------------------------------------------------------------------------------
(* The config manager. Its handler may throw after the change: the caller then *)
(* sees a rejection, and the change stays.                                     *)

Reconfigures(config, asked) ==
  /\ Len(generations) < MaxGenerations
  /\ config # snapshot
  /\ Admits(config)
  /\ snapshot' = config
  /\ generations' = Append(generations, Generation(config))
  /\ input' = Append(input, asked)

\* Reconfiguring throws when no candidate is admitted: nothing has changed then.
NothingReconfigured(config) ==
  /\ config = snapshot \/ ~Admits(config)
  /\ UNCHANGED <<snapshot, generations, input>>

ApplyConfig(asked) ==
  /\ IF ValidInput(asked)
     THEN \/ Reconfigures(Validated(asked), asked)
          \/ NothingReconfigured(Validated(asked))
     ELSE UNCHANGED <<snapshot, generations, input>>
  /\ UNCHANGED <<now, options, clients, scripts, faults>>

\* A snapshot is one taken earlier; one whose fingerprint does not match is refused.
RestoreSnapshot(i) ==
  /\ i \in DOMAIN generations
  /\ \/ Reconfigures(generations[i].config, input[i])
     \/ NothingReconfigured(generations[i].config)
  /\ UNCHANGED <<now, options, clients, scripts, faults>>

Tick ==
  /\ now < MaxNow
  /\ now' = now + 1
  /\ clients' = Warmed(clients, generations, now + 1)
  /\ UNCHANGED <<options, snapshot, generations, input, scripts, faults>>

Step(c) ==
  \/ Continue(c)
  \/ ProbeAnswers(c)
  \/ OperationSucceeds(c)
  \/ OperationFails(c)
  \/ HandlerReturns(c)
  \/ HandlerThrows(c)

Next ==
  \/ \E c \in Clients : Step(c)
  \/ \E c \in Clients, script \in Scripts : StartScript(c, script)
  \/ \E asked \in Inputs : ApplyConfig(asked)
  \/ \E i \in 1..MaxGenerations : RestoreSnapshot(i)
  \/ Tick

Spec == Init /\ [][Next]_vars

--------------------------------------------------------------------------------
(* Properties                                                                  *)

TypeOK ==
  /\ now \in 0..MaxNow
  /\ generations \in Seq([config : {Validated(i) : i \in {j \in Inputs : ValidInput(j)} \cup {FirstInput}},
                        candidates : Seq(Names), active : Names \cup {None},
                        failures : [Names -> [count : Nat, until : Nat]]])
  /\ \A c \in Clients : clients[c].gen \in 0..Len(generations)

\* What an input asks of persistence, the field it sets itself before its profile's.
Asks(asked, field, value) ==
  IF field \in DOMAIN asked.deployment THEN asked.deployment[field] = value
  ELSE asked.profile = "server"

\* Whatever fails over to whatever, an operation reaches only providers that the
\* configuration its client began under allows: a durable one where durable
\* writes are demanded, none that forgets where forgetting is refused, and one
\* with every capability required.
WithinDeployment ==
  \A c \in Clients : \A n \in clients[c].sent :
    LET asked == input[clients[c].gen]
        capabilities == CapabilitiesOf(n)
    IN  /\ Asks(asked, "requireDurableWrites", TRUE) => capabilities.persistence = "durable"
        /\ Asks(asked, "allowEphemeralFallback", FALSE) => capabilities.persistence # "none"
        /\ asked.requirement.features \subseteq capabilities.features

\* An operation is never sent, first or in a fallback, to a provider whose
\* circuit has been open ever since the operation began.
CircuitRespected == \A c \in Clients : ~clients[c].heat

\* The provider an answer names carried the operation out itself.
AnswersNameTheServer ==
  \A c \in Clients : clients[c].answer.by \in clients[c].answer.served

\* Unless writes are retried, the orchestrator sends a write to one provider at
\* most once: neither a fallback nor a failing event handler brings it back.
WritesSentOnce == \A c \in Clients : clients[c].again => options.retryWrites

=============================================================================
