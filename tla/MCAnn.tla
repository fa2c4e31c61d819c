------------------------------- MODULE MCAnn -------------------------------
(* Three providers, one of each persistence, the durable one first. The server *)
(* profile admits it alone, an override lets the forgetful one in, the hybrid  *)
(* profile with a required capability admits the local and the forgetful one.  *)
EXTENDS AnnOrchestrator, TLC

CONSTANTS c1, c2, durable, local, memory

MCClients == {c1, c2}
Symmetry == Permutations(MCClients)

MCCandidates ==
  <<[name |-> local, priority |-> 1, capabilities |-> [persistence |-> "local", features |-> {"snapshots"}]],
    [name |-> durable, priority |-> 2, capabilities |-> [persistence |-> "durable", features |-> {}]],
    [name |-> memory, priority |-> 1, capabilities |-> [persistence |-> "none", features |-> {"snapshots"}]]>>

Asked(profile, features, overrides) ==
  [profile |-> profile, requirement |-> [persistence |-> "none", features |-> features],
   deployment |-> overrides]

MCFirstInput ==
  Asked("server", {}, [requireDurableWrites |-> FALSE, allowEphemeralFallback |-> TRUE])

MCInputs ==
  {Asked("edge", {"snapshots"}, [allowEphemeralFallback |-> FALSE]),
   Asked("edge", {"transactions"}, <<>>),
   Asked("browser", {}, [requireDurableWrites |-> TRUE]),
   Asked("unknown", {}, <<>>)}

MCScripts == {<<"upsert">>, <<"upsert", "search">>}

MCOptionSets ==
  {[failOpen |-> TRUE, healthCheckOnInit |-> TRUE, retryWrites |-> FALSE, handlerThrows |-> TRUE],
   [failOpen |-> TRUE, healthCheckOnInit |-> FALSE, retryWrites |-> TRUE, handlerThrows |-> FALSE],
   [failOpen |-> FALSE, healthCheckOnInit |-> FALSE, retryWrites |-> FALSE, handlerThrows |-> TRUE]}

MCQueryAttempts == [n \in Names |-> IF n = durable THEN 2 ELSE 1]
=============================================================================
