----------------------------- MODULE AnnRouting -----------------------------
(* Which ANN providers a deployment configuration admits, and in which order:  *)
(* ann/capabilities.ts, deployment-routing.ts, deployment-profiles.ts and      *)
(* deployment-config.ts. Operators only.                                       *)
(*                                                                             *)
(* A candidate is [name, priority, capabilities]; capabilities and             *)
(* requirements are [persistence, features], the six boolean capabilities      *)
(* being a set (a missing persistence is "none", which requires nothing). A    *)
(* deployment is a record with some of the fields of Defaults.                 *)
EXTENDS Integers, FiniteSets, Sequences

Profiles == {"browser", "server", "edge", "hybrid"}

Rank == [none |-> 0, local |-> 1, durable |-> 2]

Satisfies(capabilities, requirement) ==
  /\ Rank[capabilities.persistence] >= Rank[requirement.persistence]
  /\ requirement.features \subseteq capabilities.features

\* The fields of f, and those of g that f does not have.
Over(f, g) ==
  [x \in DOMAIN f \cup DOMAIN g |-> IF x \in DOMAIN f THEN f[x] ELSE g[x]]

Defaults == [environment |-> "hybrid", allowEphemeralFallback |-> TRUE,
             preferLocalFirst |-> FALSE, requireDurableWrites |-> FALSE]

ProfileDeployment ==
  [browser |-> [environment |-> "browser", preferLocalFirst |-> TRUE],
   server  |-> [environment |-> "server", requireDurableWrites |-> TRUE,
                allowEphemeralFallback |-> FALSE],
   edge    |-> [environment |-> "edge", allowEphemeralFallback |-> TRUE],
   hybrid  |-> [environment |-> "hybrid"]]

\* Mutant: a provider that forgets is let in although the configuration demands more.
EnvironmentAllowsEphemeral(capabilities, deployment) ==
  LET options == Over(deployment, Defaults)
      kept == capabilities.persistence
  IN  \/ options.allowEphemeralFallback /\ kept = "none"
      \/ ~options.requireDurableWrites \/ kept = "durable"

EnvironmentAllows(capabilities, deployment) ==
  LET options == Over(deployment, Defaults)
      kept == capabilities.persistence
  IN  /\ options.allowEphemeralFallback \/ kept # "none"
      /\ options.requireDurableWrites => kept = "durable"
      /\ options.environment = "browser" => kept # "durable"
      /\ options.environment = "server" => kept # "local"
      /\ options.environment = "edge" => kept # "durable"

Boost(capabilities, deployment) ==
  LET options == Over(deployment, Defaults)
      kept == capabilities.persistence
  IN  CASE \/ options.preferLocalFirst /\ kept = "local"
           \/ options.environment = "server" /\ kept = "durable"
           \/ options.environment = "browser" /\ kept = "local" -> 1000
        [] options.environment = "edge" /\ kept = "none" -> 500
        [] OTHER -> 0

\* Those at the given places, highest score first, ties in the order given;
\* scores[i] is that of candidates[i].
Sorted(candidates, places, scores) ==
  LET Ahead(i) == {j \in places : scores[j] > scores[i] \/ (scores[j] = scores[i] /\ j <= i)}
  IN  [k \in 1 .. Cardinality(places) |->
         candidates[CHOOSE i \in places : Cardinality(Ahead(i)) = k]]

Admissible(candidate, config) ==
  /\ EnvironmentAllows(candidate.capabilities, config.deployment)
  /\ Satisfies(candidate.capabilities, config.requirement)

Admitted(candidates, config) ==
  Sorted(candidates,
         {i \in DOMAIN candidates : Admissible(candidates[i], config)},
         [i \in DOMAIN candidates |->
            candidates[i].priority + Boost(candidates[i].capabilities, config.deployment)])

\* The order the orchestrator goes by: it sorts what it is given by priority
\* alone, so the boost of the deployment decides between equal priorities only.
Order(candidates, config) ==
  LET admitted == Admitted(candidates, config)
  IN  Sorted(admitted, DOMAIN admitted, [i \in DOMAIN admitted |-> admitted[i].priority])

\* Mutant: the profile's fields win over the input's own.
MergedProfileWins(input) == Over(ProfileDeployment[input.profile], input.deployment)

\* An input is [profile, requirement, deployment], the deployment holding the
\* fields the input sets itself. A malformed one has no known profile.
Merged(input) == Over(input.deployment, ProfileDeployment[input.profile])

ValidInput(input) ==
  /\ input.profile \in Profiles
  /\ ~(/\ Over(Merged(input), Defaults).requireDurableWrites
       /\ Over(Merged(input), Defaults).environment = "browser")

Validated(input) ==
  [profile |-> input.profile, requirement |-> input.requirement,
   deployment |-> Merged(input)]
=============================================================================
