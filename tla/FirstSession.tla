------------------------------ MODULE FirstSession ------------------------------
(***************************************************************************)
(* One session of a subject without a history: the profile is read, the    *)
(* sources are asked by a pool of workers, the generated candidates are    *)
(* evaluated by another and given features by a third, and what is left is *)
(* scored, reranked, explained and served.  Sources, evaluator, resolvers  *)
(* and the engine are external: they answer in any order, or throw.        *)
(*                                                                         *)
(* A session that is aborted or fails shows nothing of what is still in    *)
(* flight: it ends there, and what comes later is not modelled.            *)
(***************************************************************************)
EXTENDS ColdStart

CONSTANTS Requests,           \* [sources, kinds, languages, excluded, limit, minScore,
                              \*  features, rerank, explain]: the options and the request
          Profiles,           \* what the engine may read
          Answers,            \* Answers[source name]: what that source may answer
          Features,           \* [own, entity, graph, embedding]: own, if of who was asked about
          Categories,         \* what the metadata resolver may say of a candidate
          SourceConcurrency, SessionConcurrency,
          MaxSessionFaults

CandidateFields ==
  {"id", "kind", "protocol", "provider", "native", "uri", "verification", "evidence",
   "availability", "observed", "name", "interests", "tags", "entities", "languages",
   "provenance", "sound"}

MayBeReported == UNION {Range(a.candidates) : a \in UNION {Answers[name] : name \in DOMAIN Answers}}

(* Ids are compared by their number: it stands for all of what a candidate is. *)
ASSUME SessionAssumption ==
  /\ SourceConcurrency \in Nat \ {0} /\ SessionConcurrency \in Nat \ {0} /\ MaxGenerated \in Nat
  /\ \A request \in Requests :
       /\ request.sources \in Seq(Range(request.sources))
       /\ \A source \in Range(request.sources) : source.name \in DOMAIN Answers
       /\ request.features \in BOOLEAN /\ request.rerank \in BOOLEAN
       /\ request.limit \in Nat
  /\ \A profile \in Profiles :
       /\ profile \in Seq(Range(profile))
       /\ \A e \in Range(profile) : e.score \in Int /\ e.confidence \in Int
  /\ \A name \in DOMAIN Answers : \A answer \in Answers[name] :
       answer.candidates \in Seq(Range(answer.candidates))
  /\ \A c \in MayBeReported :
       /\ DOMAIN c = CandidateFields
       /\ c.verification \in Verifications
       /\ c.observed \in Nat /\ c.uri \in Nat /\ c.native \in Nat
       /\ \A d \in MayBeReported : c.native = d.native => CandidateId(c) = CandidateId(d)

VARIABLES stage,              \* where the session is, with its request and profile
          pool,               \* the workers: [next, inflight] over 1 .. size
          results,            \* by index: what the workers of this stage have got
          generated,          \* the ranking of candidates
          judged,             \* the eligible ones, and how many evaluations failed
          scored,             \* [id, score] of those
          recommended,        \* what the caller was given
          answered,           \* history: by source, candidate and feature asked for
          sessionFaults

sessionVars ==
  <<stage, pool, results, generated, judged, scored, recommended, answered, sessionFaults>>

NoSession == [at |-> "idle", request |-> "none", profile |-> "none"]
NoJudgement == [eligible |-> {}, failures |-> 0]
NothingAnswered == [source |-> <<>>, verdict |-> <<>>, feature |-> <<>>, category |-> <<>>]

(* A pool of n jobs starts its first workers; a worker that is through with   *)
(* a job takes the next one.                                                *)
PoolOf(n, concurrency) ==
  LET first == IF n < concurrency THEN n ELSE concurrency
  IN  [size |-> n, next |-> first + 1, inflight |-> 1 .. first]

Advanced(p, i) ==
  IF p.next <= p.size
  THEN [p EXCEPT !.next = @ + 1, !.inflight = (@ \ {i}) \cup {p.next}]
  ELSE [p EXCEPT !.inflight = @ \ {i}]

\* Mutant of Recorded: results are appended as they come in.
Appended(list, i, result) == Put(list, Cardinality(DOMAIN list) + 1, result)

(* A result is stored at the index of its job, whenever it comes.             *)
Recorded(list, i, result) == Put(list, i, result)

JobSettled(i, result) ==
  /\ pool' = Advanced(pool, i)
  /\ results' = Recorded(results, i, result)

EnterStage(at, n, concurrency) ==
  /\ stage' = [stage EXCEPT !.at = at]
  /\ pool' = PoolOf(n, concurrency) /\ results' = <<>>

Reject == stage' = [stage EXCEPT !.at = "rejected"]

SessionInit ==
  /\ stage = NoSession /\ pool = PoolOf(0, 1) /\ results = <<>> /\ generated = <<>>
  /\ judged = NoJudgement /\ scored = {} /\ recommended = <<>>
  /\ answered = NothingAnswered /\ sessionFaults = 0

-----------------------------------------------------------------------------
StartSession(request) ==
  /\ stage.at = "idle"
  /\ stage' = [stage EXCEPT !.at = "profile", !.request = request]
  /\ UNCHANGED <<pool, results, generated, judged, scored, recommended, answered, sessionFaults>>

SessionSources == stage.request.sources

(* The profile is there: a source that is not a sound adapter, or given       *)
(* twice, and nobody is asked.                                              *)
ProfileRead(profile) ==
  /\ stage.at = "profile"
  /\ IF /\ \A s \in Range(SessionSources) : SourceSound(s)
        /\ IsInjective([i \in DOMAIN SessionSources |-> SessionSources[i].name])
     THEN /\ stage' = [stage EXCEPT !.at = "generating", !.profile = profile]
          /\ pool' = PoolOf(Len(SessionSources), SourceConcurrency)
     ELSE Reject /\ UNCHANGED pool
  /\ UNCHANGED <<results, generated, judged, scored, recommended, answered, sessionFaults>>

Asked(i) == SessionSources[i].kinds \cap stage.request.kinds

(* readSource: who has nothing of what is wanted is not asked; an answer that  *)
(* is not sound is a failure of that source.                                *)
SourceSkipped(i) ==
  /\ stage.at = "generating" /\ i \in pool.inflight /\ Asked(i) = {}
  /\ JobSettled(i, [candidates |-> <<>>, failed |-> FALSE])
  /\ UNCHANGED <<stage, generated, judged, scored, recommended, answered, sessionFaults>>

SourceAnswers(i, answer) ==
  /\ stage.at = "generating" /\ i \in pool.inflight /\ Asked(i) # {}
  /\ LET sound == AnswerSound(SessionSources[i], Asked(i), answer)
         outcome == [candidates |-> IF sound THEN answer.candidates ELSE <<>>, failed |-> ~sound]
     IN  /\ JobSettled(i, outcome)
         /\ answered' = [answered EXCEPT !.source = Put(@, SessionSources[i].name, outcome)]
  /\ UNCHANGED <<stage, generated, judged, scored, recommended, sessionFaults>>

SourceThrows(i) ==
  /\ stage.at = "generating" /\ i \in pool.inflight /\ Asked(i) # {}
  /\ sessionFaults < MaxSessionFaults /\ sessionFaults' = sessionFaults + 1
  /\ JobSettled(i, [candidates |-> <<>>, failed |-> TRUE])
  /\ UNCHANGED <<stage, generated, judged, scored, recommended, answered>>

(* The outcomes in the order of the sources, merged, matched and ranked.       *)
CollectCandidates ==
  /\ stage.at = "generating" /\ pool.inflight = {}
  /\ LET outcomes == [i \in 1 .. pool.size |-> results[i]]
     IN  IF Mergeable(outcomes)
         THEN /\ generated' = GeneratedFrom(outcomes, stage.profile, stage.request.languages)
              /\ EnterStage("evaluating", Len(generated'), SessionConcurrency)
         ELSE Reject /\ UNCHANGED <<generated, pool, results>>
  /\ UNCHANGED <<judged, scored, recommended, answered, sessionFaults>>

-----------------------------------------------------------------------------
\* Mutant of ResultIsOf: whoever the evaluator speaks of is believed.
ResultIsOfAnybody(verdict, candidate) == TRUE

(* An evaluation of another candidate than the one asked about is a failure.  *)
ResultIsOf(verdict, candidate) == verdict.id = candidate.id

(* The evaluator answers for a candidate, this one or another, as it was      *)
(* generated or as it is by now.                                            *)
EvaluatorAnswers(i, verdict) ==
  /\ stage.at = "evaluating" /\ i \in pool.inflight
  /\ IF ResultIsOf(verdict, generated[i])
     THEN JobSettled(i, verdict) /\ UNCHANGED judged
     ELSE /\ pool' = Advanced(pool, i) /\ UNCHANGED results
          /\ judged' = [judged EXCEPT !.failures = @ + 1]
  /\ LET asExpected == verdict.id = generated[i].id /\ verdict.same
     IN  sessionFaults' = sessionFaults + (IF asExpected THEN 0 ELSE 1)
  /\ sessionFaults' <= MaxSessionFaults
  /\ answered' = [answered EXCEPT !.verdict = Put(@, generated[i].id, verdict)]
  /\ UNCHANGED <<stage, generated, scored, recommended>>

EvaluatorThrows(i) ==
  /\ stage.at = "evaluating" /\ i \in pool.inflight
  /\ sessionFaults < MaxSessionFaults /\ sessionFaults' = sessionFaults + 1
  /\ pool' = Advanced(pool, i) /\ judged' = [judged EXCEPT !.failures = @ + 1]
  /\ UNCHANGED <<stage, results, generated, scored, recommended, answered>>

(* By candidate the last verdict there is, in the order of the candidates.     *)
VerdictsOn(c) == {i \in DOMAIN results : results[i].id = c.id}
VerdictOn(c) == results[Max(VerdictsOn(c))]

EligibleNow == {c \in Range(generated) : VerdictsOn(c) # {} /\ VerdictOn(c).eligible}

(* buildColdStartScoringInput: an eligible candidate that has changed since it *)
(* was generated ends the session.                                          *)
CollectVerdicts ==
  /\ stage.at = "evaluating" /\ pool.inflight = {}
  /\ IF \A c \in EligibleNow : VerdictOn(c).same
     THEN /\ judged' = [judged EXCEPT !.eligible = EligibleNow]
          /\ EnterStage("features", IF stage.request.features THEN Cardinality(EligibleNow) ELSE 0,
                        SessionConcurrency)
     ELSE Reject /\ UNCHANGED <<judged, pool, results>>
  /\ UNCHANGED <<generated, scored, recommended, answered, sessionFaults>>

Ordered ==
  SortedBy(judged.eligible, {p \in judged.eligible \X judged.eligible : p[1].native < p[2].native})

NoFeature == [entity |-> 0, graph |-> 0, embedding |-> 0]

FeatureResolved(i, feature) ==
  /\ stage.at = "features" /\ i \in pool.inflight
  /\ IF FeatureSound(feature)
     THEN JobSettled(i, feature) /\ UNCHANGED stage
     ELSE Reject /\ UNCHANGED <<pool, results>>
  /\ sessionFaults' = sessionFaults + (IF FeatureSound(feature) THEN 0 ELSE 1)
  /\ sessionFaults' <= MaxSessionFaults
  /\ answered' = [answered EXCEPT !.feature = Put(@, Ordered[i].id, feature)]
  /\ UNCHANGED <<generated, judged, scored, recommended>>

(* hybridScore of what is eligible; what the caller excludes goes no further.  *)
ScoreCandidates ==
  /\ stage.at = "features" /\ pool.inflight = {}
  /\ LET feature(i) == IF i \in DOMAIN results THEN results[i] ELSE NoFeature
     IN  scored' = {[id |-> Ordered[i].id,
                     score |-> HybridScore(Ordered[i], stage.profile, stage.request.languages,
                                           feature(i))]
                      : i \in {i \in DOMAIN Ordered : Ordered[i].id \notin stage.request.excluded}}
  /\ stage' = [stage EXCEPT !.at = IF stage.request.rerank THEN "reranking" ELSE "explaining"]
  /\ UNCHANGED <<pool, results, generated, judged, recommended, answered, sessionFaults>>

(* What is not said of a candidate counts for nothing; metadata about one      *)
(* that is not scored throws (SessionRejected).                             *)
MetadataResolved(metadata) ==
  /\ stage.at = "reranking"
  /\ scored' = Adjusted(scored, metadata)
  /\ stage' = [stage EXCEPT !.at = "explaining"]
  /\ answered' = [answered EXCEPT !.category = metadata]
  /\ UNCHANGED <<pool, results, generated, judged, recommended, sessionFaults>>

(* The caller gets the candidates as they were generated, in served order.     *)
CandidateOf(id) == CHOOSE c \in judged.eligible : c.id = id

Serve ==
  /\ stage.at = "explaining"
  /\ LET served == ServedList(scored, stage.request.excluded, stage.request.minScore,
                              stage.request.limit)
     IN  recommended' = [i \in DOMAIN served |-> CandidateOf(served[i].id)]
  /\ stage' = [stage EXCEPT !.at = "served"]
  /\ UNCHANGED <<pool, results, generated, judged, scored, answered, sessionFaults>>

(* The engine, a resolver or the caller's signal ends the session.            *)
SessionRejected ==
  /\ \/ stage.at \in {"profile", "reranking"}
     \/ stage.at = "features" /\ stage.request.features
     \/ stage.at = "explaining" /\ stage.request.explain
     \/ stage.at \in {"generating", "evaluating"}
  /\ sessionFaults < MaxSessionFaults /\ sessionFaults' = sessionFaults + 1
  /\ Reject
  /\ UNCHANGED <<pool, results, generated, judged, scored, recommended, answered>>

SessionNext ==
  \/ \E request \in Requests : StartSession(request)
  \/ \E profile \in Profiles : ProfileRead(profile)
  \/ \E i \in pool.inflight :
       \/ SourceSkipped(i) \/ SourceThrows(i) \/ EvaluatorThrows(i)
       \/ /\ stage.at = "generating"
          /\ \E answer \in Answers[SessionSources[i].name] : SourceAnswers(i, answer)
       \/ \E c \in Range(generated), same, eligible \in BOOLEAN :
            EvaluatorAnswers(i, [id |-> c.id, same |-> same, eligible |-> eligible])
       \/ \E feature \in Features : FeatureResolved(i, feature)
  \/ CollectCandidates \/ CollectVerdicts \/ ScoreCandidates \/ Serve \/ SessionRejected
  \/ \E metadata \in [{p.id : p \in scored} -> Categories] : MetadataResolved(metadata)

SessionSpec == SessionInit /\ [][SessionNext]_sessionVars

-----------------------------------------------------------------------------
(* Who is recommended was reported by a source that may vouch for it as it     *)
(* does, in a place that is still named, is not excluded, and was found       *)
(* eligible, unchanged, when the evaluator was asked about that very one:     *)
(* whatever it said of it when asked about another (evaluateCandidates,      *)
(* mergeProvenance, buildColdStartScoringInput).                            *)
ReportedBy(source, c) ==
  /\ source.name \in DOMAIN answered.source
  /\ \E d \in Range(answered.source[source.name].candidates) :
       d.id = c.id /\ d.verification = c.verification
  /\ c.verification \in AllowedVerifications(source.authority)

RecommendedIsVouched ==
  \A c \in Range(recommended) :
    /\ \E source \in Range(SessionSources) : ReportedBy(source, c)
    /\ IsVerified(c) => \E p \in Range(c.provenance) : TrustedPlace(p)
    /\ c.id \in DOMAIN answered.verdict
    /\ answered.verdict[c.id] = [id |-> c.id, same |-> TRUE, eligible |-> TRUE]
    /\ c.id \notin stage.request.excluded

(* What is served is what one worker, taking the sources and the candidates   *)
(* in their order, would have served of the same answers: who answers first  *)
(* in the three pools decides nothing (generate, evaluateCandidates,         *)
(* buildColdStartScoringInput).                                             *)
OutcomesInOrder ==
  [i \in DOMAIN SessionSources |->
     IF SessionSources[i].name \in DOMAIN answered.source
     THEN answered.source[SessionSources[i].name]
     ELSE [candidates |-> <<>>, failed |-> TRUE]]

ScoredInOrder ==
  LET request == stage.request
      featureOf(c) == IF c.id \in DOMAIN answered.feature THEN answered.feature[c.id] ELSE NoFeature
      found == {c \in Range(GeneratedFrom(OutcomesInOrder, stage.profile, request.languages)) :
                  /\ c.id \in DOMAIN answered.verdict \ request.excluded
                  /\ answered.verdict[c.id].id = c.id /\ answered.verdict[c.id].eligible}
      plain == {[id |-> c.id,
                 score |-> HybridScore(c, stage.profile, request.languages, featureOf(c))]
                  : c \in found}
  IN  IF request.rerank THEN Adjusted(plain, answered.category) ELSE plain

AsIfSequential ==
  stage.at = "served" =>
    LET merged == MergedCandidates(OutcomesInOrder)
        served == ServedList(ScoredInOrder, stage.request.excluded, stage.request.minScore,
                             stage.request.limit)
    IN  recommended = [i \in DOMAIN served |-> CHOOSE c \in merged : c.id = served[i].id]
=============================================================================
