---------------------------- MODULE LabelSemantics ----------------------------
(***************************************************************************)
(* From a label a labeler gave to what it does to a recommendation: the    *)
(* target its URI stands for, the evidence it is when the subject has      *)
(* subscribed to the labeler, the meaning the definitions give its value,  *)
(* and the effect the policies allow that meaning.                         *)
(***************************************************************************)
EXTENDS Integers, FiniteSets, SequencesExt

Collections == [profile |-> "profile", post |-> "post", generator |-> "feed", list |-> "list",
                starterpack |-> "starter_pack"]

(* inferRecommendationLabelTarget of a URI [scheme, collection, key, cid],   *)
(* "none" being an empty part.                                              *)
LabelTarget(uri) ==
  CASE uri.scheme = "did" \/ (uri.scheme = "at" /\ uri.collection = "none") ->
         [kind |-> "repository", record |-> "none"]
    [] uri.scheme = "at" /\ uri.collection # "none" /\ uri.key # "none" ->
         [kind |-> "record", record |-> IF uri.collection \in DOMAIN Collections
                                        THEN Collections[uri.collection] ELSE "custom"]
    [] uri.scheme \notin {"did", "at"} /\ uri.cid -> [kind |-> "blob", record |-> "none"]
    [] OTHER -> [kind |-> "unknown", record |-> "none"]

NoLabel == [target |-> "none", labeler |-> "none", value |-> "none", negated |-> FALSE, cts |-> 0, expires |-> 0]
Never == 1000   \* the expiry of a label without one

NoTime == -1    \* of an evaluation that is given no time

(* isRecommendationAtprotoLabelExpired                                      *)
Expired(label, now) == label.expires <= now

\* Mutant of Evaluate: a label taken back is evidence still.
EvaluateNegated(consent, subscription, label, now) ==
  CASE ~consent.allowed -> "consent_denied"
    [] consent.allowed /\ ~subscription.made -> "not_subscribed"
    [] consent.allowed /\ subscription.made /\ subscription.revoked -> "subscription_revoked"
    [] OTHER -> "accept"

(* evaluateRecommendationLabelerSignalPolicy: the first reason to ignore a   *)
(* label is the one given.  The time is optional: without one no label has    *)
(* expired.                                                                 *)
Evaluate(consent, subscription, label, now) ==
  IF ~consent.allowed THEN "consent_denied"
  ELSE IF ~subscription.made THEN "not_subscribed"
  ELSE IF subscription.revoked THEN "subscription_revoked"
  ELSE IF label.negated THEN "negated_label"
  ELSE IF label.labeler # subscription.labeler THEN "labeler_mismatch"
  ELSE IF now # NoTime /\ Expired(label, now) THEN "expired_label"
  ELSE "accept"

(* createRecommendationInterestSignalFromLabelerEvidence, of the consent the *)
(* evaluation was made under: a label used for something else is an error,   *)
(* which the derivation of a batch counts as a label ignored.               *)
SignalFromLabel(consent, use, subscription, label, now) ==
  Evaluate(consent, subscription, label, now) = "accept" /\ consent.use = use

-----------------------------------------------------------------------------
(* Definitions are [id, labeler, value, kind, targets, records]: what a       *)
(* labeler's value means, for some kinds of target or for all.              *)
Specificity(d) ==
  (IF d.targets # {} THEN 1 ELSE 0) + (IF d.records # {} THEN 1 ELSE 0)

DefinitionMatches(d, evidence) ==
  /\ d.labeler = evidence.labeler
  /\ d.value = evidence.value
  /\ d.targets # {} => evidence.target.kind \in d.targets
  /\ d.records # {} => evidence.target.record # "none" /\ evidence.target.record \in d.records

Unclassified == [decision |-> "unclassified", kind |-> "unknown"]
Classified(d) == [decision |-> "classified", kind |-> d.kind]
Throws == [decision |-> "throws", kind |-> "unknown"]

IdsUnique(list) == Cardinality({list[i].id : i \in DOMAIN list}) = Len(list)

(* The place that comes first.                                              *)
FirstOf(places) == CHOOSE i \in places : \A j \in places : i <= j

(* Where in the list the most specific definitions are that match.           *)
MostSpecific(definitions, evidence) ==
  LET matches == {i \in DOMAIN definitions : DefinitionMatches(definitions[i], evidence)}
  IN  {i \in matches : \A j \in matches : Specificity(definitions[j]) <= Specificity(definitions[i])}

\* Mutant of Select: of definitions that disagree the first is taken.
SelectFirst(definitions, evidence) ==
  LET top == MostSpecific(definitions, evidence)
  IN  IF top = {} THEN Unclassified ELSE Classified(definitions[FirstOf(top)])

(* selectDefinition: the first of them, but those that disagree with it are   *)
(* an error.                                                                *)
Select(definitions, evidence) ==
  LET top == MostSpecific(definitions, evidence)
      selected == definitions[FirstOf(top)]
  IN  IF top = {} THEN Unclassified
      ELSE IF \E i \in top : definitions[i].kind # selected.kind THEN Throws
      ELSE Classified(selected)

Classify(definitions, evidence) ==
  IF IdsUnique(definitions) THEN Select(definitions, evidence) ELSE Throws

-----------------------------------------------------------------------------
SemanticKinds == {"topic_interest", "moderation", "safety", "identity", "community",
                  "content_format", "game", "eligibility"}

(* ALLOWED_EFFECTS_BY_SEMANTIC_KIND and DEFAULT_EFFECT_BY_SEMANTIC_KIND       *)
AllowedEffects(kind) ==
  {"evidence_only"} \cup
  CASE kind = "topic_interest" -> {"positive_interest", "negative_interest"}
    [] kind = "moderation" -> {"moderation_constraint"}
    [] kind = "safety" -> {"safety_constraint"}
    [] kind \in {"identity", "community", "game"} -> {"contextual_affinity"}
    [] kind = "content_format" -> {"presentation_preference"}
    [] kind = "eligibility" -> {"eligibility_constraint"}

DefaultEffect(kind) ==
  CASE kind = "topic_interest" -> "positive_interest"
    [] kind = "moderation" -> "moderation_constraint"
    [] kind = "safety" -> "safety_constraint"
    [] kind = "eligibility" -> "eligibility_constraint"
    [] OTHER -> "evidence_only"

(* Policies are [id, kind, effect]: one for a kind at most.                 *)
PoliciesSound(policies) ==
  /\ IdsUnique(policies)
  /\ Cardinality({policies[i].kind : i \in DOMAIN policies}) = Len(policies)
  /\ \A i \in DOMAIN policies : policies[i].effect \in AllowedEffects(policies[i].kind)

(* evaluateRecommendationLabelEffectPolicy                                  *)
Effect(policies, classification) ==
  IF ~PoliciesSound(policies) \/ classification.decision = "throws" THEN "throws"
  ELSE IF classification.decision = "unclassified" THEN "not_applicable"
  ELSE LET explicit == {i \in DOMAIN policies : policies[i].kind = classification.kind}
       IN  IF explicit = {} THEN DefaultEffect(classification.kind)
           ELSE policies[FirstOf(explicit)].effect

LabelEffect(definitions, policies, evidence) == Effect(policies, Classify(definitions, evidence))

-----------------------------------------------------------------------------
(* The effect is that of the definitions and the policies however they are     *)
(* listed, and an interest only for what a topic is about.                  *)
EffectOrderFree(definitions, policies, evidence) ==
  LET effect == LabelEffect(definitions, policies, evidence)
  IN  /\ IdsUnique(definitions) /\ IdsUnique(policies) =>
           \A ds \in SetToSeqs(Range(definitions)), ps \in SetToSeqs(Range(policies)) :
             LabelEffect(ds, ps, evidence) = effect
      /\ effect \in {"positive_interest", "negative_interest"} =>
           Classify(definitions, evidence).kind = "topic_interest"
=============================================================================
