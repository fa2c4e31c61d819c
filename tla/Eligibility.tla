------------------------------ MODULE Eligibility ------------------------------
(***************************************************************************)
(* evaluateRecommendationCandidateEligibility: may a candidate be          *)
(* recommended?  What its evidence lacks is looked at first; an account is *)
(* then followed to where it moved; then the policy of that account, the   *)
(* provider's policy and the safety of the viewer are asked in turn.       *)
(*                                                                         *)
(* Every question is awaited, and the accounts change meanwhile.  The      *)
(* resolver and the three policies are external; a policy speaks of the    *)
(* account it is given, as that account is when it is asked.               *)
(***************************************************************************)
EXTENDS Naturals, FiniteSets

CONSTANTS Candidates,  \* [id, kind, available, verification, lacks, members]
          Accounts,    \* those of the ids that are accounts
          Worlds,      \* id -> [movedTo, marks, activity], as it is at first
          Marks,       \* what may come to speak against somebody
          MaxMoves, MaxMembers,
          EvaluatedAt, Window,
          MaxWorldChanges, MaxEligibilityFaults

VARIABLES world,
          evaluation,  \* [pc, candidate, reference, visited, resolved]
          standing,    \* for every id, what spoke against it ever since the evaluation began
          verdict,     \* of the last evaluation: [candidate, subject, reasons]
          worldChanges, eligibilityFaults

eligibilityVars == <<world, evaluation, standing, verdict, worldChanges, eligibilityFaults>>

Nobody == "nobody"
NoActivity == 1000
NoVerdict == [candidate |-> Nobody, subject |-> Nobody, reasons |-> {"none"}]
Resting == [pc |-> "off", candidate |-> Nobody, reference |-> Nobody, visited |-> {}, resolved |-> Nobody]

-----------------------------------------------------------------------------
(* What the evidence of a kind of candidate must show; a candidate of the     *)
(* kind may lack any of it.                                                 *)
Demanded(kind) ==
  CASE kind = "account" -> {"identity_verification_required"}
    [] kind = "post" -> {"post_not_public", "post_unavailable", "post_identity_unbound"}
    [] kind = "feed" -> {"feed_unresolvable", "feed_unavailable"}
    [] kind = "list" -> {"list_unresolvable", "list_unavailable"}
    [] kind = "starter_pack" -> {"starter_pack_unresolvable", "starter_pack_stale", "starter_pack_unavailable"}
    [] kind = "labeler" -> {"labeler_identity_unverified", "labeler_unavailable", "labeler_policy_ineligible"}
    [] kind = "community" -> {"community_unresolved", "community_unavailable", "community_policy_ineligible"}
    [] kind = "hashtag" -> {"hashtag_not_public_topic", "hashtag_locally_filtered"}
    [] kind = "topic" -> {"topic_not_canonical", "topic_policy_unsafe"}
    [] kind = "instance" -> {"instance_unhealthy", "instance_registration_closed", "instance_policy_ineligible"}

RequiresAuthority(kind) == kind \in {"feed", "list", "starter_pack", "labeler"}

(* typeSpecificReasons                                                      *)
TypeReasons(c) ==
  (c.lacks \cap Demanded(c.kind))
  \cup (IF c.kind = "starter_pack" /\ c.members > MaxMembers
        THEN {"starter_pack_members_unbounded"} ELSE {})
  \cup (IF RequiresAuthority(c.kind) /\ c.verification \notin {"authority_verified", "canonical"}
        THEN {"identity_verification_required"} ELSE {})

CheapReasons(c) == TypeReasons(c) \cup (IF c.available THEN {} ELSE {"candidate_unavailable"})

(* Of an account that has not moved, the first reason not to recommend it.   *)
AccountReason(a) ==
  IF "deleted" \in a.marks THEN "account_deleted"
  ELSE IF "deactivated" \in a.marks THEN "account_deactivated"
  ELSE IF "suspended" \in a.marks THEN "account_suspended"
  ELSE IF a.activity > EvaluatedAt THEN "account_unresolved"
  ELSE IF EvaluatedAt - a.activity > Window THEN "account_inactive"
  ELSE "eligible"

Restrictions == {"not_discoverable", "noindex", "opted_out"}

(* All that speaks against somebody now.                                    *)
Against(a) ==
  a.marks \cup (IF a.movedTo # Nobody THEN {"moved"} ELSE {})
          \cup (IF a.activity > EvaluatedAt \/ EvaluatedAt - a.activity > Window
                THEN {"inactive"} ELSE {})

(* The marks: the resolver's of an account, those of the account's own policy, *)
(* the provider's and the viewer's.                                         *)
AccountMarks == {"unknown", "deleted", "deactivated", "suspended"}
PolicyMarks == {"refused", "blocked"}

(* Who is no account is somewhere, and only the last two policies speak of it; *)
(* an account moves to an account; an id is of one kind.                     *)
ASSUME WorldAssumption ==
  /\ Nobody \notin Accounts
  /\ Marks \subseteq AccountMarks \cup Restrictions \cup PolicyMarks
  /\ \A w \in Worlds :
       /\ w = [id \in DOMAIN w |-> [movedTo |-> w[id].movedTo, marks |-> w[id].marks,
                                    activity |-> w[id].activity]]
       /\ Accounts \subseteq DOMAIN w
       /\ \A id \in DOMAIN w :
            /\ w[id].marks \subseteq AccountMarks \cup Restrictions \cup PolicyMarks
            /\ w[id].movedTo \in Accounts \cup {Nobody}
            /\ id \notin Accounts => Against(w[id]) \subseteq PolicyMarks
       /\ \A c \in Candidates :
            CheapReasons(c) = {} => c.id \in DOMAIN w /\ (c.kind = "account" <=> c.id \in Accounts)

EligibilityInit ==
  /\ world \in Worlds
  /\ evaluation = Resting
  /\ standing = [id \in DOMAIN world |-> {}]
  /\ verdict = NoVerdict /\ worldChanges = 0 /\ eligibilityFaults = 0

-----------------------------------------------------------------------------
\* Mutant of SubjectOf: the policies are asked of the account the candidate names.
SubjectNamed(e) == e.candidate

(* policyContext: whom the policies are asked of.                           *)
SubjectOf(e) == IF e.resolved = Nobody THEN e.candidate ELSE e.resolved

Answer(reasons) ==
  /\ verdict' = [candidate |-> evaluation.candidate, reasons |-> reasons,
                 subject |-> IF evaluation.resolved = Nobody THEN evaluation.candidate
                             ELSE evaluation.resolved]
  /\ evaluation' = Resting

EligibilityFault ==
  eligibilityFaults < MaxEligibilityFaults /\ eligibilityFaults' = eligibilityFaults + 1

Evaluation ==
  /\ evaluation.pc = "off"
  /\ \E c \in Candidates :
       IF CheapReasons(c) # {}
       THEN /\ verdict' = [candidate |-> c.id, subject |-> c.id, reasons |-> CheapReasons(c)]
            /\ UNCHANGED evaluation
       ELSE /\ evaluation' = [Resting EXCEPT !.candidate = c.id, !.reference = c.id,
                                !.pc = IF c.kind = "account" THEN "resolve" ELSE "provider"]
            /\ verdict' = NoVerdict
  /\ standing' = [id \in DOMAIN world |-> Against(world[id])]
  /\ UNCHANGED <<world, worldChanges, eligibilityFaults>>

(* One hop of evaluateRecommendationAccountEligibility: the profile the       *)
(* resolver has of the account, which may have moved on, or none.  Whoever   *)
(* was visited and is not the last is the chain of moves.                   *)
Hop ==
  /\ evaluation.pc = "resolve" /\ evaluation.reference \notin evaluation.visited
  /\ LET reference == evaluation.reference
         profile == world[reference]
         moves == Cardinality(evaluation.visited)
     IN  IF "unknown" \in profile.marks THEN Answer({"account_unresolved"})
         ELSE IF profile.movedTo # Nobody
         THEN IF moves = MaxMoves THEN Answer({"account_move_limit"})
              ELSE /\ evaluation' = [evaluation EXCEPT !.visited = @ \cup {reference},
                                                      !.reference = profile.movedTo]
                   /\ UNCHANGED verdict
         ELSE IF AccountReason(profile) # "eligible" THEN Answer({AccountReason(profile)})
         ELSE /\ evaluation' = [evaluation EXCEPT !.pc = "account", !.resolved = reference]
              /\ UNCHANGED verdict
  /\ UNCHANGED <<world, standing, worldChanges, eligibilityFaults>>

MoveLoop ==
  /\ evaluation.pc = "resolve" /\ evaluation.reference \in evaluation.visited
  /\ Answer({"account_move_loop"})
  /\ UNCHANGED <<world, standing, worldChanges, eligibilityFaults>>

(* A policy of the three is asked, and answers completely.                   *)
Marked(marks) == world[SubjectOf(evaluation)].marks \cap marks

AccountPolicy ==
  /\ evaluation.pc = "account"
  /\ IF Marked(Restrictions) # {} THEN Answer(Marked(Restrictions))
     ELSE evaluation' = [evaluation EXCEPT !.pc = "provider"] /\ UNCHANGED verdict
  /\ UNCHANGED <<world, standing, worldChanges, eligibilityFaults>>

ProviderPolicy ==
  /\ evaluation.pc = "provider"
  /\ IF Marked({"refused"}) # {} THEN Answer({"provider_policy_denied"})
     ELSE evaluation' = [evaluation EXCEPT !.pc = "viewer"] /\ UNCHANGED verdict
  /\ UNCHANGED <<world, standing, worldChanges, eligibilityFaults>>

ViewerSafety ==
  /\ evaluation.pc = "viewer"
  /\ IF Marked({"blocked"}) # {} THEN Answer({"viewer_safety_denied"}) ELSE Answer({})
  /\ UNCHANGED <<world, standing, worldChanges, eligibilityFaults>>

(* What is awaited throws, answers something malformed or incompletely: the   *)
(* candidate is refused for it.                                             *)
Incomplete ==
  /\ evaluation.pc # "off" /\ EligibilityFault
  /\ Answer({CASE evaluation.pc = "resolve" -> "account_unresolved"
               [] evaluation.pc = "account" -> "account_policy_incomplete"
               [] evaluation.pc = "provider" -> "provider_policy_incomplete"
               [] evaluation.pc = "viewer" -> "viewer_safety_incomplete"})
  /\ UNCHANGED <<world, standing, worldChanges>>

(* The caller's signal: the evaluation throws.                              *)
EvaluationAborted ==
  /\ evaluation.pc # "off" /\ EligibilityFault
  /\ evaluation' = Resting
  /\ UNCHANGED <<world, standing, verdict, worldChanges>>

(* An account moves, a mark is set or lifted, by its owner, by its provider    *)
(* or by the viewer.                                                        *)
WorldChanges ==
  /\ worldChanges < MaxWorldChanges /\ worldChanges' = worldChanges + 1
  /\ \/ \E id \in DOMAIN world, mark \in Marks :
          /\ id \in Accounts \/ mark \in {"refused", "blocked"}
          /\ world' = [world EXCEPT ![id].marks = IF mark \in @ THEN @ \ {mark} ELSE @ \cup {mark}]
     \/ \E id, to \in Accounts : world' = [world EXCEPT ![id].movedTo = to]
  /\ standing' = [id \in DOMAIN world |-> standing[id] \cap Against(world'[id])]
  /\ UNCHANGED <<evaluation, verdict, eligibilityFaults>>

EligibilityNext ==
  \/ Evaluation \/ Hop \/ MoveLoop \/ AccountPolicy \/ ProviderPolicy \/ ViewerSafety
  \/ Incomplete \/ EvaluationAborted \/ WorldChanges

EligibilitySpec == EligibilityInit /\ [][EligibilityNext]_eligibilityVars

-----------------------------------------------------------------------------
(* Nobody is recommended against whom something stood all through the           *)
(* evaluation, though the candidate was named by an account that moved, and   *)
(* moved again, while the policies were asked.                              *)
ServedOnCurrentIdentity ==
  verdict.reasons = {} => standing[verdict.subject] = {}
=============================================================================
