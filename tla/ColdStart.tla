------------------------------- MODULE ColdStart -------------------------------
(***************************************************************************)
(* Candidates for a subject without a history: what the sources report is  *)
(* validated against what each source may report, duplicates are merged,   *)
(* and what matches the profile is ranked.                                 *)
(*                                                                         *)
(* Strings are abstracted: "sound" is the set of a record's parts that the *)
(* validators accept, the hash of an identity is the identity itself,      *)
(* scores are integers in hundredths.                                      *)
(***************************************************************************)
EXTENDS Integers, SequencesExt

CONSTANTS PerSourceLimit, MaxGenerated, MaxProvenance, MaxValues

CandidateParts == {"native", "urls", "times", "metadata"}

NoText == "none"

Verifications == {"unverified_hint", "source_asserted", "authority_verified", "canonical"}

VerificationStrength(verification) ==
  CASE verification = "unverified_hint" -> 0
    [] verification = "source_asserted" -> 1
    [] verification = "authority_verified" -> 2
    [] verification = "canonical" -> 3

IsVerified(c) == VerificationStrength(c.verification) >= 2

-----------------------------------------------------------------------------
(* A candidate: its id is derived from what it is, the evidence suits its     *)
(* verification, and who is verified is so on the word of somebody trusted.  *)
CandidateId(c) == <<c.kind, c.protocol, c.provider, c.native>>

EvidenceSuits(c) ==
  /\ c.verification = "unverified_hint" => c.evidence = {}
  /\ IsVerified(c) => c.evidence = {"authority", "verifiedAt"}

MetadataFits(c) ==
  \A field \in {"interests", "tags", "entities", "languages"} : Cardinality(c[field]) <= MaxValues

(* Where a candidate was seen: the key names the place, not the trust in it.   *)
TrustedPlace(p) == p.trust \notin {"third_party", "unknown"}

PlacesSound(places) ==
  /\ Len(places) \in 1 .. MaxProvenance
  /\ IsInjective([i \in DOMAIN places |-> places[i].key])
  /\ \A p \in Range(places) : p.kind = "third_party_directory_hint" => p.trust = "third_party"

(* normalizeRecommendationCandidate throws on anything else.                 *)
CandidateSound(c) ==
  /\ c.sound = CandidateParts
  /\ c.id = CandidateId(c)
  /\ EvidenceSuits(c) /\ MetadataFits(c) /\ PlacesSound(c.provenance)
  /\ IsVerified(c) => \E p \in Range(c.provenance) : TrustedPlace(p)

-----------------------------------------------------------------------------
(* A source: what it may say depends on the authority it has.                *)
AllowedVerifications(authority) ==
  CASE authority = "untrusted_hint" -> {"unverified_hint"}
    [] authority = "curated_public" -> {"unverified_hint", "source_asserted"}
    [] authority \in {"provider_native", "protocol_native"} ->
         {"unverified_hint", "source_asserted", "authority_verified"}
    [] authority = "local_canonical" -> {"source_asserted", "authority_verified", "canonical"}

CapabilitiesConsistent(a) ==
  /\ "discover" \in a.capabilities
  /\ a.authority = "untrusted_hint" => "returns_untrusted_hints" \in a.capabilities
  /\ "returns_authority_verified_identity" \in a.capabilities =>
       a.authority \in {"provider_native", "protocol_native", "local_canonical"}

(* A remote source discovers in public data only, a local one stays local.    *)
TransportSuits(a) ==
  /\ a.privacy.providerAllows
  /\ IF a.transport = "remote"
     THEN /\ ~a.privacy.containsPrivate /\ a.privacy.serverSide
          /\ a.privacy.visibility \in {"public", "atproto_public_repo"}
     ELSE ~a.privacy.serverSide

(* isRecommendationCandidateSourceAdapter                                   *)
SourceSound(a) ==
  /\ a.protocols # {} /\ a.kinds # {}
  /\ CapabilitiesConsistent(a) /\ TransportSuits(a)

(* assertCandidateMatchesAdapter                                            *)
WithinAuthority(c, a) ==
  /\ c.protocol \in a.protocols /\ c.kind \in a.kinds
  /\ c.verification \in AllowedVerifications(a.authority)
  /\ c.verification = "unverified_hint" => "returns_untrusted_hints" \in a.capabilities
  /\ IsVerified(c) => "returns_authority_verified_identity" \in a.capabilities

(* normalizeRecommendationCandidateSourceAdapterReadResult: one candidate    *)
(* that is not as it should be, and the whole answer is refused.            *)
AnswerSound(a, requested, answer) ==
  /\ Len(answer.candidates) <= PerSourceLimit
  /\ \A c \in Range(answer.candidates) :
       CandidateSound(c) /\ WithinAuthority(c, a) /\ c.kind \in requested
  /\ IsInjective([i \in DOMAIN answer.candidates |-> answer.candidates[i].id])
  /\ answer.cursor => "supports_pagination" \in a.capabilities

-----------------------------------------------------------------------------
(* The members of a set in a strict order, the set of its pairs; at most so     *)
(* many of a list; what a function says, and of one thing more.              *)
SortedBy(S, before) ==
  [k \in 1 .. Cardinality(S) |->
     CHOOSE c \in S : Cardinality({d \in S : <<d, c>> \in before}) = k - 1]

AtMost(list, maximum) == SubSeq(list, 1, IF Len(list) < maximum THEN Len(list) ELSE maximum)

Put(f, x, value) == [y \in DOMAIN f \cup {x} |-> IF y = x THEN value ELSE f[y]]

-----------------------------------------------------------------------------
(* The reports of one candidate, by the number of the source: the strongest   *)
(* verification speaks for all, then the newest.                            *)
Stronger(a, b) ==
  LET strength(c) == VerificationStrength(c.verification) IN
  \/ strength(a) > strength(b)
  \/ strength(a) = strength(b) /\ a.observed > b.observed
  \/ strength(a) = strength(b) /\ a.observed = b.observed /\ a.uri < b.uri

Representative(group) ==
  group[CHOOSE i \in DOMAIN group :
          \A j \in DOMAIN group :
            ~Stronger(group[j], group[i]) /\ (j < i => Stronger(group[i], group[j]))]

(* The text of the representative, or of the first that has one.             *)
TextOf(group) ==
  LET named == {i \in DOMAIN group : group[i].name # NoText}
  IN  IF Representative(group).name # NoText THEN Representative(group).name
      ELSE IF named = {} THEN NoText ELSE group[Min(named)].name

LastSeen(group) == Max({c.observed : c \in Range(group)})

(* At the same moment, unavailable outweighs available.                      *)
LatestAvailability(group) ==
  LET latest == {c.availability : c \in {d \in Range(group) : d.observed = LastSeen(group)}}
  IN  CHOOSE a \in latest : \A b \in latest :
        \/ a = "unavailable" \/ b = "unknown" \/ a = b

FirstValues(values) ==
  LET sorted == SetToSortSeq(values, <)
  IN  Range(SubSeq(sorted, 1, IF Len(sorted) < MaxValues THEN Len(sorted) ELSE MaxValues))

MergedValues(group, field) == FirstValues(UNION {c[field] : c \in Range(group)})

(* Of every place the newest sighting, and of equally new ones the first.     *)
NewestPlaces(group) ==
  UNION {{p \in Range(group[i].provenance) :
            \A j \in DOMAIN group : \A q \in Range(group[j].provenance) :
              q.key = p.key => p.observed > q.observed \/ (p.observed = q.observed /\ i <= j)}
           : i \in DOMAIN group}

Sooner(p, q) == p.observed > q.observed \/ (p.observed = q.observed /\ p.key < q.key)

(* mergeProvenance: the place in which a verified representative was vouched   *)
(* for is kept, however many newer ones there are.                          *)
MergedPlaces(group) ==
  LET ordered == SetToSortSeq(NewestPlaces(group), Sooner)
      supporting == SetToSortSeq({p \in Range(Representative(group).provenance) : TrustedPlace(p)},
                                 Sooner)[1].key
      kept == SelectSeq(ordered, LAMBDA p : p.key = supporting)
      others == SelectSeq(ordered, LAMBDA p : p.key # supporting)
  IN  IF IsVerified(Representative(group)) THEN kept \o AtMost(others, MaxProvenance - 1)
      ELSE AtMost(ordered, MaxProvenance)

(* mergeCandidateGroup                                                      *)
MergedCandidate(group) ==
  [Representative(group) EXCEPT
     !.name = TextOf(group), !.observed = LastSeen(group),
     !.availability = LatestAvailability(group),
     !.interests = MergedValues(group, "interests"), !.tags = MergedValues(group, "tags"),
     !.entities = MergedValues(group, "entities"), !.languages = MergedValues(group, "languages"),
     !.provenance = MergedPlaces(group)]

-----------------------------------------------------------------------------
(* The profile's interests: what is liked, of every target the strongest      *)
(* entry; hashtags and keywords are the same tags.                          *)
Clamped(n) == IF n < 0 THEN 0 ELSE IF n > 100 THEN 100 ELSE n
EntryWeight(e) == (Clamped(e.score) * Clamped(e.confidence)) \div 100

FieldOf(kind) ==
  CASE kind = "canonical_interest" -> "interests"
    [] kind \in {"hashtag", "keyword"} -> "tags"
    [] kind = "entity" -> "entities"
    [] OTHER -> "none"

Indexable(e) == e.score > 0 /\ e.positive > 0 /\ FieldOf(e.kind) # "none"

StrongerEntry(e, f) ==
  EntryWeight(e) > EntryWeight(f) \/ (EntryWeight(e) = EntryWeight(f) /\ e.updated > f.updated)

(* buildProfileMatchIndex                                                   *)
IndexedEntries(profile) ==
  {i \in DOMAIN profile :
     /\ Indexable(profile[i])
     /\ \A j \in DOMAIN profile \ {i} :
          /\ Indexable(profile[j]) /\ profile[j].key = profile[i].key
          /\ FieldOf(profile[j].kind) = FieldOf(profile[i].kind)
          => StrongerEntry(profile[i], profile[j])
               \/ (i < j /\ ~StrongerEntry(profile[j], profile[i]))}

(* matchCandidate                                                           *)
MatchedEntries(c, profile) ==
  {i \in IndexedEntries(profile) : profile[i].key \in c[FieldOf(profile[i].kind)]}

Affinity(c, profile) ==
  LET matched == MatchedEntries(c, profile)
      upto[i \in 0 .. Len(profile)] ==
        IF i = 0 THEN 0
        ELSE upto[i - 1] + (IF i \in matched THEN EntryWeight(profile[i]) ELSE 0)
  IN  upto[Len(profile)]

Language(c, languages) ==
  CASE languages = {} -> "not_requested"
    [] languages # {} /\ c.languages = {} -> "unknown"
    [] languages # {} /\ c.languages # {} ->
         IF languages \cap c.languages = {} THEN "incompatible" ELSE "compatible"

LanguageRank(language) ==
  CASE language = "compatible" -> 2 [] language = "incompatible" -> 0 [] OTHER -> 1

(* compareGeneratedCandidates, as a tuple that is compared from its head.    *)
Rank(c, profile, languages) ==
  <<Cardinality(MatchedEntries(c, profile)), Affinity(c, profile),
    LanguageRank(Language(c, languages)), VerificationStrength(c.verification), c.observed,
    -c.native>>

Exceeds(p, q) ==
  \E i \in DOMAIN p : p[i] > q[i] /\ \A j \in 1 .. i - 1 : p[j] = q[j]

-----------------------------------------------------------------------------
(* From the sources' answers, in the order of the sources, to the ranking: a  *)
(* source reports a candidate once.                                         *)
ReportedIds(outcomes) ==
  UNION {{c.id : c \in Range(outcomes[i].candidates)} : i \in DOMAIN outcomes}

ReportsOf(outcomes, id) ==
  [i \in {i \in DOMAIN outcomes : \E c \in Range(outcomes[i].candidates) : c.id = id} |->
     CHOOSE c \in Range(outcomes[i].candidates) : c.id = id]

MergedCandidates(outcomes) ==
  {MergedCandidate(ReportsOf(outcomes, id)) : id \in ReportedIds(outcomes)}

(* A merge that is not itself a sound candidate fails the whole generation.   *)
Mergeable(outcomes) == \A c \in MergedCandidates(outcomes) : CandidateSound(c)

GeneratedFrom(outcomes, profile, languages) ==
  LET matching == {c \in MergedCandidates(outcomes) : MatchedEntries(c, profile) # {}}
      rank(c) == Rank(c, profile, languages)
  IN  AtMost(SortedBy(matching, {p \in matching \X matching : Exceeds(rank(p[1]), rank(p[2]))}),
             MaxGenerated)

-----------------------------------------------------------------------------
(* deterministicScore (its tanh is a cap), and hybridScore with the features   *)
(* a cold start can have.                                                   *)
DeterministicScore(c, profile, languages) ==
  (Clamped(Affinity(c, profile))
     * (CASE Language(c, languages) = "incompatible" -> 0
          [] Language(c, languages) = "compatible" -> 100
          [] OTHER -> 85)) \div 100

HybridScore(c, profile, languages, feature) ==
  DeterministicScore(c, profile, languages) + feature.entity + feature.graph
    + (35 * feature.embedding) \div 100

(* normalizeFeatureSet                                                      *)
FeatureSound(feature) ==
  feature.own /\ \A f \in {"entity", "graph", "embedding"} : feature[f] \in -100 .. 100

HigherFirst(S) ==
  {p \in S \X S : p[1].score > p[2].score \/ (p[1].score = p[2].score /\ p[1].id[4] < p[2].id[4])}

(* rerankMultiObjective: the first of a category gains, the next ones lose,   *)
(* what was not seen lately gains. What is equal is ordered by number.       *)
Adjusted(scored, metadata) ==
  LET sorted == SortedBy(scored, HigherFirst(scored))
      category(p) == metadata[p.id].category
      before(i) == Cardinality({j \in 1 .. i - 1 : category(sorted[j]) = category(sorted[i])})
  IN  {[id |-> sorted[i].id,
        score |-> sorted[i].score
                  + (IF category(sorted[i]) # NoText /\ before(i) > 0 THEN -20 * before(i) ELSE 20)
                  + (IF metadata[sorted[i].id].seenRecently THEN 0 ELSE 15)] : i \in DOMAIN sorted}

(* serveCandidates                                                          *)
ServedList(scored, excluded, minScore, limit) ==
  LET served == {p \in scored : p.id \notin excluded /\ p.score >= minScore}
  IN  AtMost(SortedBy(served, HigherFirst(served)), limit)
=============================================================================
