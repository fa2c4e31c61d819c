------------------------------- MODULE MCSources -------------------------------
(* The parts that bring the engine its data, one at a time: "part" says which  *)
(* of them a behaviour is of, and the others stay as they were at first.      *)
EXTENDS SourceIngestion, LiveOutbox, Labels, ProviderDiscovery, Eligibility, FirstSession

VARIABLE part

CONSTANTS r1, r2

-----------------------------------------------------------------------------
(* Ingestion: a subject who grants everything and one who grants no private    *)
(* data; an outbox of two pages with a public, a private and an unlisted      *)
(* activity; timelines, an inbox and a repository with a record of each kind  *)
(* the gates tell apart.                                                     *)
AllParts == {"ids", "times", "content", "references"}
NoFlags == [thirdParty |-> FALSE, serverSide |-> FALSE, providerAllows |-> TRUE]

Activity(type, to, cc) ==
  [type |-> type, objectType |-> "Note", undo |-> "none", to |-> to, cc |-> cc, hidden |-> FALSE,
   visibility |-> "none", audience |-> FALSE, objectPublic |-> FALSE, actor |-> "own",
   mirrored |-> FALSE, trust |-> "same_provider", flags |-> NoFlags, sound |-> AllParts]

Status(visibility) ==
  [boost |-> FALSE, visibility |-> visibility, mirrored |-> FALSE,
   trust |-> "remote_provider", flags |-> NoFlags, sound |-> AllParts]

Record(collection, operation, uri) ==
  [repository |-> "repo", collection |-> collection, operation |-> operation, uri |-> uri,
   uriCollection |-> collection, subject |-> "did", publicRepository |-> TRUE, mirrored |-> FALSE,
   trust |-> "remote_provider", flags |-> NoFlags, sound |-> AllParts]

LocalEvent(number, protocol, visibility, at) ==
  [number |-> number, protocol |-> protocol, kind |-> "PostCreate", id |-> number,
   visibility |-> visibility, scope |-> IF protocol = "activitypods" THEN "acl_controlled" ELSE "none",
   mode |-> "control", isOwner |-> FALSE, mirrored |-> FALSE, trust |-> "user_owned",
   flags |-> [NoFlags EXCEPT !.serverSide = TRUE], at |-> at, sound |-> AllParts]

Numbered(list) == [n \in DOMAIN list |-> [id |-> n] @@ list[n]]

MCRaw == Numbered(<<
  Activity("Create", {"public"}, {}),
  Activity("Announce", {"followers"}, {"public"}),
  Activity("Create", {"followers"}, {}),
  Activity("Like", {"public"}, {}),
  [Activity("Create", {"someone"}, {}) EXCEPT !.objectPublic = TRUE],
  [Activity("Undo", {"public"}, {}) EXCEPT !.undo = "Block"],
  [Activity("Create", {"public"}, {}) EXCEPT !.mirrored = TRUE],
  Status("public"), Status("direct"),
  Record("follow", "create", "repo"), Record("like", "delete", "other"),
  LocalEvent(12, "activitypods", "direct", 1), LocalEvent(13, "activitypub", "public", 0),
  [LocalEvent(14, "activitypub", "followers", 1) EXCEPT !.mirrored = TRUE],
  [LocalEvent(15, "activitypods", "direct", 1) EXCEPT !.number = 12, !.id = 12],
  LocalEvent(16, "activitypub", "public", 1)>>)

MCArriving == <<1>>

MCServed == [outbox |-> <<1, 3, 2, 4>>, inbox |-> <<1, 3, 7, 6>>, publicTimeline |-> <<8, 9>>,
             homeTimeline |-> <<8, 9>>, repository |-> <<10, 11>>, local |-> <<14, 12, 13, 15, 16>>]

Given(visibility, basis, private) ==
  [subject |-> Subject, visibility |-> visibility, basis |-> basis, containsPrivate |-> private,
   thirdParty |-> TRUE, serverSide |-> FALSE, providerAllows |-> TRUE]

MCGrants ==
  [outbox |-> {FromEvidence(Subject, "activitypub.public_web", "public", "public_web", {}, TRUE),
               Given("public", "public_web", TRUE)},
   inbox |-> {FromEvidence(Subject, "activitypub.public_web", "public", "public_web", {}, TRUE),
              FromEvidence(Subject, "activitypub.follower_relationship", "followers_only", "owner", {}, TRUE),
              Given("followers_only", "follower_relationship", FALSE)},
   publicTimeline |-> {Given("public", "public_web", FALSE)},
   homeTimeline |-> {Given("public", "oauth_scope", TRUE)},
   repository |-> {FromEvidence(Subject, "atproto.public_repo", "atproto_public_repo",
                                "atproto_public_repo", {}, TRUE),
                   Given("local_only", "provider_policy", TRUE)},
   local |-> {}]

Granting(private, revoked) ==
  [subject |-> Subject, revoked |-> revoked, deletionRequested |-> FALSE,
   allowed |-> {Use}, server |-> {Use}, private |-> private, thirdParty |-> {Use}]

MCPolicies == {NoPolicy, Granting({Use}, FALSE), Granting({}, FALSE)}

Setting(adapter, failClosed, filterDenied) ==
  [adapter |-> adapter, failClosed |-> failClosed, filterDenied |-> filterDenied]

MCSettings ==
  {Setting("outbox", TRUE, FALSE), Setting("inbox", FALSE, TRUE), Setting("inbox", TRUE, FALSE),
   Setting("publicTimeline", TRUE, FALSE), Setting("homeTimeline", TRUE, TRUE),
   Setting("repository", TRUE, FALSE), Setting("local", TRUE, TRUE)}

-----------------------------------------------------------------------------
(* The live outbox: two resources of one kind.                              *)
MCResources == {r1, r2}
Symmetry == Permutations(MCResources)

-----------------------------------------------------------------------------
(* Labels: a label taken back at the time it was made, one that expires, one   *)
(* that comes late, and a frame with a label of somebody else; the values     *)
(* mean things that differ by the kind of target, that disagree, or that no   *)
(* policy allows.                                                           *)
MCLabel(target, cts, negated, expires, labeler) ==
  [target |-> target, labeler |-> labeler, value |-> "spam", negated |-> negated, cts |-> cts,
   expires |-> expires]

MCFrames == <<
  <<MCLabel("t1", 2, FALSE, Never, "labeler")>>,
  <<MCLabel("t1", 2, TRUE, Never, "labeler"), MCLabel("t2", 1, FALSE, 1, "labeler")>>,
  <<MCLabel("t1", 1, FALSE, Never, "labeler"), MCLabel("t2", 2, FALSE, Never, "labeler")>>,
  <<MCLabel("t2", 3, FALSE, Never, "other")>> >>

MCUri == [t1 |-> [scheme |-> "at", collection |-> "post", key |-> "k", cid |-> TRUE],
          t2 |-> [scheme |-> "did", collection |-> "none", key |-> "none", cid |-> FALSE]]

Definition(id, kind, targets, records) ==
  [id |-> id, labeler |-> "labeler", value |-> "spam", kind |-> kind, targets |-> targets,
   records |-> records]

MCDefinitions == {
  <<Definition(1, "topic_interest", {}, {})>>,
  <<Definition(1, "topic_interest", {}, {}), Definition(2, "moderation", {"record"}, {})>>,
  <<Definition(1, "safety", {"record"}, {}), Definition(2, "topic_interest", {"record"}, {"post"})>>,
  <<Definition(1, "topic_interest", {"record", "repository"}, {}),
    Definition(2, "moderation", {}, {"post"}), Definition(3, "safety", {"repository"}, {})>>,
  <<Definition(1, "game", {}, {"list"}), Definition(1, "moderation", {}, {})>>}

MCPoliciesOf == {
  <<>>,
  <<[id |-> 1, kind |-> "topic_interest", effect |-> "negative_interest"],
    [id |-> 2, kind |-> "safety", effect |-> "evidence_only"]>>,
  <<[id |-> 1, kind |-> "moderation", effect |-> "positive_interest"]>>}

MCLexicons == [definitions : MCDefinitions, policies : MCPoliciesOf]

-----------------------------------------------------------------------------
(* Discovery: a probe that names the application and one that disagrees with   *)
(* it, about the capability too, or speaks of another provider.  Another       *)
(* discovery may have cached what it made of such an answer, a descriptor of   *)
(* the provider it is not known from what, or one of another provider.        *)
Binding(endpoint, rank, verified) == [endpoint |-> endpoint, rank |-> rank, verified |-> verified]
Capability(state, rank) == [name |-> "feeds", state |-> state, rank |-> rank]

Observation(from, until, application, rank, state, authority) ==
  [provider |-> "p", from |-> from, until |-> until, application |-> application, rank |-> rank,
   profiles |-> IF application = "none" THEN {} ELSE {application},
   bindings |-> {Binding("e", authority, TRUE)}, capabilities |-> {Capability(state, authority)}]

NamingApp == Observation(0, 1, "app", 2, "supported", 2)

MCObservations == <<
  {Observation(0, 2, "none", 0, "supported", 1), NamingApp},
  {Observation(0, 3, "other", 1, "unsupported", 1), Observation(0, 3, "other", 3, "unsupported", 2),
   [Observation(0, 2, "app", 3, "supported", 3) EXCEPT !.provider = "q"]}>>

MCWritten == {
  [NoDescriptor EXCEPT !.provider = "p", !.until = 2, !.bindings = {"e"}],
  [NoDescriptor EXCEPT !.provider = "p", !.until = 2, !.bindings = {"e"}, !.application = "app"],
  [NoDescriptor EXCEPT !.provider = "q", !.until = 2, !.bindings = {"e"}, !.application = "app"],
  Descriptor("app", {NamingApp})}

-----------------------------------------------------------------------------
(* Eligibility: an account that may have moved, once or twice, to one that is  *)
(* inactive or has been active since; a feed, a starter pack with too many    *)
(* members, a post that is not public.                                       *)
Candidate(id, kind) ==
  [id |-> id, kind |-> kind, available |-> TRUE, verification |-> "canonical", lacks |-> {},
   members |-> 1]

MCCandidates == {
  Candidate("a", "account"), Candidate("p", "feed"),
  [Candidate("s", "starter_pack") EXCEPT !.members = 3],
  [Candidate("q", "post") EXCEPT !.lacks = {"post_not_public"}]}

At(movedTo, activity) == [movedTo |-> movedTo, marks |-> {}, activity |-> activity]
Here == At(Nobody, 3)

MCWorld(a, b, c) == ("a" :> a) @@ ("b" :> b) @@ ("c" :> c) @@ ("p" :> Here)

MCWorlds == {
  MCWorld(Here, Here, Here), MCWorld(At("b", 3), Here, Here), MCWorld(At("b", 3), At("c", 3), Here),
  MCWorld(At("b", 3), Here, At(Nobody, 1)), MCWorld(At("c", 3), Here, At(Nobody, 4))}

-----------------------------------------------------------------------------
(* First session: three sources that report the same accounts in other places, *)
(* under other names or on another authority, one that is wrongly described,  *)
(* one that has nothing of what is asked for; a third party that has seen an  *)
(* account where the authority vouched for it.                              *)
Seen(native, verification, place, trust, at, name) ==
  [id |-> <<"account", "activitypub", "p", native>>, kind |-> "account", protocol |-> "activitypub",
   provider |-> "p", native |-> native, uri |-> native, verification |-> verification,
   evidence |-> IF verification = "authority_verified" THEN {"authority", "verifiedAt"} ELSE {},
   availability |-> IF trust = "third_party" THEN "unknown" ELSE "available", observed |-> at, name |-> name, interests |-> {native % 2},
   tags |-> {5 + place}, entities |-> {}, languages |-> {1},
   provenance |-> <<[kind |-> IF trust = "third_party" THEN "third_party_directory_hint"
                              ELSE "provider_api",
                     key |-> place, trust |-> trust, observed |-> at]>>,
   sound |-> CandidateParts]

Finding(list) == [candidates |-> list, cursor |-> FALSE]

Directory(name, authority, transport) ==
  [name |-> name, protocols |-> {"activitypub"}, kinds |-> {"account"}, authority |-> authority,
   transport |-> transport,
   capabilities |-> {"discover"} \cup
     (IF authority = "untrusted_hint" THEN {"returns_untrusted_hints"}
      ELSE {"returns_authority_verified_identity"}),
   privacy |-> [providerAllows |-> TRUE, containsPrivate |-> FALSE,
                serverSide |-> transport = "remote", visibility |-> "public"]]

MCAnswers ==
  [native |-> {Finding(<<Seen(1, "authority_verified", 1, "same_provider", 1, "one")>>),
               Finding(<<Seen(1, "authority_verified", 1, "same_provider", 1, NoText),
                         Seen(2, "authority_verified", 2, "same_provider", 1, "two")>>)},
   local |-> {Finding(<<Seen(1, "authority_verified", 1, "same_provider", 1, "uno"),
                        Seen(3, "authority_verified", 2, "same_provider", 2, "three")>>),
              Finding(<<Seen(1, "authority_verified", 3, "third_party", 1, "uno")>>)},
   hints |-> {Finding(<<Seen(2, "unverified_hint", 4, "third_party", 2, "dos"),
                        Seen(1, "unverified_hint", 5, "third_party", 2, "eins")>>),
              Finding(<<Seen(1, "unverified_hint", 1, "third_party", 2, "eins")>>)}]

Liked(kind, key, score) ==
  [kind |-> kind, key |-> key, score |-> score, confidence |-> 100, positive |-> 1, updated |-> 1]
MCProfiles ==
  {<<Liked("canonical_interest", 1, 60), Liked("hashtag", 7, 40), Liked("keyword", 7, 50)>>, <<>>}

Asking(sources, kinds, excluded, limit, features, rerank) ==
  [sources |-> sources, kinds |-> kinds, languages |-> {1}, excluded |-> excluded, limit |-> limit,
   minScore |-> 0, features |-> features, rerank |-> rerank, explain |-> rerank]
Native == Directory("native", "provider_native", "remote")
LocalOne == Directory("local", "local_canonical", "local")
Hints == Directory("hints", "untrusted_hint", "remote")

MCRequests ==
  {Asking(<<Native, LocalOne, Hints>>, {"account"}, {}, 2, FALSE, TRUE),
   Asking(<<Hints, LocalOne>>, {"account", "feed"}, {<<"account", "activitypub", "p", 3>>}, 1,
          TRUE, FALSE),
   Asking(<<Native, [Hints EXCEPT !.kinds = {"feed"}]>>, {"account"}, {}, 2, TRUE, FALSE),
   Asking(<<[Native EXCEPT !.privacy.serverSide = FALSE]>>, {"account"}, {}, 1, FALSE, FALSE)}

MCFeatures == {[own |-> TRUE, entity |-> 10, graph |-> -20, embedding |-> 50],
               [own |-> TRUE, entity |-> 0, graph |-> 0, embedding |-> 0],
               [own |-> FALSE, entity |-> 10, graph |-> 0, embedding |-> 0]}
MCCategories ==
  {[category |-> NoText, seenRecently |-> FALSE], [category |-> "c", seenRecently |-> TRUE]}

-----------------------------------------------------------------------------
MCInit ==
  /\ part \in {"ingestion", "live", "labels", "discovery", "eligibility", "session"}
  /\ Init /\ LiveInit /\ LabelsInit /\ DiscoveryInit /\ EligibilityInit /\ SessionInit
  /\ part # "ingestion" => settings = CHOOSE s \in Settings : TRUE
  /\ part # "eligibility" => world = CHOOSE w \in Worlds : TRUE

Only(name) ==
  /\ part = name /\ UNCHANGED part
  /\ name # "ingestion" => UNCHANGED vars
  /\ name # "live" => UNCHANGED liveVars
  /\ name # "labels" => UNCHANGED labelVars
  /\ name # "discovery" => UNCHANGED discoveryVars
  /\ name # "eligibility" => UNCHANGED eligibilityVars
  /\ name # "session" => UNCHANGED sessionVars

MCNext ==
  \/ Only("ingestion") /\ Next
  \/ Only("live") /\ LiveNext
  \/ Only("labels") /\ LabelsNext
  \/ Only("discovery") /\ DiscoveryNext
  \/ Only("eligibility") /\ EligibilityNext
  \/ Only("session") /\ SessionNext

MCSpec ==
  MCInit /\ [][MCNext]_<<part, vars, liveVars, labelVars, discoveryVars, eligibilityVars, sessionVars>>
=============================================================================
