---------------------------- MODULE SourceRecords ----------------------------
(***************************************************************************)
(* From what a provider serves to what the engine reads: a provider record *)
(* is mapped to a normalized event of its protocol, that to a canonical    *)
(* event, and that to a source item with its context.                      *)
(*                                                                         *)
(* A record's strings are abstracted: "sound" is the set of its parts the  *)
(* validators accept, addressees are classes of recipients.                *)
(***************************************************************************)
EXTENDS SourceContext, SequencesExt

Parts == {"ids", "times", "content", "references"}

ActivityTypes == {"Create", "Update", "Delete", "Like", "Announce", "Follow", "Flag", "Undo"}
UndoTypes == {"Like", "Announce", "Follow"}

(* Identifiers and URLs, timestamps, text and tags, and references to other  *)
(* records: any validator that refuses its part throws.                     *)
IdsSound(r) == "ids" \in r.sound
TimesSound(r) == "times" \in r.sound
ContentSound(r) == "content" \in r.sound
ReferencesSound(r) == "references" \in r.sound

Sound(r) == IdsSound(r) /\ TimesSound(r) /\ ContentSound(r) /\ ReferencesSound(r)

(* activityPubVisibility: the record's own word first, then hidden           *)
(* recipients, then the classes of the open ones.                           *)
ActivityVisibility(raw, fallback) ==
  IF raw.visibility # "none" THEN raw.visibility
  ELSE IF raw.hidden THEN "mentioned_only"
  ELSE IF "public" \in raw.to THEN "public"
  ELSE IF "public" \in raw.cc THEN "unlisted"
  ELSE IF "followers" \in raw.to \cup raw.cc THEN "followers_only"
  ELSE IF raw.to \cup raw.cc # {} THEN "mentioned_only"
  ELSE fallback

(* isExplicitlyPublic: the outbox reads only activities that name the public,  *)
(* themselves or in their object.                                           *)
ExplicitlyPublic(raw) == "public" \in raw.to \cup raw.cc \/ raw.audience \/ raw.objectPublic

(* mapActivityPubProviderActivityToNormalizedEvent throws on anything else.  *)
ActivityMappable(raw) ==
  /\ Sound(raw)
  /\ raw.type \in ActivityTypes
  /\ raw.type = "Undo" => raw.undo \in UndoTypes

(* activityPubKind                                                          *)
ActivityKind(type, objectType, undo) ==
  CASE type \in {"Create", "Update"} /\ objectType \in {"Person", "Group"} -> "ProfileUpdate"
    [] type = "Create" /\ objectType = "Question" -> "PollCreate"
    [] type = "Create" /\ objectType \notin {"Question", "Person", "Group"} -> "PostCreate"
    [] type = "Update" /\ objectType = "Question" -> "PollEdit"
    [] type = "Update" /\ objectType \notin {"Question", "Person", "Group"} -> "PostEdit"
    [] type = "Delete" -> IF objectType = "Question" THEN "PollDelete" ELSE "PostDelete"
    [] type = "Like" -> "ReactionAdd"
    [] type = "Announce" -> "ShareAdd"
    [] type = "Follow" -> "FollowAdd"
    [] type = "Flag" -> "ReportCreate"
    [] type = "Undo" /\ undo = "Like" -> "ReactionRemove"
    [] type = "Undo" /\ undo = "Announce" -> "ShareRemove"
    [] type = "Undo" /\ undo = "Follow" -> "FollowRemove"

(* activityPubCanonicalVisibility                                           *)
CanonicalVisibility(visibility) ==
  CASE visibility \in {"private", "followers_only", "mutuals_only"} -> "followers"
    [] visibility \in {"direct", "mentioned_only"} -> "direct"
    [] OTHER -> visibility

(* withRecordDefaults: a flag once raised stays, a refusal stays.           *)
WithDefaults(flags, defaults) ==
  [thirdParty |-> flags.thirdParty \/ defaults.thirdParty,
   serverSide |-> flags.serverSide \/ defaults.serverSide,
   providerAllows |-> flags.providerAllows /\ defaults.providerAllows]

Canonical(protocol, kind, id, visibility, raw, defaults, at) ==
  [protocol |-> protocol, kind |-> kind, id |-> id, visibility |-> visibility,
   scope |-> "none", mode |-> "none", isOwner |-> FALSE, mirrored |-> raw.mirrored,
   trust |-> raw.trust, flags |-> WithDefaults(raw.flags, defaults), at |-> at, sound |-> raw.sound]

(* toCanonicalActivityPubRecommendationEvent of the mapped activity          *)
CanonicalActivity(raw, fallback, defaults, at) ==
  Canonical("activitypub", ActivityKind(raw.type, raw.objectType, raw.undo), raw.id,
            CanonicalVisibility(ActivityVisibility(raw, fallback)), raw, defaults, at)

(* mapMastodonProviderStatusToActivityPubNormalizedEvent: a boost is an      *)
(* Announce of its source; the visibility is the status's own word.         *)
StatusVisibility(visibility) ==
  CASE visibility = "private" -> "followers"
    [] visibility = "direct" -> "direct"
    [] visibility \in {"public", "unlisted"} -> visibility
    [] OTHER -> "unknown"

CanonicalStatus(raw, defaults, at) ==
  Canonical("activitypub", IF raw.boost THEN "ShareAdd" ELSE "PostCreate", raw.id,
            StatusVisibility(raw.visibility), raw, defaults, at)

(* mapAtprotoProviderRecordToNormalizedEvent: the address must be of the     *)
(* repository and collection named, and a graph or feed record names whom   *)
(* or what it is about.                                                     *)
AddressMatches(raw) ==
  raw.uri = "none" \/ (raw.uri = raw.repository /\ raw.uriCollection = raw.collection)

RecordMappable(raw) ==
  /\ Sound(raw) /\ AddressMatches(raw)
  /\ raw.collection \in {"follow", "block"} => raw.subject = "did"
  /\ raw.collection \in {"like", "repost"} => raw.subject = "uri"
  /\ raw.collection \in {"follow", "block", "like", "repost"} => raw.operation # "update"

(* atprotoKind, atprotoDirectSourceItemKind                                 *)
RecordKind(collection, operation) ==
  CASE collection = "post" /\ operation = "create" -> "PostCreate"
    [] collection = "post" /\ operation = "update" -> "PostEdit"
    [] collection = "post" /\ operation = "delete" -> "PostDelete"
    [] collection = "profile" -> IF operation = "delete" THEN "AccountState" ELSE "ProfileUpdate"
    [] collection = "like" -> IF operation = "create" THEN "ReactionAdd" ELSE "ReactionRemove"
    [] collection = "repost" -> IF operation = "create" THEN "ShareAdd" ELSE "ShareRemove"
    [] collection = "follow" -> IF operation = "create" THEN "FollowAdd" ELSE "FollowRemove"
    [] collection = "block" -> "Block"

CanonicalRecord(raw, defaults, at) ==
  Canonical("atproto", RecordKind(raw.collection, raw.operation), <<raw.id, raw.operation>>,
            IF raw.publicRepository THEN "public" ELSE "unknown", raw, defaults, at)

(* canonicalEventKindToSourceItemKind, and the block of a repository, which  *)
(* is an item without being a canonical event: what is removed or deleted   *)
(* is an item of the same kind as what is added.                            *)
ItemKind(kind) ==
  CASE kind \in {"ProfileUpdate", "AccountState"} -> "profile"
    [] kind \in {"FollowAdd", "FollowRemove"} -> "follow"
    [] kind \in {"ReactionAdd", "ReactionRemove", "ShareAdd", "ShareRemove", "PollVoteAdd"} -> "reaction"
    [] kind = "ReportCreate" -> "label"
    [] kind = "Block" -> "block"
    [] OTHER -> "post"

(* isCanonicalRecommendationEvent, normalizeCanonicalRecommendationEvent     *)
EventTimesSound(e) == TimesSound(e)
EventReferencesSound(e) == ReferencesSound(e)
EventSound(e) == Sound(e) /\ EventTimesSound(e) /\ EventReferencesSound(e)

Included(e, includeMirrored) == includeMirrored \/ ~e.mirrored

(* canonicalEventIdentity                                                   *)
Identity(e) == <<e.protocol, e.id, e.kind>>

(* createCanonicalRecommendationSourceItem                                  *)
Item(e) ==
  [kind |-> ItemKind(e.kind), context |-> CanonicalContext(e), trust |-> e.trust,
   id |-> Identity(e), at |-> e.at]

(* The members of a set of positions, the smallest first.                    *)
Ascending(S) ==
  [k \in 1 .. Cardinality(S) |-> CHOOSE i \in S : Cardinality({j \in S : j <= i}) = k]

(* readCanonicalSourceItems: the events since a time, each identity once, a   *)
(* page of them from an offset.  The scan ends at the first event beyond the *)
(* page, so what follows is not validated.                                  *)
Kept(events, since, includeMirrored) ==
  LET places == Ascending({i \in DOMAIN events :
                             events[i].at >= since /\ Included(events[i], includeMirrored)})
  IN  [k \in DOMAIN places |-> events[places[k]]]

Firsts(kept) ==
  Ascending({i \in DOMAIN kept : \A j \in 1 .. i - 1 : Identity(kept[j]) # Identity(kept[i])})

(* At most "limit" elements of a list, from an offset.                      *)
Slice(list, offset, limit) ==
  SubSeq(list, offset + 1, IF offset + limit < Len(list) THEN offset + limit ELSE Len(list))

PageOf(kept, offset, limit) ==
  LET firsts == Firsts(kept)
      more == Len(firsts) > offset + limit
  IN  [events |-> [k \in DOMAIN Slice(firsts, offset, limit) |-> kept[firsts[offset + k]]],
       more |-> more,
       scanned |-> IF more THEN firsts[offset + limit + 1] ELSE Len(kept)]

PageSound(kept, page) == \A i \in 1 .. page.scanned : EventSound(kept[i])
=============================================================================
