--------------------------- MODULE SourceIngestion ---------------------------
(***************************************************************************)
(* A host reads a source adapter page by page, and each page passes the    *)
(* consent gate and the evidence pipeline into the signal ledger; the      *)
(* cursor moves only when all of it was accepted.                          *)
(*                                                                         *)
(* The adapters: an actor's public outbox, a server's public and home      *)
(* timelines, activities and repository records a host reads itself        *)
(* ("inbox", "repository"), and the app's own canonical events ("local").  *)
(* Every action is what the code does between two awaits.  The server, the *)
(* audit sink and the host's derivation are external.                      *)
(***************************************************************************)
EXTENDS Integers, SourceRecords, SignalPolicy, LedgerOps

CONSTANTS Raw,          \* the records by number: what the providers can serve
          Served,       \* for every adapter, the numbers it serves at first
          Arriving,     \* the numbers published while the outbox is read
          Grants,       \* for every adapter, the authorizations its host can give
          Policies,     \* the consent policies of the subject
          Settings,     \* [adapter, failClosed, filterDenied]
          Subject, Use, \* whose data is read, and what for
          Since,        \* the time the app's own events are read from
          Limit, PageSize, MaxPages,
          MaxReads, MaxTime, MaxFaults

ASSUME IngestionAssumption ==
  /\ \A s \in Settings : Served[s.adapter] \in Seq(DOMAIN Raw)
  /\ Arriving \in Seq(DOMAIN Raw)
  /\ Limit \in Nat \ {0} /\ PageSize \in Nat \ {0}

VARIABLES settings, served, arrived, clock, call, cursor, ledger, sweep, reads, faults

vars == <<settings, served, arrived, clock, call, cursor, ledger, sweep, reads, faults>>

NoCursor == <<>>
Root == 0      \* the outbox itself, a collection whose first page is page 1
NoPage == -1

Idle == [pc |-> "idle", policy |-> NoPolicy, auth |-> {}, page |-> NoPage, offset |-> 0,
         pages |-> 0, visited |-> {}, got |-> <<>>, next |-> NoCursor, evidence |-> <<>>]

NoSweep == [due |-> {}, got |-> {}, shrunk |-> FALSE, complete |-> FALSE]

Init ==
  /\ settings \in Settings
  /\ served = Served[settings.adapter]
  /\ arrived = 0 /\ clock = 0
  /\ call = Idle /\ cursor = NoCursor
  /\ ledger = EmptyLedger /\ sweep = NoSweep /\ reads = 0 /\ faults = 0

-----------------------------------------------------------------------------
(* What an adapter may read, and what authorization it insists on.          *)
Capabilities(adapter) ==
  CASE adapter \in {"outbox", "publicTimeline", "repository"} -> {"read_public"}
    [] adapter = "homeTimeline" -> {"read_private_with_authorization"}
    [] OTHER -> {"read_public", "read_private_with_authorization"}

PublicReadBases == {"public_web", "provider_policy", "authenticated_api", "oauth_scope"}

(* A public outbox and a public timeline are read for the public; a home      *)
(* timeline is the reader's own.                                            *)
TimelineAccepts(adapter, auth) ==
  IF adapter = "homeTimeline"
  THEN auth.containsPrivate /\ auth.basis \in {"authenticated_api", "oauth_scope"}
  ELSE auth.visibility = "public" /\ auth.basis \in PublicReadBases

OutboxAccepts(auth) ==
  auth.visibility = "public" /\ auth.basis \in PublicReadBases /\ ~auth.containsPrivate

AuthorizationAccepted(adapter, auth) ==
  /\ auth.subject = Subject
  /\ RequiresPrivateRead(auth) => "read_private_with_authorization" \in Capabilities(adapter)
  /\ adapter = "outbox" => OutboxAccepts(auth)
  /\ adapter \in {"publicTimeline", "homeTimeline"} => TimelineAccepts(adapter, auth)

(* What every record of an adapter of others' data is taken to be.          *)
RecordDefaults(adapter) ==
  [thirdParty |-> adapter \in {"outbox", "publicTimeline", "homeTimeline"},
   serverSide |-> adapter \in {"outbox", "publicTimeline", "homeTimeline"},
   providerAllows |-> TRUE]

Mappable(adapter, raw) ==
  CASE adapter \in {"outbox", "inbox"} -> ActivityMappable(raw)
    [] adapter \in {"publicTimeline", "homeTimeline"} -> Sound(raw)
    [] adapter = "repository" -> RecordMappable(raw)
    [] adapter = "local" -> TRUE

CanonicalOf(adapter, raw, at) ==
  CASE adapter = "outbox" -> CanonicalActivity(raw, "public", RecordDefaults(adapter), at)
    [] adapter = "inbox" -> CanonicalActivity(raw, "unknown", RecordDefaults(adapter), at)
    [] adapter \in {"publicTimeline", "homeTimeline"} -> CanonicalStatus(raw, RecordDefaults(adapter), at)
    [] adapter = "repository" -> CanonicalRecord(raw, RecordDefaults(adapter), at)
    [] adapter = "local" -> raw

(* The mapped and normalized items of a read, those of mirrored records left *)
(* out; the app's own events need no authorization.                         *)
ItemOf(adapter, auth, entry) ==
  IF adapter = "local" THEN Item(Raw[entry.record])
  ELSE [Item(CanonicalOf(adapter, Raw[entry.record], entry.at)) EXCEPT
          !.context = WithAuthorization(@, auth)]

Taken(adapter, entry) == Included(CanonicalOf(adapter, Raw[entry.record], entry.at), FALSE)

(* One record that cannot be mapped, or that the authorization does not      *)
(* cover, and the whole read throws.                                        *)
Readable(adapter, auth, got) ==
  \A i \in DOMAIN got :
    /\ Mappable(adapter, Raw[got[i].record])
    /\ adapter # "local" /\ Taken(adapter, got[i]) =>
         Covers(auth, Capabilities(adapter),
                CanonicalContext(CanonicalOf(adapter, Raw[got[i].record], got[i].at)))

-----------------------------------------------------------------------------
(* A call that throws leaves nothing behind but what the audit sink has.    *)
Abandon == call' = Idle /\ UNCHANGED <<cursor, ledger, sweep>>

(* readRecommendationSourceAdapterWithConsent, with the policy the subject    *)
(* has then, which may have changed since the last read: without one nothing *)
(* is read.  A read without a cursor starts a sweep of the source.          *)
Begin ==
  /\ call.pc = "idle" /\ reads < MaxReads
  /\ reads' = reads + 1
  /\ \E policy \in Policies \ {NoPolicy} :
       call' = [Idle EXCEPT !.pc = IF settings.adapter = "local" THEN "fetch" ELSE "authorize",
                            !.policy = policy]
  /\ sweep' = IF cursor # NoCursor THEN sweep
              ELSE [NoSweep EXCEPT !.due = {n \in Range(served) :
                      settings.adapter = "outbox" /\ ExplicitlyPublic(Raw[n])}]
  /\ UNCHANGED <<settings, served, arrived, clock, cursor, ledger, faults>>

(* The host's authorize answers, and the adapter validates the answer.      *)
Authorize ==
  /\ call.pc = "authorize"
  /\ \E auth \in Grants[settings.adapter] :
       IF AuthorizationAccepted(settings.adapter, auth)
       THEN /\ call' = [call EXCEPT !.pc = IF settings.adapter = "outbox" THEN "actor" ELSE "fetch",
                                    !.auth = auth]
            /\ UNCHANGED <<cursor, ledger, sweep>>
       ELSE Abandon
  /\ UNCHANGED <<settings, served, arrived, clock, reads, faults>>

(* The actor document names the outbox: the read starts there, or where the  *)
(* cursor says.                                                             *)
ReadActor ==
  /\ call.pc = "actor"
  /\ call' = [call EXCEPT !.pc = "page",
                          !.page = IF cursor = NoCursor THEN Root ELSE cursor[1],
                          !.offset = IF cursor = NoCursor THEN 0 ELSE cursor[2]]
  /\ UNCHANGED <<settings, served, arrived, clock, cursor, ledger, sweep, reads, faults>>

(* The server cuts what it has now into pages, the newest first.            *)
ItemsOf(page) == Slice(served, (page - 1) * PageSize, PageSize)
HasNext(page) == Len(served) > page * PageSize

(* Where the records reach the limit: at the item that fills it, or nowhere. *)
PageStop(items, offset, room) ==
  LET public == {i \in offset + 1 .. Len(items) : ExplicitlyPublic(Raw[items[i]])}
  IN  IF Cardinality(public) < room THEN 0
      ELSE Ascending(public)[room]

PublicOf(items, from, to) ==
  LET public == Ascending({i \in from .. to : ExplicitlyPublic(Raw[items[i]])})
  IN  [k \in DOMAIN public |-> [record |-> items[public[k]], at |-> clock]]

\* Mutant of CursorAfter: the item after the stop is skipped.
CursorSkippingOne(page, stop, items, next) ==
  IF stop # 0 /\ stop < Len(items) THEN <<page, stop + 1>>
  ELSE IF next = NoPage THEN NoCursor ELSE <<next, 0>>

(* Where the next read goes on: at the item after the stop, or the next page. *)
CursorAfter(page, stop, items, next) ==
  IF stop # 0 /\ stop < Len(items) THEN <<page, stop>>
  ELSE IF next = NoPage THEN NoCursor ELSE <<next, 0>>

(* A page is read from its offset up to the stop, if there is one.  The read *)
(* ends there, on the last page, and when it has had its number of pages.   *)
AfterPage(items, next) ==
  LET stop == PageStop(items, call.offset, Limit - Len(call.got))
      end == IF stop = 0 THEN Len(items) ELSE stop
      read == [call EXCEPT !.got = @ \o PublicOf(items, call.offset + 1, end),
                           !.visited = @ \cup {call.page}, !.pages = @ + 1, !.offset = 0,
                           !.page = next]
  IN  IF stop # 0 \/ next = NoPage \/ call.pages + 1 >= MaxPages
      THEN [read EXCEPT !.pc = "gate", !.next = CursorAfter(call.page, stop, items, next)]
      ELSE read

ReadRoot ==
  /\ call.pc = "page" /\ call.page = Root /\ Root \notin call.visited
  /\ call' = [call EXCEPT !.page = 1, !.visited = {Root}]
  /\ UNCHANGED <<settings, served, arrived, clock, cursor, ledger, sweep, reads, faults>>

(* The offset is within the page, and what is read of it is the actor's own. *)
PageFits ==
  LET items == ItemsOf(call.page)
      stop == PageStop(items, call.offset, Limit - Len(call.got))
      end == IF stop = 0 THEN Len(items) ELSE stop
  IN  /\ call.offset <= Len(items)
      /\ \A i \in call.offset + 1 .. end : Raw[items[i]].actor = "own"

(* A page answers.  A server at fault links to a page before.               *)
ReadPage ==
  /\ call.pc = "page"
  /\ call.page # Root
  /\ call.page \notin call.visited
  /\ PageFits
  /\ \/ /\ call' = AfterPage(ItemsOf(call.page), IF HasNext(call.page) THEN call.page + 1 ELSE NoPage)
        /\ UNCHANGED faults
     \/ /\ faults < MaxFaults /\ faults' = faults + 1
        /\ \E back \in 1 .. call.page : call' = AfterPage(ItemsOf(call.page), back)
  /\ UNCHANGED <<settings, served, arrived, clock, cursor, ledger, sweep, reads>>

(* A link back to a page of this read is a cycle, and a page that has become *)
(* shorter than the cursor's offset does not fit it, on every retry again.   *)
RefusePage ==
  /\ call.pc = "page"
  /\ call.page \in call.visited \/ (call.page # Root /\ ~PageFits)
  /\ Abandon
  /\ UNCHANGED <<settings, served, arrived, clock, reads, faults>>

(* The adapters that read one page: the server, or the host's reader, gives  *)
(* the page after the cursor and where the next one starts.                 *)
Start == IF cursor = NoCursor THEN 0 ELSE cursor[2]

Fetch ==
  /\ call.pc = "fetch"
  /\ settings.adapter # "local"
  /\ call' = [call EXCEPT
       !.pc = "gate",
       !.got = [k \in DOMAIN Slice(served, Start, Limit) |->
                  [record |-> served[Start + k], at |-> clock]],
       !.next = IF Start + Limit < Len(served) THEN <<1, Start + Limit>> ELSE NoCursor]
  /\ UNCHANGED <<settings, served, arrived, clock, cursor, ledger, sweep, reads, faults>>

(* createCanonicalRecommendationSourceAdapter: the offset counts events      *)
(* accepted, so that the list must not change before it.                    *)
FetchLocal ==
  /\ call.pc = "fetch"
  /\ settings.adapter = "local"
  /\ LET kept == Kept([i \in DOMAIN served |-> Raw[served[i]]], Since, FALSE)
         page == PageOf(kept, Start, Limit)
     IN  IF PageSound(kept, page)
         THEN /\ call' = [call EXCEPT
                   !.pc = "gate",
                   !.got = [k \in DOMAIN page.events |->
                              [record |-> page.events[k].number, at |-> page.events[k].at]],
                   !.next = IF page.more THEN <<1, Start + Len(page.events)>> ELSE NoCursor]
              /\ UNCHANGED <<cursor, ledger, sweep>>
         ELSE Abandon
  /\ UNCHANGED <<settings, served, arrived, clock, reads, faults>>

-----------------------------------------------------------------------------
(* Every item is evaluated against the policy the call began with and every  *)
(* evaluation is audited.  "failed" are the audits the sink did not take.    *)
Allowed(item) == ConsentAllows(call.policy, ConsentRequest(Subject, Use, item.context))

TakenAt == {i \in DOMAIN call.got : Taken(settings.adapter, call.got[i])}
ItemAt(i) == ItemOf(settings.adapter, call.auth, call.got[i])
AllowedAt == {i \in TakenAt : Allowed(ItemAt(i))}

\* Mutant of GatePasses: a failed audit of what is allowed is ignored.
GatePassesUnaudited(failed) == settings.filterDenied \/ AllowedAt = TakenAt

(* A denied item ends the read, or is left out when the host asks so.  A     *)
(* failed audit ends a read that fails closed, whatever it was an audit of.  *)
GatePasses(failed) ==
  /\ settings.filterDenied \/ AllowedAt = TakenAt
  /\ settings.failClosed => failed = {}

(* What passed, by its place in the read.                                   *)
Evidence(failed) ==
  [i \in AllowedAt |-> [record |-> call.got[i].record, item |-> ItemAt(i), audited |-> i \notin failed]]

ReadThrows ==
  /\ call.pc = "gate"
  /\ ~Readable(settings.adapter, call.auth, call.got)
  /\ Abandon
  /\ UNCHANGED <<settings, served, arrived, clock, reads, faults>>

Gate ==
  /\ call.pc = "gate"
  /\ Readable(settings.adapter, call.auth, call.got)
  /\ \E failed \in SUBSET TakenAt :
       /\ faults + Cardinality(failed) <= MaxFaults
       /\ faults' = faults + Cardinality(failed)
       /\ IF GatePasses(failed)
          THEN /\ call' = [call EXCEPT !.pc = "derive", !.evidence = Evidence(failed)]
               /\ UNCHANGED <<cursor, ledger, sweep>>
          ELSE Abandon
  /\ UNCHANGED <<settings, served, arrived, clock, reads>>

(* The signals a host can derive from an item: a like, a filter, none.  It   *)
(* asks for the server what may be on the server.                           *)
SignalKinds == {"none", "like", "hide"}

SignalOf(kind, context) ==
  [action |-> kind, polarity |-> IF kind = "like" THEN "positive" ELSE "negative",
   target |-> "hashtag", use |-> Use,
   boundary |-> IF context.serverSide THEN "server_allowed" ELSE "local_only"]

(* The operation and the source event of a signal come from the record and   *)
(* the signal; when the record was observed is in neither.                  *)
EventOf(evidence, kind) ==
  [kind |-> "apply", op |-> 2 * evidence.record + (IF kind = "like" THEN 1 ELSE 0),
   source |-> <<evidence.record, kind>>, at |-> evidence.item.at, expires |-> MaxTime + 1,
   record |-> evidence.record, action |-> kind, auth |-> call.auth, audited |-> evidence.audited,
   consented |-> Allowed(evidence.item)]

SignalOfAllowed(evidence, kind) ==
  SignalAllowed(SignalOf(kind, evidence.item.context), evidence.item.context, evidence.item.trust)

EventsOf(kinds) ==
  LET some == Ascending({i \in DOMAIN kinds : kinds[i] # "none"})
  IN  [k \in DOMAIN some |-> EventOf(call.evidence[some[k]], kinds[some[k]])]

(* processRecommendationEvidence: the signals of all the evidence are one     *)
(* batch of the engine; a signal the policy forbids or an event the ledger   *)
(* refuses fails it whole.  The host keeps the cursor of a batch that went.  *)
Process ==
  /\ call.pc = "derive"
  /\ \E kinds \in [DOMAIN call.evidence -> SignalKinds] :
       LET batch == IngestBatch(ledger, EventsOf(kinds))
           allowed == \A i \in DOMAIN kinds :
                        kinds[i] # "none" => SignalOfAllowed(call.evidence[i], kinds[i])
       IN  IF allowed /\ ~batch.refused
           THEN /\ ledger' = batch.ledger
                /\ cursor' = call.next
                /\ sweep' = [sweep EXCEPT !.got = @ \cup {call.got[i].record : i \in DOMAIN call.got},
                                          !.complete = call.next = NoCursor]
                /\ call' = Idle
           ELSE Abandon
  /\ UNCHANGED <<settings, served, arrived, clock, reads, faults>>

(* Whatever is awaited may reject.                                          *)
Fails ==
  /\ call.pc # "idle" /\ faults < MaxFaults /\ faults' = faults + 1
  /\ Abandon
  /\ UNCHANGED <<settings, served, arrived, clock, reads>>

-----------------------------------------------------------------------------
(* The world: an activity is published or taken back, time passes.          *)
Publish ==
  /\ settings.adapter = "outbox" /\ arrived < Len(Arriving)
  /\ arrived' = arrived + 1
  /\ served' = <<Arriving[arrived + 1]>> \o served
  /\ UNCHANGED <<settings, clock, call, cursor, ledger, sweep, reads, faults>>

TakeBack ==
  /\ settings.adapter = "outbox" /\ faults < MaxFaults /\ faults' = faults + 1
  /\ \E i \in DOMAIN served : served' = SubSeq(served, 1, i - 1) \o SubSeq(served, i + 1, Len(served))
  /\ sweep' = [sweep EXCEPT !.shrunk = TRUE]
  /\ UNCHANGED <<settings, arrived, clock, call, cursor, ledger, reads>>

Tick ==
  /\ clock < MaxTime /\ clock' = clock + 1
  /\ UNCHANGED <<settings, served, arrived, call, cursor, ledger, sweep, reads, faults>>

Next ==
  \/ Begin \/ Authorize \/ ReadActor \/ ReadRoot \/ ReadPage \/ RefusePage
  \/ Fetch \/ FetchLocal \/ ReadThrows \/ Gate \/ Process \/ Fails
  \/ Publish \/ TakeBack \/ Tick

Spec == Init /\ [][Next]_vars

-----------------------------------------------------------------------------
(* The parts that must agree whatever the adapter: only an idle call holds    *)
(* nothing, and the ledger's events are of records there are.               *)
TypeOK ==
  /\ call.pc \in {"idle", "authorize", "actor", "page", "fetch", "gate", "derive"}
  /\ Len(call.got) <= Limit
  /\ \A e \in ledger.operations : e.record \in DOMAIN Raw

(* A record its author addressed to some only: in a word of its own, or by     *)
(* its addressees.                                                          *)
PrivateWords == {"private", "followers_only", "direct", "mentioned_only", "mutuals_only", "local_only"}

AddressedToSome(raw) ==
  IF settings.adapter \in {"outbox", "inbox"}
  THEN IF raw.visibility # "none" THEN raw.visibility \in PrivateWords
       ELSE raw.hidden \/ ("public" \notin raw.to \cup raw.cc /\ raw.to \cup raw.cc # {})
  ELSE settings.adapter \in {"publicTimeline", "homeTimeline"} /\ raw.visibility \in {"private", "direct"}

(* What its author addressed to some only is learned from under an            *)
(* authorization for private data alone, and never as a liking: the mapping, *)
(* the normalizer, the cover check and the signal policy each do a part.     *)
PrivateStaysPrivate ==
  \A e \in ledger.operations :
    AddressedToSome(Raw[e.record]) => RequiresPrivateRead(e.auth) /\ e.action = "hide"

(* Whatever was learned was allowed by the policy its read began with, and    *)
(* in the mode that fails closed the audit of it was recorded first.        *)
LearnedWithConsent ==
  \A e \in ledger.operations : e.consented /\ (settings.failClosed => e.audited)

(* A sweep that ends has read every public activity the outbox had when it    *)
(* began, however the pages moved, unless one was taken back meanwhile.      *)
SweepReadsAll == sweep.complete /\ ~sweep.shrunk => sweep.due \subseteq sweep.got

(* docs/public-only-signal-policy.md: unlisted content is not treated as      *)
(* explicitly public discovery evidence.                                    *)
UnlistedIsNotAffinity ==
  \A e \in ledger.operations :
    settings.adapter = "outbox" /\ "public" \notin Raw[e.record].to => e.action # "like"

(* docs/normalized-evidence-pipeline.md: repeated reads of a source event     *)
(* produce stable identifiers, which the ledger deduplicates.               *)
RepeatedReadsAreDuplicates ==
  call.pc = "derive" =>
    \A i \in DOMAIN call.evidence, kind \in {"like", "hide"} :
      Known(ledger, EventOf(call.evidence[i], kind))
        => \E p \in ledger.operations : /\ p.op = EventOf(call.evidence[i], kind).op
                                        /\ p.at = EventOf(call.evidence[i], kind).at
=============================================================================
