# Open Interest Clusters: a TLA+ verification development

The repository is a TypeScript library for local-first interest recommendation:
it collects interest signals, aggregates them per subject into a profile,
derives embeddings, candidates and explanations from the profile, and serves
recommendations. This directory holds TLA+ models of its stateful parts, TLC
configurations that check them on small instances, and proofs for TLAPS.

## 1. Inventory

All paths are under `src/`. "Subject" is the user a profile is about.

| Component | State | Operations | What is hard, what makes it correct |
|---|---|---|---|
| Subject serialization (`runSerialized`, four copies: engine, profile application, replacement store, derived state) | map subject -> tail promise | run a piece of work for a subject | interleaved calls; removal of the right map entry; throwing calls. FIFO, mutual exclusion, no leak, no call stranded |
| Signal ledger (`recommendation/signal-ledger.ts`) | operations, active signals, tombstones | ingest, ingestBatch, listActiveSignals, snapshot, clear | duplicates, reordering, retract before apply, failing batches, limit. Convergence, no resurrection, one contribution per source |
| Engine orchestrator (`engine-orchestrator.ts`) | durable event log per subject; maps of cached logs and ledgers | process, synchronize, readProfile, readLedgerSnapshot, deleteSubject | crash or rejected await between save, maps and profile; restart replay; deletion barrier; stale call times |
| Profile application and replacement store | tails; one profile store per subject | synchronize; replaceSignals, readProfile, deleteProfile | reads among mutations |
| Derived-state invalidation (`derived-state-invalidation-orchestrator.ts`) | task journal, checkpointed digest, tails | process, synchronize, repair, deleteSubject | crash between any two awaits, resumption, deletion not overtaken, nothing stale left |
| Profile store (`profile-store.ts`) | entries with scores, counts and expiry | ingestSignals, readProfile, deleteProfile | clamping, trimming, expiry |
| Profile persistence (hardened and plain operations, ActivityPods adapter) | external records, grants | write and verify, read, delete, conditional writes | concurrent writers, garbled records, grants revoked between two requests |
| ANN orchestration (`ann/`) | failure counts, circuits, active provider, configuration | upsert, delete, search, restore, reconfigure | retry, fallback, circuit breaker, writes that fail over, handlers that throw |
| Source adapters, evidence pipeline, consent, public-signal policy | cursor kept by the host, ledger | read a page, pass the gate, derive signals, ingest | paging over a growing collection, partial failure, what is private or without consent never learned from |
| ActivityPods live outbox | grant, seen mutations | watch | revocation during a subscription, repeated and late frames |
| ATProto labels (query, subscribe, policies) | cursor, labels | consume, query, classify | lost cursor, negation, expiry, order of definitions |
| Provider discovery | cache of descriptors | discover | bounded concurrency, observations that expire while others are awaited |
| Candidate eligibility | none between calls | evaluate | accounts that move and are blocked between three questions |
| First session (`first-session-orchestrator.ts`, cold start, scoring, serving) | none between calls | generate, evaluate, score, rerank, serve | three worker pools whose workers settle in any order, evaluators that speak of somebody else |
| File stores (`entities/cache.ts`, `scoring/feedback-store.ts`) | memory map, loaded flag, write chain | get, set, upsert | load racing with use, failed writes |
| Onboarding, catalogs, embedding lifecycle, semantic refresh, retry policy, graphs, bandits | mostly per call | parse, score, refresh | see section 5 |

`PROJECT.json` lists every component with its files and status, and under
`hazards` what is hard to test, each at its line with the properties for it.

### How the core interacts

```
 client -> derived-state orchestrator --(await)--> engine orchestrator -> state store (durable log)
             | task store, checkpoint store             | ledger rebuilt from the log
             | invalidators (caches)                    | profile application -> replacement store -> profile store
```

```
 provider -> source adapter -> consent gate -> evidence pipeline -> signal ledger
 pod outbox -> watch -> host mirror           labeler -> stream, query -> label state -> signals, effects
 profile + sources -> candidates -> eligibility -> scoring -> serving
 profile snapshot <-> persistence (device store, Pod)      embeddings -> ANN providers
```

Every arrow is an awaited promise, and each orchestrator has its own
per-subject promise chain. A call for a subject therefore runs alone in its
orchestrator, but between two of its awaits the process may stop, and any await
may reject with or without having taken effect.

## 2. Modules

| Module | Models | State and actions against the code |
|---|---|---|
| `SubjectQueue` | what serialization promises: a FIFO queue per subject | `Join`, `Run`, `Leave` |
| `SubjectSerializer` | the promise chain | `tails` is the map, a tail is named by the call that made it, `prior[c]` is the captured tail. `Enter` is the synchronous part of `runSerialized`, `Start` the continuation of `await ready`, `Settle` the `finally` block, `ReadBegin`/`ReadEnd` `awaitSubjectMutations` followed by the read. `ahead` is a history variable |
| `LedgerOps` | the ledger as a value | `Ingest`, `Refused`, `IngestBatch`, `ActiveAt`; no variables, used by the two modules below |
| `SignalLedger` | ledgers under adverse delivery | `IngestNext` is one turn of the loop of `ingestBatch`, `Throw` the event that ends a batch |
| `EngineOrchestrator` | the engine for one subject | `durable` is what `stateStore.load` returns, `cached` and `ledger` the maps, `profile` the signals aggregated in the profile store, `call` the call in flight with its phase (its next await). `Loads` is `loadState`; every phase has a completing action and a rejecting one (`...Rejects`); `Crash` empties the maps and may lose the profile |
| `DerivedState` | the derived-state orchestrator composed with the engine (EXTENDS it) | `task` and `checkpoint` are the two stores, `caches` what the invalidators empty, `dcall` the call in flight. The engine's own actions are the steps inside `await options.engine...`; `Recover` is `recoverPending`, `Journal` `taskStore.save`, `Invalidate` a turn of `drainDerived`, `Checkpoint`/`Close` its end, `Rejects` a rejected await |
| `ProfileStore` | the additive store and the persisted snapshot of its profile | `profile` is the stored profile, `saved` the copy persisted. `Ingested` is a whole `ingestSignals` call: refusals, aggregation with clamping, pruning of what expired, trimming to the maximum. `Normalized` is what parsing a snapshot makes of it |
| `Consent`, `StatePlacement` | the consent decision; storage authority and placement rules | operators, one per rule; the grounds of a denial are a set |
| `ProfilePersistence` | one profile persisted by several devices | one phase per await: grant, entity tag, conditional request, read back, cleanup. `store` is the Pod's document with its tag; requests may fail with or without effect, be garbled, and grants change at any time |
| `AnnRouting` | which providers a configuration admits and in which order | operators |
| `AnnOrchestrator` | provider orchestration and reconfiguration | one generation per orchestrator made, clients suspended at one await each (`wait`), with the stage of their operation; provider outcomes, handlers and probes may fail |
| `SourceContext`, `SourceRecords`, `SignalPolicy` | what a context is taken from authorization and record; how a record becomes a source item; which signals may exist | operators |
| `SourceIngestion` | reading page by page into the ledger | `call` is a read with the await it is at: root or actor, page, gate, audit, derivation, ingestion; `cursor` is the host's. `ledger` is a ledger of `LedgerOps` |
| `LiveOutbox` | the watch of a Pod's outbox | `watch` is the loop with its frame in hand, `mirror` what the host makes of the mutations |
| `LabelSemantics`, `Labels` | evidence, classification and effect of a label; consuming a labeler's stream and querying it | `consumption` and `query` are the two calls, `checkpoint` the cursor the host keeps, `labels` its merged state; a label is evaluated at a time or without one. `queried` is a history: the targets whose label a query brought |
| `ProviderDiscovery` | discovery with probes, retries and cache | `discovery` holds probes running, attempts and answers; each await may take time |
| `Eligibility` | one candidate's eligibility | `evaluation` is the question being awaited, `world` the accounts, which change meanwhile |
| `ColdStart` | validation, merge, match, scoring and serving of candidates | operators |
| `FirstSession` | a session from the profile to the recommendations | `stage` is the await the session is at, `pool` the workers of the stage, `results` what they stored by index; `answered` is a history |
| `MC...` | constants of the TLC runs | |
| `...Proofs` | theorems and proofs | |

Abstractions. An operation ID is its rank in the order of its hashed key, a
digest is the event itself (hashes are taken as injective). A profile is the set
of signals aggregated in it: scores and counts are functions of that set and its
order. The signals of one target form one entry and expire together, as in
`pruneExpiredEntries`. `semanticProfileDigest` is the profile itself. Validation
of malformed input, freezing and cloning are left out. `DerivedState` takes
`dcall.op` for the five ways of calling: the orchestrator is assumed to be the
only client of its engine, as it is when it wraps it.

In the modules about data from outside, a record carries the set of its parts
that the validators accept (`sound`), and a part that is not in it makes the
validator throw where the code calls it. Addressees are classes of recipients,
hashes are the values hashed, endpoint and protocol names model values. In
`SourceIngestion` the consent policy is chosen when a read begins; pages are cut
from a list of numbers, newest first. In `AnnOrchestrator` event histories and
metrics are left out and a failure count stops at the threshold. In
`Eligibility` a policy judges the account it is given, as it is at that moment.
In `ColdStart` scores are integers in hundredths, `tanh` is a cap, ties are
ordered by the account's number, and the queries sent to remote sources are left
out. In `FirstSession` a session that fails or is aborted ends there: what its
workers still do is seen by nobody.

## 3. Runs

| Run | Instance | Question | Bounds and why they are enough |
|---|---|---|---|
| `serializer` | 3 calls and a read of one subject, 1 call of another | is the promise chain a FIFO lock, leak-free and live, and does it implement `SubjectQueue`? | three calls are needed for the hazard of removing a tail: one settles, one waits, one arrives |
| `ledger` | 2 ledgers, 7 colliding events, batches up to 2, limit 4 | convergence, no resurrection, one contribution per source | the events contain each kind of collision once (same operation, other content; same source, other operation; two tombstones at one time); the limit is below the number of operations, so it is reached |
| `engine` | 5 events in 5 batches, clock 0..1, 2 failures | what survives crashes, rejected awaits, replays and deletions, and does the profile catch up? | two failures allow a save that rejected after writing to be followed by a crash; the clock passes an expiry; one source is refused by the profile store |
| `derived` | 3 events, 2 targets, clock 0..1, 1 failure | is a journaled deletion finished and never overtaken, are finished rounds complete? | a failure or crash is possible at each await; two targets give a last and a not-last one; `AllowEmptySubjectInitialization` is TRUE here and FALSE in `engine`, so both ways of `loadState` are reached |
| `profile_store` | 3 targets for 2 places, 5 batches, clock 0..2, 4 ingestions | does the stored profile always pass the persistence layer, and does a persisted copy show what the store would? | batches push a score past both ends, expire apart, trim, are dated in the past, and contain a refused signal |
| `persistence` | 2 devices, 2 writes, clock 0..1, 2 failures; device store and Pod manifests | are writes within consent and placement, verified, conditional, and stopped by revocation? | two writers suffice for every overwrite; a failure may lose an answer, garble a record or change a grant |
| `ann` | 2 clients, 3 providers of the three persistences, 2 configurations in a row, 3 faults | do routing, circuits and failing over keep what configuration and callers were promised? | a threshold of 2 and a cooldown of 1 with a clock of 0..1 open and close circuits; three faults fail an operation, its retry and a handler |
| `sources` | seven settings, see below | what the source side promises, part by part | see below |
| `cleanup`, `unlisted`, `repeated_reads` | as `persistence` with one failure; as `sources` | documents against the code | violations, see section 6 |
| `retraction` | as `derived`, clock 0, durable profile store | README.md:31 and :208 against the code | a violation, see section 6 |

`sources` checks six independent parts in one instance: `part` is chosen in the
initial state, and only that part moves, so the states add up and do not
multiply. The bounds of each part:

- ingestion: 16 records of every kind the gates tell apart, a page of 3, a limit
  of 2, 3 reads, one arrival during a sweep, one fault. A limit below the page
  size leaves cursors inside a page, which an arrival then shifts;
- live outbox: 2 resources (symmetric), 3 frames, 2 mutations, 2 watches, 3
  changes of outbox or grant, one fault (a repeated or late frame, a stream that
  breaks);
- labels: 4 frames of which a consumption takes 2, 3 labels at most, pages of 1,
  4 calls, one fault. The frames contain a label and its negation made at the same
  time, an expiry, an old label and a stranger's label; five lexicons disagree
  about one value. All labels have that one value, so a target stands for the key
  of target and value that the code merges by;
- discovery: 2 probes one at a time, 2 attempts, a clock of 0..2, 2 discoveries
  (the second meets the cache of the first), one fault. Another discovery, that of
  another provider under the same key included, may have written the cache;
- eligibility: 3 accounts with up to two moves (`MaxMoves` is 2 here, 5 in the
  code), 2 changes of the world, one fault;
- session: 4 requests over 3 sources with two answers each, pools of 2, 2 faults.
  The answers contain the same account under two names, a verified account seen
  by a third party in the same place, more places than are kept and an answer
  that is refused whole.

Deadlock is checked except in `serializer`, `ann`, `sources` and the runs on the
instance of `sources`, where the calls end and nothing remains to do.

Each property has a mutant, a plausible bug in the definition named in
`PROJECT.json` under which TLC finds it violated: the entry removed
unconditionally, the tombstone tie decided by arrival, the store not consulted
after a restart, the batch ingested without history, the last target dropped.

### Properties

`SubjectSerializer`: `MutualExclusion`, `ReadAfterEarlierMutations`,
`NoTailLeak`, `EveryCallSettles` (liveness), `ImplementsQueue` (refinement).
`SignalLedger`: `OneContributionPerSource`, `Convergence`, `NoResurrection`
(action property). `EngineOrchestrator`: `AcknowledgedEventsAreDurable`,
`RetractedSignalStaysOut`, `DeletionIsFinal`, `LogReplays`, `ProfileCatchesUp`
(liveness). `DerivedState`: `DeletionReachesCaches`, `AccountedCachesAreFresh`,
`DeletionNotOvertaken` (action property), `JournaledDeletionCompletes`
(liveness), and `RetractionReachesCaches`, which the code does not have.
`ProfileStore`: `StoreStaysPersistable`, `PersistedCopyAgrees`.
`ProfilePersistence`: `StoredWithinPolicy`, `VerifiedMeansStored`,
`RevocationStopsChanges`, `NoBlindOverwrite` (action property), and
`CorruptedWritesAreCleanedUp`, which the code does not have.
`AnnOrchestrator`: `WithinDeployment`, `CircuitRespected`,
`AnswersNameTheServer`, `WritesSentOnce`. `SourceIngestion`:
`PrivateStaysPrivate`, `LearnedWithConsent`, `SweepReadsAll`, and
`UnlistedIsNotAffinity` and `RepeatedReadsAreDuplicates`, which the code does not
have. `LiveOutbox`: `NothingAfterRevocation`, `RemovedStaysOut`. `Labels`:
`NothingSkipped`, `LabelsConverge`, `EvidenceIsCurrent`, `LabelEffectsOrderFree`.
`ProviderDiscovery`: `ResolvedIsCurrent`. `Eligibility`:
`ServedOnCurrentIdentity`. `FirstSession`: `RecommendedIsVouched`,
`AsIfSequential`: what three pools serve is what one worker would have served.

### Fairness

- `SubjectSerializer`: continuations of a resolved promise run, and the work of
  a call settles, if only by failing. The JavaScript event loop gives the first;
  the second is a demand on the stores. Nothing is assumed about calls arriving.
- `EngineOrchestrator`: awaits of the call in flight settle (`WF` of
  `Progress`); rejections and crashes are not fair and bounded by
  `MaxFailures`; and a client goes on calling `synchronize` with the current
  time (`SF`, since other calls keep disabling it), without which no library can
  repair anything. Requests of other kinds may go on for ever.
- `DerivedState`: awaits settle, and some operation, no matter which, is called
  again after the last one: every operation works off the journal first.
- The other modules state safety only. Their awaits are requests to strangers
  without a deadline of the library's own (a provider's operation, a labeler's
  stream, a policy), so that nothing is claimed to end.

## 4. Proofs

TLAPS checks these for every value of the constants that the named assumptions
admit.

Every safety invariant and action property of the passing runs is proved, each
from an inductive invariant of its module's specification, and the promise chain
is proved to implement its queue as far as safety goes. TLC has checked the same
properties on the instances of section 3. The invariants the proofs add are:

- `SchedulingProofs`, `SubjectSerializer`. Mutual exclusion is not inductive by
  itself; `IInv` adds `AheadOK` (the calls made before are linearly ordered by
  arrival), `TailIsLast` (the stored tail belongs to the last call made, and is
  missing only if all have settled) and `Chain` (the captured tail is that of the
  last of the calls ahead): `SerializerOrder`, `SerializerReadsWait`,
  `SerializerNoTailLeak`. `LineInv` adds that the order is transitive and that
  finitely many calls were made. A call then has one place in its subject's line,
  the number of unsettled calls ahead of it, and `SerializerRefinesQueue` shows
  that `Enter` is `Join`, `Start` is `Run`, `Settle` is `Leave` of `SubjectQueue`,
  and a read a stutter. Assumption: `SerializerAssumption`.
- `SchedulingProofs`, `FirstSession`. `SessionInv` says, stage by stage, that what
  has been collected is a function of what was answered and not of when: the
  workers' results by index hold exactly the answers to the jobs that are
  through (`GeneratingOK`, `EvaluatingOK`, `FeaturesOK`). What is generated from
  the answers does not depend on their order, since merging takes a set of
  reports and sorting by a strict total order gives one list (`SortedLists`,
  `SameReports`): `SessionAsIfSequential`. The origin of every candidate is
  carried through the stages with it: `SessionIsVouched`. Assumption:
  `SessionAssumption` (requests, profiles and answers have the types the
  validators enforce, and a candidate's number stands for its id).
- `SignalLedgerProofs`. Active signals and tombstones are functions of the set of
  accepted events (`ActiveExact`, `TombstonesExact`), so that order is
  irrelevant: `LedgerConvergence`, `LedgerCountsOnce`, `LedgerNoResurrection`.
  The lemmas about `Newer` use that two events with different operations are
  ordered one way. Assumptions: `LedgerAssumption`, `BatchAssumption`.
- `LedgerOpsProofs`. What a batch leaves in a ledger, for every batch:
  `IngestBatch` is a recursive function over the batch, and its run is described
  by the sequence of ledgers it goes through. Its existence is proved with
  `SetInduction`, which replaces induction over `Nat` by the well-foundedness of
  the order, so that no theorem takes an operator.
- `EngineProofs`, `EngineOrchestrator`. `IInv`: the barrier is written before the
  profile is erased (`BarrierBeforeErasing`), and after a deletion no call in
  flight other than another deletion has got past loading (`NothingGetsPast`):
  `EngineDeletionIsFinal`. `LogInv`: the stored log, and the log a save in flight
  writes, are accepted by a fresh ledger without a refusal (`LogsReplay`), what is
  acknowledged is in both (`NothingLost`), and a cached or loaded state replays
  its own log (`SavingOK`, `ApplyingOK`): `EngineLogReplays`,
  `EngineAcknowledgedEventsAreDurable`, and with the ledger's resistance to
  resurrection `EngineRetractedSignalStaysOut`. Assumptions: `EngineAssumption`,
  `LedgerAssumption`, `SentinelAssumption` (no state is not a state).
- `EngineProofs`, `DerivedState`, on top of the engine's invariant. An operation
  reaches the engine only with an empty journal (`RecoveryFirst`), a deletion task
  gets to its second phase only after the engine's deletion has returned, and
  every target is then pending or clean (`TasksSound`):
  `DerivedDeletionReachesCaches`, `DerivedDeletionNotOvertaken`.
  `DerivedAccountedCachesAreFresh` needs a second invariant, `Fresh`: while a
  task that is no deletion is journaled, the profile is the task's digest or was
  lost to a restart, and in the first case every target that is no longer pending
  holds nothing older. It is inductive because nothing but a deletion reaches the
  engine before the journal is worked off. Assumptions: those of the engine and
  `DerivedAssumption` (a list of different targets).
- `ProfileStoreProofs`. `ProfileOK`: scores within the clamp, counts positive, no
  more entries than places, and the total is what the entries count, which is
  preserved by a whole batch (`WithBatchOK`), by pruning and by trimming. The
  total is a cardinality (`CountOf`), so that adding and removing an entry are
  facts about disjoint finite sets. `StoreInv` adds that what is alive in a
  persisted copy is what was alive in the store when it was copied (`AliveAt`):
  `ProfileStaysPersistable`, `ProfilePersistedCopyAgrees`. Assumption:
  `ProfileAssumption`.
- `PersistenceProofs`. In the store phase on a Pod a call's tag is that of the
  document it has seen, tags are handed out once, so no other document satisfies
  its precondition (`KnowsItsTag`): `PersistenceNoBlindOverwrite`. What is stored
  ungarbled is in `intact` (`DocIsIntact`), so a matching read-back is too:
  `PersistenceVerifiedMeansStored`. Who has changed something since the grant
  lapsed has to be authorized again and cannot be (`LateOK`):
  `PersistenceRevocationStopsChanges`. `RequestsAllowed` and `DocAllowed` carry
  what was checked when a call began to what is stored:
  `PersistenceStoredWithinPolicy`. Assumption: `PersistenceAssumption` (besides
  the bounds: a grant expires at a time, the absent tag is no tag, and a garbled
  record equals none that was written).
- `AnnOrchestratorProofs`. `AnnInv`: a client's operation agrees with the route of
  its generation. The provider it is at is in that route, everything it was sent
  to lies before it, an answer names the provider that ran the operation
  (`ClientOK`), and a circuit that was open when the operation began and has been
  since is open now (`ColdIsOpen`). A route has no provider twice, which needs
  that ordering by priority is a permutation (`OrderArranges`):
  `AnnCircuitRespected`, `AnnAnswersNameTheServer`, `AnnWritesSentOnce`,
  `AnnWithinDeployment`. Assumptions: `AnnAssumption` (the first configuration is
  valid and admits a provider), `CandidatesAssumption` (a name stands for one
  provider: circuits are keyed by name).
- `SourceProofs`, ingestion. `LearnInv` follows a record from the page to the
  ledger: past the gate it is allowed, audited where reads fail closed, and has the
  context of its record under the authorization it was read with
  (`EvidenceSound`), from which what is derived follows:
  `IngestionPrivateStaysPrivate`, `IngestionLearnedWithConsent`.
  `SweepCovers`: what is public and still ahead of the cursor, together with what
  was read, covers what was there at the start; arrivals only push records further
  ahead: `IngestionSweepReadsAll`. Assumption: `IngestionAssumption`.
- `SourceProofs`, live outbox. Grants are numbered and a later one takes the place
  of an earlier, so the grant under which a stale frame arrived never holds again
  (`StaleIsUngranted`): `OutboxNothingAfterRevocation`. What the pod lists and what
  the host read since are disjoint from what it was told is removed
  (`ReadSinceRemoved`): `OutboxRemovedStaysOut`. No assumption.
- `SourceProofs`, labels. The labels of a target are ordered by the time they were
  made, and those of one time by their place in the labeler's stream
  (`Supersedes`). `LabelInv`: every label of the passed frames is in the host's
  state or gave way to one that supersedes it (`Stands`, `Reached`). Merging a list,
  even in part or again, keeps what was reached (`ReachedStays`), and merging the
  frame that follows what was reached reaches it too (`FrameMerged`). Of two labels
  of one time the merge keeps the last to arrive (`atproto-labels.ts:334`), which in
  a stream is the last sent; a query answered before it and merged after it breaks
  that order, so the invariant notes the targets a query has set (`queried`) and
  claims for them only that the label is no older: `LabelsNothingSkipped`,
  `LabelsStateConverges`, `LabelsEvidenceIsCurrent`. `LabelsEffectsOrderFree`:
  definitions and policies are found by keys that the validator keeps unique, so a
  permutation of the list finds the same. Assumption: `LabelsAssumption` (the times
  of the labels are numbers and lexicons are ones the validators accept; two labels
  of a target may have one time).
- `SourceProofs`, discovery and eligibility. `DiscoveryInv`: a descriptor that was
  found, or that the cache holds for the provider asked for, is merged from
  observations of what was asked for and contradicts none of higher authority
  (`Faithful`); one of another provider may lie in the cache and is not returned:
  `DiscoveryResolvedIsCurrent`.
  `EligibilityInv`: what has stood against an account through the whole evaluation
  stands now (`StandingStands`), and a question that was answered has ruled out
  everything it is about (`QuestionsAnswered`):
  `EligibilityServedOnCurrentIdentity`. Assumptions:
  `DiscoveryAssumption`, `WorldAssumption`.

The assumptions on constants are evaluated by TLC in the runs. Where a lemma is
about a recursive function (`IngestBatch`, `WithBatch`, `Merged`, the sums of the
scores), it describes a run, a sequence of intermediate results in which each
follows from the one before, whose existence is proved from well-foundedness.
Sorting and counting are written so that no recursion is needed: `Ascending` and
`SortedBy` place each member by the number of those before it, `CountOf` is the
cardinality of a set of pairs.

Only model-checked: liveness (`EveryCallSettles`, `ProfileCatchesUp`,
`JournaledDeletionCompletes`) and the fairness of `ImplementsQueue`, which speak of
what is enabled and are out of the prover's reach.

## 5. Not modelled

`PROJECT.json` gives the reason per component.

- File stores of the entity cache and the feedback store: their races (the flag
  set before the load is awaited, a write chain that stays rejected) are plain to
  see and contradict no document; they are listed as hazards.
- Catalogs, onboarding seeds, curated sets, moderation lists: validated static
  data, parsed per call.
- Graphs, bandits, contextual scores, embeddings, semantic refresh: floating
  point and text digests, for which TLC has no values.
- Retry delays in real time, SQL text, network transports, URL and text
  sanitising.
- Labeler discovery and viewer-safety clients, the binding of an actor's
  documents, action plans, the retrieval of Fediverse eligibility evidence, the
  privacy check of queries to remote candidate sources.

What a next step would add, in this order: the retrieval of Fediverse evidence
(retries, entity tags, stale answers after an error) in front of `Eligibility`;
the onboarding bootstrap in front of the engine; an abstract specification of the
engine (a set of acknowledged events and a profile computed from it) with a proof
that `EngineOrchestrator` implements it.

## 6. Findings

`retraction` (README.md:31, "Durable derived-state invalidation and repair for
... retractions, and deletion"; README.md:208, "deletion and revocation propagate
to derived state"). `ensureCurrentProfilePropagated`
(`derived-state-invalidation-orchestrator.ts:451`) invalidates nothing when the
profile's digest equals the checkpointed one. TLC's counterexample: `repair`
checkpoints the empty profile; `process` applies a signal and then fails before
its task is saved; a cache is filled from the new profile; `process` with the
retraction brings the profile back to the checkpointed digest, reports
"unchanged", and the cache keeps what it derived from the retracted signal.
`AccountedCachesAreFresh` states what does hold: after a completed round nothing
stale is left until the profile changes again.

`cleanup` (docs/privacy-model.md:79, "cleans up corrupted writes").
`verifyWrittenRecord` (`profile-store-persistence-hardening.ts:231`) cleans up
when the adapter returns a record it cannot normalise, but the ActivityPods
adapter itself throws on a corrupted document
(`activitypods-profile-persistence-adapter.ts:309`): the read that verifies
rejects, and the corrupted document stays.

`unlisted` (docs/public-only-signal-policy.md:39, "Unlisted ActivityPub content
is not treated as explicitly public discovery evidence"). The outbox adapter
takes an activity that names the public in `cc` for public
(`activitypub-public-outbox-source-adapter.ts:263`), its item gets the visibility
of the authorization, and the policy judges that alone.

`repeated_reads` (docs/normalized-evidence-pipeline.md:29, "Repeated reads of the
same source event produce stable operation and source-event IDs, allowing the
existing signal ledger to deduplicate retries and replays"). The identifiers are
stable, but `occurredAt` is the time of observation
(`normalized-evidence-pipeline.ts:402`), and the ledger refuses a known operation
with other content.

Seen while modelling, without a run of its own:

- A third party's newer sighting of a candidate in the place where an authority
  vouched for it replaces the trusted one: `provenanceKey`
  (`cold-start-candidate-generation.ts:290`) leaves the trust out. The merged
  candidate is then refused (`CandidateSound`) and the whole generation throws,
  although docs/cold-start-candidate-generation.md:63 isolates the failures of
  sources. `FirstSession` models it: `CollectCandidates` rejects.
- A frame that is within `maxLabels` but not within what is left of it makes a
  consumption throw before its last cursor is returned.
- docs/privacy-model.md:67 has expired labels never become accepted evidence. The
  policy judges expiry only when its optional `now` is given
  (`labeler-signal-policy.ts:67`, `:307`), so a call without it accepts an expired
  label; `EvidenceIsCurrent` claims expiry for the calls that give a time.
- A query answered before a negation of the same time and merged after it brings
  the negated label back: of equal times the last to arrive wins
  (`atproto-labels.ts:334`). `LabelsConverge` and `EvidenceIsCurrent` except it.
- Merging labels with a time drops an expired winner, under which an older label
  may come back when it is delivered again.
- A discovery without an expected application caches a descriptor that names the
  application it found under the key for none, and does not take it from there,
  although docs/recommendation-provider-discovery.md has fresh entries reused.
- The plain `writeRecommendationProfileStoreRecord` evaluates no consent; only
  the hardened operation does.
