----------------------------- MODULE ProfileStore -----------------------------
(***************************************************************************)
(* createInMemoryRecommendationProfileStore for one subject, and the       *)
(* snapshot normaliser the persistence layer puts what the store returns   *)
(* through.  Targets are numbered in the order of compareTargets, scores   *)
(* and confidences are integers in units of 1/One, and a missing expiry is *)
(* a time after every other.  Protocols and visibilities are summarised    *)
(* as the privacy boundaries are, and are left out.                        *)
(***************************************************************************)
EXTENDS Integers, FiniteSets, Sequences

CONSTANTS Targets,      \* the canonical targets, numbered in their order
          Batches,      \* the signal sequences ingestSignals is called with
          AllowedBoundaries,
          MaxEntries,
          One,          \* the score 1
          MaxTime,      \* bound on the clock
          MaxIngests,   \* bound on ingestSignals calls
          Never,        \* the expiry of what does not expire
          NoProfile

Boundaries == {"local_only", "server_allowed", "aggregate_only"}

Signals == [target : Targets, polarity : {"positive", "negative", "neutral"},
            weight : 0 .. One, confidence : 0 .. One, boundary : Boundaries,
            observed : 0 .. MaxTime, expires : 0 .. Never]

ASSUME ProfileAssumption ==
  /\ Targets \subseteq Nat /\ IsFiniteSet(Targets)
  /\ One \in Nat \ {0} /\ MaxEntries \in Nat \ {0}
  /\ MaxTime \in Nat /\ MaxIngests \in Nat
  /\ Never \in Nat /\ Never > MaxTime
  /\ AllowedBoundaries \subseteq Boundaries
  /\ \A b \in Batches : b \in Seq(Signals)

VARIABLES profile,   \* profiles.get(subjectId), or NoProfile
          clock,
          ingests,
          saved      \* a snapshot the store returned, or NoProfile

vars == <<profile, clock, ingests, saved>>

Later(a, b) == IF a >= b THEN a ELSE b
-----------------------------------------------------------------------------
(* clampUnitScore                                                          *)
Clamp(score) == IF score > One THEN One ELSE IF score < -One THEN -One ELSE score

(* signalDelta                                                             *)
Delta(s) == CASE s.polarity = "positive" -> s.weight
              [] s.polarity = "negative" -> -s.weight
              [] OTHER -> 0

Counts(s, polarity) == IF s.polarity = polarity THEN 1 ELSE 0

(* createMutableEntry                                                      *)
Fresh(s, now) ==
  [score |-> Clamp(Delta(s)), confidence |-> s.confidence, count |-> 1,
   positive |-> Counts(s, "positive"), negative |-> Counts(s, "negative"),
   neutral |-> Counts(s, "neutral"), boundaries |-> {s.boundary},
   updated |-> Later(now, s.observed), expires |-> s.expires]

(* applySignalToEntry: latestExpiration keeps an entry for ever once one   *)
(* of its signals has no expiry.                                           *)
Applied(e, s, now) ==
  [score |-> Clamp(e.score + Delta(s)), confidence |-> Later(e.confidence, s.confidence),
   count |-> e.count + 1,
   positive |-> e.positive + Counts(s, "positive"),
   negative |-> e.negative + Counts(s, "negative"),
   neutral |-> e.neutral + Counts(s, "neutral"),
   boundaries |-> e.boundaries \cup {s.boundary},
   updated |-> Later(e.updated, Later(now, s.observed)),
   expires |-> Later(e.expires, s.expires)]

(* One signal of the batch: the entry, the total and the date.             *)
WithSignal(p, s, now) ==
  [updated |-> Later(p.updated, now), count |-> p.count + 1,
   entries |-> [t \in DOMAIN p.entries \cup {s.target} |->
                  IF t # s.target THEN p.entries[t]
                  ELSE IF t \in DOMAIN p.entries THEN Applied(p.entries[t], s, now)
                  ELSE Fresh(s, now)]]

(* The sum of the counts of some entries: one pair for each signal counted. *)
CountOf(entries, ts) == Cardinality(UNION {{t} \X (1 .. entries[t].count) : t \in ts})

Without(p, ts) == [p EXCEPT !.entries = [t \in DOMAIN p.entries \ ts |-> p.entries[t]]]

ExpiredTargets(entries, now) == {t \in DOMAIN entries : entries[t].expires <= now}

AtLeastZero(n) == IF n < 0 THEN 0 ELSE n

(* pruneExpiredEntries                                                     *)
Pruned(p, now) ==
  LET gone == ExpiredTargets(p.entries, now)
      removed == CountOf(p.entries, gone)
  IN  IF removed = 0 THEN Without(p, gone)
      ELSE [Without(p, gone) EXCEPT !.count = AtLeastZero(p.count - removed),
                                    !.updated = Later(p.updated, now)]

Strength(e) == IF e.score < 0 THEN -e.score ELSE e.score

(* compareProfileEntries                                                   *)
Before(entries, t, u) ==
  \/ Strength(entries[t]) > Strength(entries[u])
  \/ Strength(entries[t]) = Strength(entries[u]) /\ t < u

Dropped(entries) ==
  {t \in DOMAIN entries : Cardinality({u \in DOMAIN entries : Before(entries, u, t)}) >= MaxEntries}

\* Mutant of Trimmed: the dropped entries stay in the total.
TrimmedWithoutTotal(p) == Without(p, Dropped(p.entries))

(* trimSortedEntries: the strongest MaxEntries entries are kept.           *)
Trimmed(p) ==
  LET out == Dropped(p.entries)
  IN  [Without(p, out) EXCEPT !.count = AtLeastZero(p.count - CountOf(p.entries, out))]

(* prepareSignalBatch: one disallowed boundary refuses the whole batch,    *)
(* expired signals are skipped.                                            *)
BatchAllowed(batch) == \A i \in DOMAIN batch : batch[i].boundary \in AllowedBoundaries

Accepted(s, now) == s.expires > now

EmptyProfile(now) == [updated |-> now, count |-> 0, entries |-> <<>>]

Base(now) == IF profile = NoProfile THEN EmptyProfile(now) ELSE profile

(* The accepted signals of a batch, one after the other.                   *)
WithBatch(p, batch, now) ==
  LET after[i \in 0 .. Len(batch)] ==
        IF i = 0 THEN p
        ELSE IF Accepted(batch[i], now) THEN WithSignal(after[i - 1], batch[i], now)
        ELSE after[i - 1]
  IN  after[Len(batch)]

Ingested(batch, now) == Trimmed(Pruned(WithBatch(Base(now), batch, now), now))
-----------------------------------------------------------------------------
Init == profile = NoProfile /\ clock = 0 /\ ingests = 0 /\ saved = NoProfile

(* ingestSignals, with the time of the clock or one the caller gives.      *)
IngestSignals(batch, now) ==
  /\ ingests < MaxIngests
  /\ BatchAllowed(batch)
  /\ profile' = Ingested(batch, now)
  /\ saved' = profile'
  /\ ingests' = ingests + 1
  /\ UNCHANGED clock

IngestRefused(batch) ==
  /\ ~BatchAllowed(batch)
  /\ UNCHANGED vars

(* readProfile prunes the profile it holds before it copies it.            *)
ReadProfile ==
  /\ profile' = IF profile = NoProfile THEN NoProfile ELSE Pruned(profile, clock)
  /\ saved' = saved
  /\ UNCHANGED <<clock, ingests>>

DeleteProfile ==
  /\ profile' = NoProfile /\ saved' = NoProfile
  /\ UNCHANGED <<clock, ingests>>

Tick == clock < MaxTime /\ clock' = clock + 1 /\ UNCHANGED <<profile, ingests, saved>>

Next ==
  \/ \E batch \in Batches, now \in 0 .. clock : IngestSignals(batch, now)
  \/ \E batch \in Batches : IngestRefused(batch)
  \/ ReadProfile \/ DeleteProfile \/ Tick

Spec == Init /\ [][Next]_vars
-----------------------------------------------------------------------------
(* normalizeEntry: what a stored entry must satisfy.                       *)
EntryAccepted(e) ==
  /\ e.positive + e.negative + e.neutral = e.count
  /\ e.score \in -One .. One /\ e.confidence \in 0 .. One
  /\ e.boundaries # {}

(* normalizeRecommendationProfileSnapshot throws unless this holds.        *)
SnapshotAccepted(p) ==
  /\ p.count >= 0
  /\ \A t \in DOMAIN p.entries : EntryAccepted(p.entries[t])
  /\ p.count = CountOf(p.entries, DOMAIN p.entries)

\* Mutant of Normalized: an entry that expires now is kept.
NormalizedLate(p, now) ==
  LET gone == {t \in DOMAIN p.entries : p.entries[t].expires < now}
  IN  [Without(p, gone) EXCEPT !.count = CountOf(p.entries, DOMAIN p.entries \ gone),
                               !.updated = IF gone = {} THEN p.updated ELSE Later(p.updated, now)]

(* ... and returns this when it is given a time to prune at.               *)
Normalized(p, now) ==
  LET gone == ExpiredTargets(p.entries, now)
  IN  [Without(p, gone) EXCEPT !.count = CountOf(p.entries, DOMAIN p.entries \ gone),
                               !.updated = IF gone = {} THEN p.updated ELSE Later(p.updated, now)]
-----------------------------------------------------------------------------
TypeOK ==
  /\ profile = NoProfile \/ (DOMAIN profile.entries \subseteq Targets /\ profile.updated \in Nat)
  /\ clock \in 0 .. MaxTime /\ ingests \in 0 .. MaxIngests

(* Whatever sequence of batches, expiries, trims and reads made it, the    *)
(* store's profile passes the check a persisted snapshot must pass: the    *)
(* running total never drifts from the entries that are left, although it  *)
(* is adjusted in three places, and every score stays in its range.        *)
StoreStaysPersistable == profile # NoProfile => SnapshotAccepted(profile)

(* A snapshot that was persisted and is read back later shows the same     *)
(* entries and total as the store that went on living: both expire an      *)
(* entry at the same instant.  (The dates may differ: the store prunes at  *)
(* each read, the persisted copy only once.)                               *)
PersistedCopyAgrees ==
  saved # NoProfile =>
    LET copy == Normalized(saved, clock)
        live == Pruned(profile, clock)
    IN  copy.entries = live.entries /\ copy.count = live.count

=============================================================================
