-------------------------- MODULE ProviderDiscovery --------------------------
(***************************************************************************)
(* discoverRecommendationProviderCapabilities: probes of a provider are    *)
(* run side by side and retried, what they observed is merged into one     *)
(* descriptor, and the descriptor is cached.  Every await takes time, and  *)
(* observations expire.                                                    *)
(*                                                                         *)
(* The probes, the cache and the clock are external.  Other discoveries    *)
(* write the same cache.                                                   *)
(***************************************************************************)
EXTENDS Naturals, Sequences, FiniteSets, FiniteSetsExt

CONSTANTS Probes,        \* numbers: their order is that of the options
          Observations,  \* for every probe, what it may answer
          Written,       \* descriptors other discoveries may have cached
          Provider,      \* the provider asked for
          Expected,      \* the applications that may be asked for, "none" one of them
          Concurrency, MaxAttempts, MaxClock, MaxDiscoveries, MaxDiscoveryFaults

CapabilityStates == {"supported", "unsupported", "unknown"}

VARIABLES discovery, cache, instant, returned, discoveries, discoveryFaults

discoveryVars == <<discovery, cache, instant, returned, discoveries, discoveryFaults>>

NoDescriptor == [provider |-> "none", application |-> "none", from |-> 0, until |-> 0, bindings |-> {},
                 profiles |-> {}, capabilities |-> {}, merged |-> {}]
NotDiscovering ==
  [pc |-> "off", application |-> "none", raw |-> NoDescriptor, attempts |-> [p \in Probes |-> 0],
   answers |-> [p \in Probes |-> {}], running |-> {}, done |-> {}, found |-> NoDescriptor]
NothingReturned == [descriptor |-> NoDescriptor, at |-> 0, application |-> "none"]

DiscoveryInit ==
  /\ discovery = NotDiscovering
  /\ cache = [a \in Expected |-> NoDescriptor]
  /\ instant = 0 /\ returned = NothingReturned
  /\ discoveries = 0 /\ discoveryFaults = 0

-----------------------------------------------------------------------------
(* normalizeRecommendationProviderDiscoveryObservation                      *)
ObservationSound(o) ==
  /\ o.until > o.from
  /\ o.application = "none" => o.rank = 0 /\ o.profiles = {}

(* normalizeDescriptor                                                      *)
DescriptorSound(d) ==
  /\ d.until > d.from /\ d.bindings # {}
  /\ d.application = "none" => d.profiles = {}
  /\ \A c, other \in d.capabilities : c.name = other.name => c = other

Strong == 2   \* AUTHORITY_RANK.protocol_native

(* resolveApplicationId: what was asked for, or what strong evidence names.   *)
StrongIds(found) == {o.application : o \in {x \in found : x.application # "none" /\ x.rank >= Strong}}
IdentityConflicts(expected, found) ==
  \/ Cardinality(StrongIds(found)) > 1
  \/ expected # "none" /\ StrongIds(found) \ {expected} # {}
ApplicationOf(expected, found) ==
  IF expected # "none" THEN expected
  ELSE IF StrongIds(found) = {} THEN "none" ELSE CHOOSE a \in StrongIds(found) : TRUE

(* resolveApplicationProfiles                                               *)
ProfilesOf(application, found) ==
  UNION {o.profiles : o \in {x \in found : /\ application # "none" /\ x.application = application
                                           /\ x.rank >= Strong}}

(* mergeBindings: of the bindings of one endpoint the one of the highest      *)
(* authority, and of those a verified one.                                  *)
Better(b, other) == b.rank > other.rank \/ (b.rank = other.rank /\ b.verified /\ ~other.verified)
BindingsOf(found) ==
  LET all == UNION {o.bindings : o \in found}
  IN  {b \in all : \A other \in all : other.endpoint = b.endpoint => ~Better(other, b)}

(* mergeCapabilities: the strongest observations of a capability, unknown     *)
(* when they disagree.                                                      *)
CapabilitiesOf(found) ==
  LET all == UNION {o.capabilities : o \in found}
      Strongest(name) == {c \in all : c.name = name /\
                            \A other \in all : other.name = name => other.rank <= c.rank}
      StateOf(name) == IF Cardinality({c.state : c \in Strongest(name)}) = 1
                       THEN (CHOOSE c \in Strongest(name) : TRUE).state ELSE "unknown"
  IN  {[name |-> name, state |-> StateOf(name)] : name \in {c.name : c \in all}}

\* Mutant of Lifetime: valid as long as some observation is.
LifetimeOfTheLongest(found) ==
  [from |-> Max({o.from : o \in found}), until |-> Max({o.until : o \in found})]

(* A descriptor is valid while every observation that went into it is.       *)
Lifetime(found) ==
  [from |-> Max({o.from : o \in found}), until |-> Min({o.until : o \in found})]

(* The resolution throws on another provider's observation, on conflicting    *)
(* identities, without a binding, and without a time at which all are valid.  *)
Resolvable(expected, found) ==
  /\ found # {}
  /\ \A o \in found : o.provider = Provider
  /\ ~IdentityConflicts(expected, found)
  /\ BindingsOf(found) # {}
  /\ Lifetime(found).from < Lifetime(found).until

Descriptor(expected, found) ==
  [provider |-> Provider, application |-> ApplicationOf(expected, found),
   from |-> Lifetime(found).from, until |-> Lifetime(found).until,
   bindings |-> {b.endpoint : b \in BindingsOf(found)},
   profiles |-> ProfilesOf(ApplicationOf(expected, found), found),
   capabilities |-> CapabilitiesOf(found), merged |-> found]

(* Times and ranks are numbers.  A descriptor of the provider that another      *)
(* discovery cached was merged from what its probes answered, or it is not     *)
(* known from what; a descriptor of another provider is any.                 *)
ASSUME DiscoveryAssumption ==
  /\ \A p \in Probes : \A o \in Observations[p] :
       /\ o.until \in Nat
       /\ \A c \in o.capabilities : c.rank \in Nat /\ c.state \in CapabilityStates
  /\ \A d \in Written :
       /\ d.until \in Nat
       /\ d.provider = Provider /\ d.merged # {} =>
            \E a \in Expected :
              /\ d.merged \subseteq UNION {Observations[p] : p \in Probes}
              /\ Resolvable(a, d.merged) /\ d = Descriptor(a, d.merged)

-----------------------------------------------------------------------------
Unchanged == UNCHANGED <<cache, instant, returned, discoveries, discoveryFaults>>
Fault == discoveryFaults < MaxDiscoveryFaults /\ discoveryFaults' = discoveryFaults + 1

Return(d) ==
  /\ returned' = [descriptor |-> d, at |-> instant, application |-> discovery.application]
  /\ discovery' = NotDiscovering

Discover ==
  /\ discovery.pc = "off" /\ discoveries < MaxDiscoveries /\ discoveries' = discoveries + 1
  /\ \E a \in Expected : discovery' = [NotDiscovering EXCEPT !.pc = "cache", !.application = a]
  /\ UNCHANGED <<cache, instant, returned, discoveryFaults>>

(* readFreshCache: the read of the cache is awaited, and may reject.         *)
CacheRead ==
  /\ discovery.pc = "cache"
  /\ \/ /\ discovery' = [discovery EXCEPT !.pc = "judge", !.raw = cache[discovery.application]]
        /\ UNCHANGED discoveryFaults
     \/ Fault /\ discovery' = [discovery EXCEPT !.pc = "probe"]
  /\ UNCHANGED <<cache, instant, returned, discoveries>>

\* Mutant of Reusable: whatever the cache has under the key is of the provider.
ReusableOfAnyone(d) ==
  DescriptorSound(d) /\ d.application = discovery.application /\ d.until > instant

Reusable(d) ==
  /\ DescriptorSound(d) /\ d.provider = Provider
  /\ d.application = discovery.application
  /\ d.until > instant

(* What was read is judged now.  What is of no use is deleted, if it was      *)
(* there at all.                                                            *)
CacheJudged ==
  /\ discovery.pc = "judge"
  /\ IF discovery.raw # NoDescriptor /\ Reusable(discovery.raw) THEN Return(discovery.raw)
     ELSE /\ discovery' = [discovery EXCEPT !.pc = IF discovery.raw = NoDescriptor THEN "probe" ELSE "drop"]
          /\ UNCHANGED returned
  /\ UNCHANGED <<cache, instant, discoveries, discoveryFaults>>

(* bestEffortDelete, before the probes, and after a write that took too long. *)
CacheDropped ==
  /\ discovery.pc \in {"drop", "dropAfter"}
  /\ \/ cache' = [cache EXCEPT ![discovery.application] = NoDescriptor] /\ UNCHANGED discoveryFaults
     \/ Fault /\ UNCHANGED cache
  /\ discovery' = IF discovery.pc = "drop" THEN [discovery EXCEPT !.pc = "probe"] ELSE NotDiscovering
  /\ UNCHANGED <<instant, returned, discoveries>>

(* mapConcurrent: the probes are started in order, a few at a time.          *)
ProbeStarts ==
  /\ discovery.pc = "probe" /\ Cardinality(discovery.running) < Concurrency
  /\ LET waiting == Probes \ (discovery.running \cup discovery.done)
     IN  waiting # {} /\ discovery' = [discovery EXCEPT !.running = @ \cup {Min(waiting)}]
  /\ Unchanged

ProbeSettles(p, answer) ==
  discovery' = [discovery EXCEPT !.running = @ \ {p}, !.done = @ \cup {p}, !.answers[p] = answer]

(* runProbe: an answer that is not sound is no answer.                       *)
ProbeAnswers ==
  \E p \in discovery.running :
    /\ \E o \in Observations[p] : ProbeSettles(p, IF ObservationSound(o) THEN {o} ELSE {})
    /\ Unchanged

(* An error that may be retried is, after a delay, as often as allowed.      *)
ProbeFails ==
  \E p \in discovery.running, retryable \in BOOLEAN :
    /\ Fault
    /\ IF retryable /\ discovery.attempts[p] + 1 < MaxAttempts
       THEN discovery' = [discovery EXCEPT !.attempts[p] = @ + 1]
       ELSE ProbeSettles(p, {})
    /\ UNCHANGED <<cache, instant, returned, discoveries>>

Found == {o \in UNION {discovery.answers[p] : p \in Probes} : o.until > instant}

(* All probes settled: what they observed and is still valid is merged.      *)
Resolve ==
  /\ discovery.pc = "probe" /\ discovery.done = Probes
  /\ LET d == Descriptor(discovery.application, Found)
     IN  discovery' = IF Resolvable(discovery.application, Found) /\ d.until > instant
                      THEN [discovery EXCEPT !.pc = "write", !.found = d]
                      ELSE NotDiscovering
  /\ Unchanged

(* bestEffortWrite                                                          *)
CacheWritten ==
  /\ discovery.pc = "write"
  /\ \/ /\ cache' = [cache EXCEPT ![discovery.application] = discovery.found]
        /\ UNCHANGED discoveryFaults
     \/ Fault /\ UNCHANGED cache
  /\ discovery' = [discovery EXCEPT !.pc = "written"]
  /\ UNCHANGED <<instant, returned, discoveries>>

AfterWrite ==
  /\ discovery.pc = "written"
  /\ IF discovery.found.until > instant THEN Return(discovery.found)
     ELSE discovery' = [discovery EXCEPT !.pc = "dropAfter"] /\ UNCHANGED returned
  /\ UNCHANGED <<cache, instant, discoveries, discoveryFaults>>

(* The caller's signal ends the discovery wherever it looks at it.           *)
DiscoveryAborted ==
  /\ discovery.pc \in {"judge", "drop", "probe"} /\ Fault
  /\ discovery' = NotDiscovering
  /\ UNCHANGED <<cache, instant, returned, discoveries>>

TimePasses ==
  /\ instant < MaxClock /\ instant' = instant + 1
  /\ UNCHANGED <<discovery, cache, returned, discoveries, discoveryFaults>>

OtherWrites ==
  /\ \E a \in Expected, d \in Written : cache[a] # d /\ cache' = [cache EXCEPT ![a] = d]
  /\ Fault
  /\ UNCHANGED <<discovery, instant, returned, discoveries>>

DiscoveryNext ==
  \/ Discover \/ CacheRead \/ CacheJudged \/ CacheDropped \/ ProbeStarts \/ ProbeAnswers
  \/ ProbeFails \/ Resolve \/ CacheWritten \/ AfterWrite \/ DiscoveryAborted \/ TimePasses
  \/ OtherWrites

DiscoverySpec == DiscoveryInit /\ [][DiscoveryNext]_discoveryVars

-----------------------------------------------------------------------------
(* A descriptor returned is of the provider and the application asked for, and *)
(* every observation merged into it is valid still, whatever was awaited      *)
(* since; a capability is called supported only if no observation of the      *)
(* highest authority denies it.                                             *)
ResolvedIsCurrent ==
  returned # NothingReturned =>
    /\ returned.descriptor.provider = Provider
    /\ returned.descriptor.until > returned.at
    /\ returned.descriptor.application = returned.application
         \/ returned.application = "none"
    /\ \A o \in returned.descriptor.merged :
         /\ o.until > returned.at /\ o.provider = Provider
         /\ \A c \in o.capabilities :
              c.state = "unsupported" /\ [name |-> c.name, state |-> "supported"]
                                           \in returned.descriptor.capabilities
                => \E other \in UNION {x.capabilities : x \in returned.descriptor.merged} :
                     other.name = c.name /\ other.rank > c.rank
=============================================================================
