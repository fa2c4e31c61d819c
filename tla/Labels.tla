-------------------------------- MODULE Labels --------------------------------
(***************************************************************************)
(* The labels of an ATProto labeler the subject has subscribed to: the     *)
(* host consumes the labeler's stream of frames (subscribeLabels) from the *)
(* cursor it kept, and now and then queries the labels there are           *)
(* (queryLabels); both end in one state, a label per target.               *)
(*                                                                         *)
(* A frame's sequence number is its place in the stream.  The labeler and  *)
(* its stream are external, and so is the host: its frame handler merges a *)
(* frame into the state, it keeps the last cursor of a consumption that    *)
(* returned, and merges the result of a query.                             *)
(***************************************************************************)
EXTENDS LabelSemantics

CONSTANTS Targets, Labeler,
          Uri,              \* what URI each target has
          Lexicons,         \* [definitions, policies] the app may have for the labeler
          Frames,           \* what the labeler sends: a sequence of sequences of labels
          MaxConsumed,      \* maxFrames of a consumption
          MaxLabels,        \* maxLabels of a consumption, and of a query
          LabelPageSize, MaxLabelPages,
          Times,            \* when labels may be evaluated
          MaxCalls, MaxLabelFaults

(* A label has the time it was made at, which need not be its own: two labels *)
(* of a target may be of one time.  Definitions and policies are normalized:  *)
(* each is of a known kind.                                                 *)
ASSUME LabelsAssumption ==
  /\ IsFiniteSet(Targets) /\ Times \subseteq Nat
  /\ MaxLabels \in Nat /\ LabelPageSize \in Nat
  /\ Frames \in Seq(Range(Frames))
  /\ \A m \in DOMAIN Frames :
       /\ Frames[m] \in Seq(Range(Frames[m]))
       /\ \A l \in Range(Frames[m]) :
            l.target \in Targets /\ l.cts \in Nat \ {0} /\ l.expires \in Nat
  /\ \A lexicon \in Lexicons :
       /\ lexicon.definitions \in Seq(Range(lexicon.definitions))
       /\ lexicon.policies \in Seq(Range(lexicon.policies))
       /\ \A d \in Range(lexicon.definitions) : d.kind \in SemanticKinds
       /\ \A p \in Range(lexicon.policies) : p.kind \in SemanticKinds

VARIABLES sent,          \* frames the labeler has sent
          subscription,  \* the subject's: [made, revoked, labeler]
          consumption,        \* the consumption: [pc, at, frame, last, frames, count]
          checkpoint,    \* the cursor the host keeps
          labels,        \* the host's state: target -> label
          queried,       \* history: the targets whose label a query brought
          query,         \* the query: [pc, cursor, pages, got, seen]
          labelCalls, labelFaults

labelVars ==
  <<sent, subscription, consumption, checkpoint, labels, queried, query, labelCalls, labelFaults>>

NotConsuming == [pc |-> "off", at |-> 0, frame |-> 0, last |-> 0, frames |-> 0, count |-> 0]
NotAsking == [pc |-> "off", cursor |-> 0, pages |-> 0, got |-> <<>>, seen |-> {}]

LabelsInit ==
  /\ sent = 0
  /\ subscription = [made |-> TRUE, revoked |-> FALSE, labeler |-> Labeler]
  /\ consumption = NotConsuming /\ checkpoint = 0
  /\ labels = [t \in Targets |-> NoLabel] /\ queried = {}
  /\ query = NotAsking /\ labelCalls = 0 /\ labelFaults = 0

-----------------------------------------------------------------------------
\* Mutant of Winner: of labels of one time the first is kept.
WinnerKeepsFirst(existing, incoming) ==
  IF existing = NoLabel \/ incoming.cts > existing.cts THEN incoming ELSE existing

(* mergeRecommendationAtprotoLabelState, without a time: of labels of one time *)
(* the last to arrive wins.                                                 *)
Winner(existing, incoming) ==
  IF existing = NoLabel \/ incoming.cts >= existing.cts THEN incoming ELSE existing

(* The state after merging a list of labels, one after the other.           *)
Merged(state, list) ==
  LET after[i \in 0 .. Len(list)] ==
        IF i = 0 THEN state
        ELSE [after[i - 1] EXCEPT ![list[i].target] = Winner(@, list[i])]
  IN  after[Len(list)]

(* normalizeFrame: the sequence increases, there is room for all its labels, *)
(* and all are the labeler's own.                                           *)
FrameSound(n, last, room) ==
  /\ n > last
  /\ Len(Frames[n]) <= room
  /\ \A i \in DOMAIN Frames[n] : Frames[n][i].labeler = Labeler

(* validateTrustBoundary                                                    *)
MayAsk == subscription.made /\ ~subscription.revoked /\ subscription.labeler = Labeler

-----------------------------------------------------------------------------
(* consume, from the cursor the host kept.                                  *)
Consume ==
  /\ consumption.pc = "off" /\ MayAsk /\ labelCalls < MaxCalls /\ labelCalls' = labelCalls + 1
  /\ consumption' = [NotConsuming EXCEPT !.pc = "reading", !.at = checkpoint, !.last = checkpoint]
  /\ UNCHANGED <<sent, subscription, checkpoint, labels, queried, query, labelFaults>>

AtBound == consumption.frames >= MaxConsumed \/ consumption.count >= MaxLabels

\* Mutant of Truncated: the frame that was not taken counts as consumed.
TruncatedPast(n) == consumption' = NotConsuming /\ checkpoint' = n

(* A frame beyond the bounds ends the consumption before it.                *)
Truncated(n) == consumption' = NotConsuming /\ checkpoint' = consumption.last

(* The next frame, or from a labeler at fault an old one.                   *)
Receive ==
  /\ consumption.pc = "reading"
  /\ \E n \in 1 .. sent :
       /\ \/ n = consumption.at + 1 /\ UNCHANGED labelFaults
          \/ n <= consumption.at /\ labelFaults < MaxLabelFaults /\ labelFaults' = labelFaults + 1
       /\ IF AtBound THEN Truncated(n)
          ELSE /\ consumption' = IF FrameSound(n, consumption.last, MaxLabels - consumption.count)
                            THEN [consumption EXCEPT !.pc = "handling", !.frame = n, !.at = n]
                            ELSE NotConsuming
               /\ UNCHANGED checkpoint
  /\ UNCHANGED <<sent, subscription, labels, queried, query, labelCalls>>

(* What a frame changes a query no longer stands behind.                    *)
Streamed == queried' = {t \in queried : labels'[t] = labels[t]}

(* onFrame is awaited before the frame counts.                              *)
FrameHandled ==
  /\ consumption.pc = "handling"
  /\ labels' = Merged(labels, Frames[consumption.frame]) /\ Streamed
  /\ consumption' = [consumption EXCEPT !.pc = "reading", !.last = consumption.frame, !.frames = @ + 1,
                              !.count = @ + Len(Frames[consumption.frame])]
  /\ UNCHANGED <<sent, subscription, checkpoint, query, labelCalls, labelFaults>>

(* The handler rejects, perhaps with a part of the frame merged, or the      *)
(* stream breaks: the consumption throws, and its cursor with it.           *)
ConsumeThrows ==
  /\ consumption.pc # "off" /\ labelFaults < MaxLabelFaults /\ labelFaults' = labelFaults + 1
  /\ consumption' = NotConsuming
  /\ \E k \in 0 .. IF consumption.pc = "handling" THEN Len(Frames[consumption.frame]) ELSE 0 :
       labels' = IF k = 0 THEN labels ELSE Merged(labels, SubSeq(Frames[consumption.frame], 1, k))
  /\ Streamed
  /\ UNCHANGED <<sent, subscription, checkpoint, query, labelCalls>>

(* The stream ends, or an info message ends it.                             *)
StreamEnds ==
  /\ consumption.pc = "reading"
  /\ consumption' = NotConsuming /\ checkpoint' = consumption.last
  /\ UNCHANGED <<sent, subscription, labels, queried, query, labelCalls, labelFaults>>

-----------------------------------------------------------------------------
(* Where the labeler gave a target a label in its first n frames: <<m, i>> is  *)
(* the place of the i-th label of frame m.                                  *)
LabelAt(p) == Frames[p[1]][p[2]]
PlacesOf(t, n) ==
  {p \in UNION {{m} \X DOMAIN Frames[m] : m \in 1 .. n} :
     LabelAt(p).target = t /\ LabelAt(p).labeler = Labeler}

(* A label supersedes those made before it, and those of its own time that    *)
(* were sent before it.                                                     *)
SentBefore(p, r) == p[1] < r[1] \/ (p[1] = r[1] /\ p[2] < r[2])
Supersedes(r, p) ==
  \/ LabelAt(r).cts > LabelAt(p).cts
  \/ LabelAt(r).cts = LabelAt(p).cts /\ SentBefore(p, r)

(* The labeler's last word on a target, and the labels it answers a query    *)
(* with.                                                                    *)
Newest(t, n) ==
  IF PlacesOf(t, n) = {} THEN NoLabel
  ELSE LabelAt(CHOOSE r \in PlacesOf(t, n) : \A p \in PlacesOf(t, n) : r = p \/ Supersedes(r, p))
Current == SetToSeq({Newest(t, sent) : t \in Targets} \ {NoLabel})

Query ==
  /\ query.pc = "off" /\ MayAsk /\ labelCalls < MaxCalls /\ labelCalls' = labelCalls + 1
  /\ query' = [NotAsking EXCEPT !.pc = "asking"]
  /\ UNCHANGED <<sent, subscription, consumption, checkpoint, labels, queried, labelFaults>>

Smaller(a, b) == IF a < b THEN a ELSE b

(* queryAll: a page is awaited, with room for what is left; the query ends    *)
(* with the last page or at its bounds, and throws when the cursor repeats. *)
QueryPage ==
  /\ query.pc = "asking"
  /\ LET room == Smaller(LabelPageSize, MaxLabels - Len(query.got))
         page == SubSeq(Current, query.cursor + 1, Smaller(query.cursor + room, Len(Current)))
         got == query.got \o page
         read == [query EXCEPT !.got = got, !.pages = @ + 1]
     IN  \E next \in {query.cursor + Len(page)} \cup query.seen :
           /\ IF next = query.cursor + Len(page) THEN UNCHANGED labelFaults
              ELSE labelFaults < MaxLabelFaults /\ labelFaults' = labelFaults + 1
           /\ query' =
                IF next >= Len(Current) /\ next \notin query.seen THEN [read EXCEPT !.pc = "read"]
                ELSE IF next \in query.seen THEN NotAsking
                ELSE [read EXCEPT !.cursor = next, !.seen = @ \cup {next},
                        !.pc = IF query.pages + 1 < MaxLabelPages /\ Len(got) < MaxLabels
                               THEN "asking" ELSE "read"]
  /\ UNCHANGED <<sent, subscription, consumption, checkpoint, labels, queried, labelCalls>>

(* The query returned; the pages may be old by now.                         *)
QueryMerged ==
  /\ query.pc = "read"
  /\ labels' = Merged(labels, query.got)
  /\ queried' = queried \cup {t \in Targets : labels'[t] # labels[t]}
  /\ query' = NotAsking
  /\ UNCHANGED <<sent, subscription, consumption, checkpoint, labelCalls, labelFaults>>

-----------------------------------------------------------------------------
LabelerSends ==
  /\ sent < Len(Frames) /\ sent' = sent + 1
  /\ UNCHANGED <<subscription, consumption, checkpoint, labels, queried, query, labelCalls, labelFaults>>

Unsubscribe ==
  /\ ~subscription.revoked /\ subscription' = [subscription EXCEPT !.revoked = TRUE]
  /\ UNCHANGED <<sent, consumption, checkpoint, labels, queried, query, labelCalls, labelFaults>>

LabelsNext ==
  \/ Consume \/ Receive \/ FrameHandled \/ ConsumeThrows \/ StreamEnds
  \/ Query \/ QueryPage \/ QueryMerged \/ LabelerSends \/ Unsubscribe

LabelsSpec == LabelsInit /\ [][LabelsNext]_labelVars

-----------------------------------------------------------------------------
(* Every label of a frame the host's cursor has passed is in the state, or    *)
(* gave way to one no older: nothing is skipped, whatever failed on the way. *)
NothingSkipped ==
  \A t \in Targets : \A p \in PlacesOf(t, checkpoint) : labels[t].cts >= LabelAt(p).cts

(* When the host has all the labeler sent, its state is the labeler's last     *)
(* word, though frames were replayed and queries answered late; where a query  *)
(* brought the label it is of the time of the last word.                    *)
LabelsConverge ==
  checkpoint = sent /\ consumption.pc = "off" /\ query.pc = "off"
    => \A t \in Targets :
         \/ labels[t] = Newest(t, sent)
         \/ t \in queried /\ labels[t].cts = Newest(t, sent).cts

(* What the engine would derive a signal from, of labels evaluated at a time  *)
(* or without one.                                                          *)
Derived(now) ==
  {t \in Targets : labels[t] # NoLabel /\
     SignalFromLabel([allowed |-> TRUE, use |-> "ranking"], "ranking", subscription, labels[t], now)}

(* No signal is derived without the subscription, nor, where a time is given,  *)
(* from an expired label, nor from one that a frame the cursor has passed     *)
(* takes back: of such a frame the label is newer, or as new and sent after   *)
(* it, or as new and brought by a query.                                    *)
EvidenceIsCurrent ==
  \A now \in Times \cup {NoTime} : \A t \in Derived(now) :
    /\ MayAsk
    /\ now # NoTime => labels[t].expires > now
    /\ \A p \in PlacesOf(t, checkpoint) : LabelAt(p).negated =>
         \/ \E r \in PlacesOf(t, sent) : labels[t] = LabelAt(r) /\ Supersedes(r, p)
         \/ t \in queried /\ labels[t].cts >= LabelAt(p).cts

(* What the labels derived mean and do depends on what the definitions and the *)
(* policies say, not on the order in which they are listed; and nothing but    *)
(* a label of a topic is ever an interest.                                   *)
LabelEffectsOrderFree ==
  \A now \in Times \cup {NoTime} : \A t \in Derived(now), lexicon \in Lexicons :
    EffectOrderFree(lexicon.definitions, lexicon.policies,
                    [labeler |-> labels[t].labeler, value |-> labels[t].value,
                     target |-> LabelTarget(Uri[t])])
=============================================================================
