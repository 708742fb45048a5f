------------------------- MODULE SegmentAttribution -------------------------
(***************************************************************************)
(* From a closed segment to a transcript with a speaker: the extraction of *)
(* its voice vector in the shared embedding thread, the emit task that     *)
(* waits for it up to a deadline (PipelineSession.attribute), and the      *)
(* evidence SpeakerMapper.observe keeps for the meeting.                   *)
(* (src/meety_ai/modal_app/stt/pipeline.py and speaker_mapping.py)         *)
(*                                                                         *)
(* Profiles are orthogonal unit vectors, so a voice vector is given by its *)
(* cosines with them, in tenths; negative cosines and evidence that sums   *)
(* up to the zero vector are left out.  Cosines of sums are taken in       *)
(* hundredths, rounded down.                                               *)
(***************************************************************************)
EXTENDS Sequences, FiniteSetsExt, SpeakerMatching

CONSTANTS
  Members,      \* members of the team, as numbers in the order of their profiles
  ProfileSets,  \* the members whose profiles a session may start with
  Slots,        \* speaker slots
  Voices,       \* the voice vectors of segments: [Members -> 0 .. 10]
  Durations,    \* seconds of a segment
  MIN_SECONDS,  \* the least evidence that connects a slot
  MaxSegments   \* bound of the model: segments of the session

THRESHOLD == 40

None == -1

ASSUME AttributionAssumption ==
  /\ Members \subseteq Nat /\ ProfileSets \subseteq SUBSET Members
  /\ None \notin Slots
  /\ Voices \subseteq [Members -> 0 .. 10]
  /\ \A v \in Voices : \E m \in Members : v[m] > 0
  /\ Durations \subseteq Nat \ {0}
  /\ MIN_SECONDS \in Nat \ {0} /\ MaxSegments \in Nat

VARIABLES
  profiles,    \* mapper.profiles: the members compared
  closed,      \* the segments closed so far
  futures,     \* what became of the extraction of each
  embeddings,  \* session.embeddings: the segments whose extraction is awaited
  pool,        \* extractions that the thread has not begun
  running,     \* the extraction the thread is at, or None
  recognised,  \* segments whose result has been put on the results queue
  results,     \* session.results
  emit,        \* where the emit task is
  current,     \* the result it has taken
  outbox,      \* the messages attribute returned that are still to be sent
  sums,        \* mapper.sums, for every slot with evidence
  seconds,     \* mapper.seconds
  mapping,     \* mapper.mapping
  discovered,  \* mapper.discovered
  sent,        \* mapper.sent
  view,        \* the last snapshot the client accepted
  delivered,   \* the transcripts the client received
  counted,     \* history: the segments taken as evidence
  aborted      \* session.aborted

segmentVars == <<closed, embeddings>>
poolVars    == <<futures, pool, running>>
queueVars   == <<recognised, results>>
mapperVars  == <<sums, seconds, mapping, discovered, sent, counted>>
clientVars  == <<view, delivered>>
vars == <<profiles, segmentVars, poolVars, queueVars, emit, current, outbox,
          mapperVars, clientVars, aborted>>

Nothing == [slot \in {} |-> None]

Segment == [slot : Slots, seconds : Durations, voice : Voices \cup {<< >>}]
NoResult == [segment |-> 0, committed |-> FALSE]

Enabled == profiles # {}

Init ==
  /\ profiles \in ProfileSets
  /\ closed = << >> /\ embeddings = {}
  /\ futures = << >> /\ pool = << >> /\ running = None
  /\ recognised = 0 /\ results = << >>
  /\ emit = "get" /\ current = NoResult /\ outbox = << >>
  /\ sums = [s \in {} |-> << >>] /\ seconds = [s \in {} |-> 0]
  /\ mapping = Nothing /\ discovered = {} /\ sent = Nothing
  /\ view = Nothing /\ delivered = << >> /\ counted = {}
  /\ aborted = FALSE

------------------------------------------------------------------------------
\* The segments and the embedding thread

\* A segment is closed; with profiles to compare, the extraction of its vector
\* is submitted.  << >> is the voice of an extraction that fails.
CloseTurn ==
  /\ ~aborted /\ Len(closed) < MaxSegments
  /\ \E segment \in Segment :
       closed' = Append(closed, segment)
  /\ IF Enabled
     THEN /\ futures' = Append(futures, "submitted")
          /\ pool' = Append(pool, Len(closed'))
          /\ embeddings' = embeddings \cup {Len(closed')}
     ELSE /\ futures' = Append(futures, "none")
          /\ UNCHANGED <<pool, embeddings>>
  /\ UNCHANGED <<profiles, running, queueVars, emit, current, outbox,
                 mapperVars, clientVars, aborted>>

\* The ASR loop puts the result of the next segment on the results queue.
Recognise ==
  /\ ~aborted /\ recognised < Len(closed)
  /\ recognised' = recognised + 1
  /\ \E committed \in BOOLEAN :
       results' = Append(results, [segment |-> recognised + 1,
                                   committed |-> committed])
  /\ UNCHANGED <<profiles, segmentVars, poolVars, emit, current, outbox,
                 mapperVars, clientVars, aborted>>

\* The thread skips what was cancelled, and answers at once for a session
\* that was released.
EmbedStarts ==
  /\ running = None /\ pool # << >>
  /\ pool' = Tail(pool)
  /\ IF futures[Head(pool)] = "submitted" /\ ~aborted
     THEN /\ running' = Head(pool)
          /\ futures' = [futures EXCEPT ![Head(pool)] = "running"]
     ELSE UNCHANGED <<running, futures>>
  /\ UNCHANGED <<profiles, segmentVars, queueVars, emit, current, outbox,
                 mapperVars, clientVars, aborted>>

EmbedEnds ==
  /\ running # None
  /\ running' = None
  /\ futures' = [futures EXCEPT ![running] =
                   IF @ = "running" THEN "done" ELSE @]
  /\ UNCHANGED <<profiles, segmentVars, pool, queueVars, emit, current, outbox,
                 mapperVars, clientVars, aborted>>

------------------------------------------------------------------------------
\* The mapper

\* The cosine of a sum with the profile of m.
Cosine(sum, m) ==
  LET norm2 == MapThenSumSet(LAMBDA n : sum[n] * sum[n], Members)
  IN  CHOOSE c \in 0 .. 100 :
        /\ c * c * norm2 =< 10000 * sum[m] * sum[m]
        /\ (c + 1) * (c + 1) * norm2 > 10000 * sum[m] * sum[m]

\* What _assign may return for this evidence (see SpeakerAssignment).
Assign(total, spoken) ==
  LET slots == {s \in DOMAIN total : spoken[s] >= MIN_SECONDS}
      gain  == [m \in profiles |->
                  [s \in slots |-> Cosine(total[s], m) - THRESHOLD]]
  IN  BestMatchings(profiles, slots, gain)

\* max(self.profiles, key=...): the first of the most similar.
BestMember(voice) ==
  CHOOSE m \in profiles : \A n \in profiles :
    IF n < m THEN voice[n] < voice[m] ELSE voice[n] =< voice[m]

\* The segment sounds like someone else than its slot is mapped to.
Withheld(slot, voice, map) ==
  slot \in DOMAIN map /\ BestMember(voice) # map[slot]

Snapshot(found, map) ==
  [s \in found |-> IF s \in DOMAIN map THEN map[s] ELSE None]

\* A slip: only a mapping that changed is news.
MappingChanged(found, map) == map # mapping

Changed(found, map) == Snapshot(found, map) # sent

\* A slip: the transcript goes out before the mapping it was judged by.
TranscriptFirst(update, message) == <<message, update>>

Ordered(update, message) == <<update, message>>

Update(snapshot) == [type |-> "update", snapshot |-> snapshot]
Message(result, speaker) ==
  [type |-> "message", segment |-> result.segment, speaker |-> speaker,
   committed |-> result.committed]

\* What observe leaves and attribute returns once the mapping is decided.
Observed(speaker, found, map) ==
  LET update  == Update(Snapshot(found, map))
      message == Message(current, speaker)
  IN  /\ discovered' = found /\ mapping' = map
      /\ IF Changed(found, map)
         THEN /\ sent' = Snapshot(found, map)
              /\ outbox' = Ordered(update, message)
         ELSE /\ UNCHANGED sent
              /\ outbox' = <<message>>

\* observe without a vector: the speaker of this transcript stays unknown.
ObserveNothing(slot) ==
  /\ Observed(None, discovered \cup {slot}, mapping)
  /\ UNCHANGED <<sums, seconds, counted>>

Observe(slot, voice, length) ==
  LET old == [m \in Members |-> IF slot \in DOMAIN sums THEN sums[slot][m] ELSE 0]
      heard == IF slot \in DOMAIN seconds THEN seconds[slot] ELSE 0
  IN  /\ sums' = [s \in DOMAIN sums \cup {slot} |->
                    IF s = slot
                    THEN [m \in Members |-> old[m] + length * voice[m]]
                    ELSE sums[s]]
      /\ seconds' = [s \in DOMAIN sums' |->
                       IF s = slot THEN heard + length ELSE seconds[s]]
      /\ counted' = counted \cup {current.segment}
      /\ \E map \in Assign(sums', seconds') :
           Observed(IF Withheld(slot, voice, map) THEN None ELSE slot,
                    discovered \cup {slot}, map)

------------------------------------------------------------------------------
\* The emit task

\* A slip: whatever was heard is evidence, a failed segment too.
EverySegment(result) == TRUE

\* Only transcripts are evidence.
IsEvidence(result) == result.committed

\* A result is taken.  What is no evidence is passed on as it is, and an
\* extraction nobody needs is cancelled.
TakeResult ==
  /\ emit = "get" /\ results # << >>
  /\ results' = Tail(results)
  /\ current' = Head(results)
  /\ embeddings' = embeddings \ {current'.segment}
  /\ IF IsEvidence(current') /\ Enabled
     THEN /\ emit' = "wait"
          /\ UNCHANGED <<outbox, futures>>
     ELSE /\ emit' = "send"
          /\ outbox' = <<Message(current', closed[current'.segment].slot)>>
          /\ futures' = [futures EXCEPT ![current'.segment] =
               IF @ \in {"submitted", "running"} THEN "cancelled" ELSE @]
  /\ UNCHANGED <<profiles, closed, pool, running, recognised, mapperVars,
                 clientVars, aborted>>

\* The vector is there: it counts, in the order of the results.
VectorReady ==
  /\ emit = "wait" /\ futures[current.segment] = "done"
  /\ LET segment == closed[current.segment]
     IN  IF segment.voice = << >>
         THEN ObserveNothing(segment.slot)
         ELSE Observe(segment.slot, segment.voice, segment.seconds)
  /\ emit' = "send"
  /\ UNCHANGED <<profiles, segmentVars, poolVars, queueVars, current,
                 clientVars, aborted>>

\* A slip: an extraction the thread has begun is waited for.
Waiting(state) == state = "submitted"

\* What a deadline may give up.
Late(state) == state \in {"submitted", "running"}

\* EMBEDDING_WAIT_SECONDS have passed since the segment was closed.
VectorTimeout ==
  /\ emit = "wait" /\ Late(futures[current.segment])
  /\ futures' = [futures EXCEPT ![current.segment] = "cancelled"]
  /\ ObserveNothing(closed[current.segment].slot)
  /\ emit' = "send"
  /\ UNCHANGED <<profiles, segmentVars, pool, running, queueVars, current,
                 clientVars, aborted>>

\* What the client accepts of a snapshot (ModalSTTClient._receive): every member is
\* one of the profiles sent at the start, and has one slot.
Accepts(snapshot) ==
  LET named == {s \in DOMAIN snapshot : snapshot[s] # None}
  IN  /\ \A s \in named : snapshot[s] \in profiles
      /\ \A s, t \in named : snapshot[s] = snapshot[t] => s = t

\* The name the client shows for a message: by the last snapshot it has.
Name(message) ==
  IF message.speaker \in DOMAIN view THEN view[message.speaker] ELSE None

Send ==
  /\ emit = "send"
  /\ outbox' = Tail(outbox)
  /\ emit' = IF Len(outbox) > 1 THEN "send" ELSE "get"
  /\ LET message == Head(outbox)
     IN  IF message.type = "update"
         THEN /\ view' = IF Accepts(message.snapshot) THEN message.snapshot ELSE view
              /\ UNCHANGED delivered
         ELSE /\ delivered' = Append(delivered,
                                [segment   |-> message.segment,
                                 speaker   |-> message.speaker,
                                 committed |-> message.committed,
                                 name      |-> Name(message)])
              /\ UNCHANGED view
  /\ UNCHANGED <<profiles, segmentVars, poolVars, queueVars, current,
                 mapperVars, aborted>>

\* The connection is over: emit is cancelled, and the extraction it waits for
\* with it; what the session keeps is cleared.
Release ==
  /\ ~aborted
  /\ aborted' = TRUE
  /\ emit' = "over"
  /\ outbox' = << >> /\ results' = << >> /\ embeddings' = {}
  /\ futures' = IF emit = "wait" /\ Late(futures[current.segment])
                THEN [futures EXCEPT ![current.segment] = "cancelled"]
                ELSE futures
  /\ UNCHANGED <<profiles, closed, pool, running, recognised, current,
                 mapperVars, clientVars>>

Next ==
  \/ CloseTurn \/ Recognise \/ EmbedStarts \/ EmbedEnds
  \/ TakeResult \/ VectorReady \/ VectorTimeout \/ Send \/ Release

Spec == Init /\ [][Next]_vars
------------------------------------------------------------------------------
\* Properties

\* Between two results, the last snapshot that the client accepted is what the
\* mapper has decided, although only changed snapshots are sent: connections
\* made, moved or withdrawn, and slots found but not connected.  So none is refused
\* for a member named twice or never sent.
SnapshotCurrent == emit = "get" => view = Snapshot(discovered, mapping)

\* A transcript that the client shows under a member's name is one whose own
\* voice is most similar to that member: by the snapshot it has at that time,
\* not by the one that the session has.
NameMatchesVoice ==
  \A i \in DOMAIN delivered :
    LET t == delivered[i]
    IN  t.committed /\ t.name # None =>
          t.name = BestMember(closed[t.segment].voice)

\* The evidence of a slot is that of the transcripts, never of a failed
\* segment, of a vector that came too late, or of a segment not yet reached;
\* each counts once, with the length of its segment.
EvidenceOfTranscripts ==
  /\ \A i \in DOMAIN delivered :
       delivered[i].segment \in counted => delivered[i].committed
  /\ \A i \in counted : i =< current.segment /\ futures[i] = "done"
  /\ \A s \in DOMAIN seconds :
       LET heard == {i \in counted : closed[i].slot = s}
       IN  /\ seconds[s] =
                SumFunctionOnSet([i \in heard |-> closed[i].seconds], heard)
           /\ \A m \in Members : sums[s][m] =
                SumFunctionOnSet([i \in heard |-> closed[i].seconds * closed[i].voice[m]],
                                 heard)

\* A thread that hangs costs a transcript its name, and never the transcript:
\* the emit task waits only for an extraction that is done or that its deadline
\* may still give up, whatever was cancelled before.
WaitEnds ==
  emit = "wait" =>
    LET state == futures[current.segment] IN state = "done" \/ Late(state)
==============================================================================
