---------------------------- MODULE MCComputations ----------------------------
(***************************************************************************)
(* The computations that share no state with a recording in progress, side *)
(* by side: a behaviour runs one of them, on any of its inputs, and leaves *)
(* the others as they are.                                                 *)
(***************************************************************************)
EXTENDS Integers, Sequences, SequencesExt

CONSTANTS
  MemberCount, SlotCount, Cosines, THRESHOLD,     \* SpeakerAssignment
  Speakers, Instants, MaxIntervals,               \* SpeakerAttribution
  Moments, MaxSegments,                           \* MeetingMetrics
  Meetings, Current, MAX_MEETING_PAGES, MAX_SELECTED_MEETINGS,
  MAX_CONTEXT_LENGTH,                             \* STTContext
  Voices, Durations, MAX_DURATION, MaxResults, MaxPerMessage,
                                                  \* SpeechmaticsTranscripts
  BATCH_SIZE, Lengths, LetterCounts, CONTEXT_ECHO_MIN_CHARS, MAX_CHARS_PER_SECOND
                                                  \* AsrBatch

\* Members and slots are numbered; a cosine is scaled to an integer.
ASSUME AssignmentAssumption ==
  /\ MemberCount \in Nat /\ SlotCount \in Nat
  /\ Cosines \subseteq Int /\ THRESHOLD \in Int

\* What the words of the other provider are counted in, and who is nobody.
ASSUME WordsAssumption ==
  /\ Durations \subseteq Nat /\ MAX_DURATION \in Nat
  /\ "none" \notin Voices

\* Times of recordings are natural numbers, and no speaker stands for nobody.
ASSUME AttributionAssumption ==
  Instants \subseteq Nat /\ -1 \notin Speakers /\ MaxIntervals \in Nat

\* So are those of the segments of a meeting.
ASSUME MetricsAssumption == Moments \subseteq Nat /\ MaxSegments \in Nat

\* The limit of a context is a number of characters.
ASSUME ContextAssumption == MAX_CONTEXT_LENGTH \in Nat

VARIABLES
  computation,
  gain, member, best, following, entry, index, result,
  intervals, position, merged, segment, speaker,
  request,      \* the segments of which the metrics are asked, in any order
  at, has_info, pages, candidates, selection, meeting_ids, summaries, written,
  context, listed,
  group, reported, end_received, closing, finish, received,
  asr_jobs, generations, outputs, verdicts, alone, returned

assignmentVars == <<gain, member, best, following, entry, index, result>>
attributionVars == <<intervals, position, merged, segment, speaker>>
contextVars == <<at, has_info, pages, candidates, selection, meeting_ids, summaries,
                 written, context, listed>>
transcriptsVars == <<group, reported, end_received, closing, finish, received>>
batchVars == <<asr_jobs, generations, outputs, verdicts, alone, returned>>
vars == <<computation, assignmentVars, attributionVars, request, contextVars,
          transcriptsVars, batchVars>>

Assignment  == INSTANCE SpeakerAssignment
Attribution == INSTANCE SpeakerAttribution
Batch       == INSTANCE AsrBatch
Transcripts == INSTANCE SpeechmaticsTranscripts WITH Speakers <- Voices

\* Up to three lines, blank ones between others, shorter or longer than the limit.
Texts == {text \in UNION {[1 .. n -> 0 .. MAX_CONTEXT_LENGTH + 1] : n \in 1 .. 3} :
            text[1] > 0 /\ text[Len(text)] > 0}
Context == INSTANCE STTContext

Metrics == INSTANCE MeetingMetrics

\* The segments of a meeting: MetricRequest refuses numbers that repeat and ends
\* before the start.
MeetingSegments ==
  {s \in [sequence_number : 1 .. MaxSegments, start : Moments, end : Moments] :
     s.start =< s.end}

Numbered(segments) ==
  \A i, j \in DOMAIN segments :
    segments[i].sequence_number = segments[j].sequence_number => i = j

Requests ==
  {q \in UNION {[1 .. n -> MeetingSegments] : n \in 0 .. MaxSegments} : Numbered(q)}

\* What does not run is given one of its inputs.
Init ==
  /\ computation \in {"assignment", "attribution", "metrics", "context",
                     "transcripts", "batch"}
  /\ IF computation = "assignment" THEN TRUE
     ELSE \E c \in {CHOOSE c \in Cosines : TRUE} :
            gain = [m \in Assignment!Members |-> [s \in Assignment!Slots |-> c - THRESHOLD]]
  /\ IF computation = "attribution" THEN TRUE ELSE intervals = << >>
  /\ request \in IF computation = "metrics" THEN Requests ELSE {<< >>}
  /\ IF computation = "context" THEN TRUE ELSE at = "write" /\ has_info = FALSE
  /\ IF computation = "batch" THEN TRUE
     ELSE asr_jobs = <<[sound |-> TRUE, seconds |-> CHOOSE n \in Lengths : TRUE]>>
  /\ Attribution!Init /\ Context!Init /\ Transcripts!Init /\ Assignment!Init
  /\ Batch!Init

AssignmentStep ==
  /\ computation = "assignment" /\ Assignment!Next
  /\ UNCHANGED <<computation, attributionVars, request, contextVars, transcriptsVars,
                 batchVars>>

AttributionStep ==
  /\ computation = "attribution" /\ Attribution!Next
  /\ UNCHANGED <<computation, assignmentVars, request, contextVars, transcriptsVars,
                 batchVars>>

ContextStep ==
  /\ computation = "context" /\ Context!Next
  /\ UNCHANGED <<computation, assignmentVars, attributionVars, request,
                 transcriptsVars, batchVars>>

TranscriptsStep ==
  /\ computation = "transcripts" /\ Transcripts!Next
  /\ UNCHANGED <<computation, assignmentVars, attributionVars, request, contextVars,
                 batchVars>>

BatchStep ==
  /\ computation = "batch" /\ Batch!Next
  /\ UNCHANGED <<computation, assignmentVars, attributionVars, request, contextVars,
                 transcriptsVars>>

Next ==
  AssignmentStep \/ AttributionStep \/ ContextStep \/ TranscriptsStep \/ BatchStep

Spec == Init /\ [][Next]_vars
-----------------------------------------------------------------------------
\* Properties

\* The mapping of members to slots: see SpeakerAssignment.
AssignmentOptimal == computation = "assignment" => Assignment!AssignmentOptimal

\* The speaker of a segment of a recording: see SpeakerAttribution.
AttributedToLongest == computation = "attribution" => Attribution!AttributedToLongest

\* The indices of a range are not negative, by its schema.
Ranges == [start_index : 0 .. MaxSegments, end_index : 0 .. MaxSegments]
OneOrTwoRanges == {{r, q} : r, q \in Ranges}

\* The segments of the request, and how many were said before one of them.
Segments == {request[i] : i \in DOMAIN request}
Before(s) == Cardinality({t \in Segments : t.sequence_number < s.sequence_number})

\* The segments that ranges name, counted from 0 in the order they were said.
Named(ranges) ==
  {s \in Segments : \E r \in ranges :
     r.start_index =< Before(s) /\ Before(s) =< r.end_index}

\* A duration of the metrics of a meeting counts every instant of the segments
\* named once, however the segments overlap, in whatever order they come and were
\* said, and also when ranges overlap; ranges of segments that there are not are
\* refused (calculate_metrics, select_ranges and union_duration).
MetricsCountOnce ==
  computation = "metrics" =>
    \A ranges \in OneOrTwoRanges :
      IF Metrics!Refused(request, ranges)
      THEN \E r \in ranges : r.end_index \notin r.start_index .. Len(request) - 1
      ELSE Metrics!Duration(request, ranges)
             = Cardinality(UNION {s.start .. s.end - 1 : s \in Named(ranges)})

\* The document for the recogniser: see STTContext.
ContextSources == computation = "context" => Context!ContextSources
ContextLines == computation = "context" => Context!ContextLines
LastCompleteLineKept == computation = "context" => Context!LastCompleteLineKept

\* The transcripts of the other provider: see SpeechmaticsTranscripts.
WordsKept == computation = "transcripts" => Transcripts!WordsKept

\* The segments of a batch of the ASR model: see AsrBatch.
JudgedAlone == computation = "batch" => Batch!JudgedAlone
===============================================================================
