-------------------------- MODULE SpeakerAttribution --------------------------
(***************************************************************************)
(* The speaker of each transcript of an uploaded recording: the intervals  *)
(* of a diarization are merged per speaker, and a segment is attributed to *)
(* the speaker it overlaps longest.                                        *)
(* (src/meety_ai/diarization/router.py, lines 60-140)                      *)
(*                                                                         *)
(* A segment or an interval covers the milliseconds from its start up to,  *)
(* not including, its end.                                                 *)
(***************************************************************************)
EXTENDS Integers, Sequences, FiniteSets, FiniteSetsExt, Functions

CONSTANTS
  Speakers,
  Instants,     \* the times at which intervals and segments begin and end
  MaxIntervals  \* bound of the model: intervals of one answer

VARIABLES
  intervals,  \* the answer of the diarization, sorted by start_ms
  position,   \* the intervals merged so far
  merged,     \* speaker -> spans, as [start, end] pairs
  segment,    \* the segment attributed, or NoSegment
  speaker     \* its speaker, or None

vars == <<intervals, position, merged, segment, speaker>>

None == -1
NoSegment == [start |-> 0, end |-> 0]

\* diarize() refuses an interval that does not start before its end.
Interval == {i \in [speaker : Speakers, start : Instants, end : Instants] :
               i.start < i.end}

\* A segment may be empty.
Segment == {s \in [start : Instants, end : Instants] : s.start =< s.end}

Sorted(is) == \A i, j \in DOMAIN is : i < j => is[i].start =< is[j].start

Init ==
  /\ \E n \in 0 .. MaxIntervals :
       intervals \in {is \in [1 .. n -> Interval] : Sorted(is)}
  /\ position = 0
  /\ merged = [s \in Speakers |-> << >>]
  /\ segment = NoSegment /\ speaker = None

Item  == intervals[position + 1]
Spans == merged[Item.speaker]

Larger(a, b) == IF a < b THEN b ELSE a

\* A slip: the span ends where the interval that came last ends.
LastEnd(span, item) == item.end

JoinedEnd(span, item) == Larger(span.end, item.end)

\* The interval touches or overlaps the last span of its speaker.
Touches == Spans # << >> /\ Item.start =< Spans[Len(Spans)].end

Join ==
  /\ position < Len(intervals) /\ Touches
  /\ merged' = [merged EXCEPT ![Item.speaker][Len(Spans)].end =
                  JoinedEnd(Spans[Len(Spans)], Item)]
  /\ position' = position + 1
  /\ UNCHANGED <<intervals, segment, speaker>>

AddSpan ==
  /\ position < Len(intervals) /\ ~Touches
  /\ merged' = [merged EXCEPT ![Item.speaker] =
                  Append(@, [start |-> Item.start, end |-> Item.end])]
  /\ position' = position + 1
  /\ UNCHANGED <<intervals, segment, speaker>>

\* max(0, min(end, ended) - max(start, started))
Overlap(span, seg) ==
  Larger(0, Min({span.end, seg.end}) - Larger(span.start, seg.start))

TotalOf(s, seg) ==
  SumFunction([k \in DOMAIN merged[s] |-> Overlap(merged[s][k], seg)])

\* ranked[0] > ranked[1]
Alone(s, seg) == \A t \in Speakers \ {s} : TotalOf(t, seg) < TotalOf(s, seg)

Attribute ==
  /\ position = Len(intervals) /\ segment = NoSegment
  /\ segment' \in Segment
  /\ \/ \E s \in Speakers :
          /\ TotalOf(s, segment') > 0 /\ Alone(s, segment')
          /\ speaker' = s
     \/ /\ \A s \in Speakers : ~(TotalOf(s, segment') > 0 /\ Alone(s, segment'))
        /\ speaker' = None
  /\ UNCHANGED <<intervals, position, merged>>

Next == Join \/ AddSpan \/ Attribute

Spec == Init /\ [][Next]_vars
------------------------------------------------------------------------------
\* Properties

Covered(i) == i.start .. i.end - 1

\* What a speaker says, by the intervals merged so far.
Said(s) == UNION {Covered(intervals[i]) :
                    i \in {j \in 1 .. position : intervals[j].speaker = s}}

\* A segment is attributed to a speaker exactly if nobody else speaks as long
\* in it: overlapping intervals of one speaker count once, a tie or silence
\* gives nobody.
AttributedToLongest ==
  segment # NoSegment =>
    LET time(s) == Cardinality(Said(s) \cap Covered(segment))
    IN  \A s \in Speakers :
          (speaker = s) =
            (time(s) > 0 /\ \A t \in Speakers \ {s} : time(t) < time(s))
==============================================================================
