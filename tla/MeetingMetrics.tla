---------------------------- MODULE MeetingMetrics ----------------------------
(***************************************************************************)
(* How long a meeting spends on an agenda, or off topic: a language model  *)
(* names ranges of segments, whose time is summed without counting any     *)
(* instant twice.  (src/meety_ai/metric/calculation.py)                    *)
(***************************************************************************)
EXTENDS Integers, Sequences, SequencesExt, FiniteSetsExt

\* A segment has its place in the recording and its time, and may be empty.
Recorded ==
  {s \in [sequence_number : Nat, start : Nat, end : Nat] : s.start =< s.end}

\* sorted(..., key=field): segments of the same key stay in their order.
SortedBy(segments, field) ==
  LET sorted[n \in 0 .. Len(segments)] ==
        IF n = 0 THEN << >>
        ELSE LET key   == segments[n][field]
                 after == SelectLastInSeq(sorted[n - 1], LAMBDA s : s[field] =< key)
             IN  InsertAt(sorted[n - 1], after + 1, segments[n])
  IN  sorted[Len(segments)]

\* A slip: all of a segment is added, what was covered before too.
AddedWhole(segment, end) == segment.end - segment.start

\* max(ended_at_ms - max(started_at_ms, end), 0)
Added(segment, end) == Max({segment.end - Max({segment.start, end}), 0})

\* The loop of union_duration, over segments in the order of their starts.
Summed(segments) ==
  LET sum[n \in 0 .. Len(segments)] ==
        IF n = 0 THEN [total |-> 0, end |-> 0]
        ELSE [total |-> sum[n - 1].total + Added(segments[n], sum[n - 1].end),
              end   |-> Max({sum[n - 1].end, segments[n].end})]
  IN  sum[Len(segments)]

UnionDuration(segments) == Summed(SortedBy(segments, "start")).total

\* select_ranges refuses a range that is reversed or of segments there are not.
Legal(range, segments) ==
  /\ 0 =< range.start_index /\ range.start_index =< range.end_index
  /\ range.end_index < Len(segments)

Refused(segments, ranges) == \E range \in ranges : ~Legal(range, segments)

\* The indices count from 0.
Selected(ranges) ==
  UNION {range.start_index .. range.end_index : range \in ranges}

\* select_ranges: the segments selected, in their order, each once.
SelectRanges(segments, ranges) ==
  LET kept[n \in 0 .. Len(segments)] ==
        IF n = 0 THEN << >>
        ELSE IF n - 1 \in Selected(ranges) THEN Append(kept[n - 1], segments[n])
        ELSE kept[n - 1]
  IN  kept[Len(segments)]

\* A slip: the ranges are applied to the segments as the request lists them.
AsRequested(segments) == segments

\* calculate_metrics: the model counted the segments in the order they were said.
InSequence(segments) == SortedBy(segments, "sequence_number")

\* The duration of an agenda or of what is off topic, if it is not refused.
Duration(segments, ranges) ==
  UnionDuration(SelectRanges(InSequence(segments), ranges))
===============================================================================
