----------------------- MODULE TurnSegmentation_proofs -----------------------
(***************************************************************************)
(* Proofs about TurnSegmentation for every number of speakers and every    *)
(* geometry that satisfies its assumptions.                                *)
(***************************************************************************)
EXTENDS TurnSegmentation, SequenceTheorems, TLAPS

\* What an entry of a log of segments looks like.
LEMMA SegmentTyped ==
  ASSUME NEW log \in Seq(Segment), NEW i \in 1 .. Len(log)
  PROVE  log[i].lower \in Nat /\ log[i].upper \in Nat
<1>1. log[i] \in Segment
  BY ElementOfSeq
<1>2. QED
  BY <1>1 DEF Segment

\* A type for every variable is kept only together with RowOK: it is what makes
\* rows - 1 a natural number and the turn that is cut an open one.
LEMMA TypeStep == TypeOK /\ RowOK /\ [Next]_vars => TypeOK' /\ RowOK'
<1> SUFFICES ASSUME TypeOK, RowOK, [Next]_vars PROVE TypeOK' /\ RowOK'
  OBVIOUS
<1> USE GeometryAssumption DEF TypeOK, RowOK, IsOpen, Speakers, None
<1>a. ASSUME NEW s \in Speakers, NEW upper \in Nat,
             NEW start \in Nat \cup {None},
             NEW step \in {"scan", "confirm", "eof"},
             IsOpen(s), CloseTurn(s, upper, start, step)
      PROVE  /\ open_turns' \in [Speakers -> Nat \cup {None}]
             /\ pending_ends' \in [Speakers -> Nat \cup {None}]
             /\ emitted' \in Seq(Segment)
             /\ failure' \in Codes
             /\ pc' \in {step, "failed"}
             /\ \A o \in Speakers \ {s} : open_turns'[o] = open_turns[o]
  <2> DEFINE seg == [speaker |-> s, lower |-> open_turns[s], upper |-> upper]
  <2>1. open_turns[s] \in Nat
    BY <1>a DEF IsOpen
  <2>2. seg \in Segment
    BY <2>1 DEF Segment
  <2>3. Append(emitted, seg) \in Seq(Segment)
    BY <2>2
  <2>4. emitted' \in Seq(Segment)
    BY <1>a, <2>3 DEF CloseTurn
  <2>5. failure' \in Codes
    BY <1>a DEF CloseTurn, Rejection, Raise, Codes
  <2>6. pc' \in {step, "failed"}
    BY <1>a DEF CloseTurn, Raise
  <2>7. /\ open_turns' \in [Speakers -> Nat \cup {None}]
        /\ pending_ends' \in [Speakers -> Nat \cup {None}]
        /\ \A o \in Speakers \ {s} : open_turns'[o] = open_turns[o]
    BY <1>a DEF CloseTurn
  <2>8. QED
    BY <2>4, <2>5, <2>6, <2>7
<1>b. ASSUME NEW s \in Speakers, IsOpen(s) PROVE End(s) \in Nat
  BY <1>b DEF End, IsOpen
<1>1. CASE Feed
  BY <1>1 DEF Feed, Raise, Codes
<1>2. CASE Stop
  BY <1>2 DEF Stop, Raise, Codes
<1>2a. CASE RefuseMessage
  BY <1>2a DEF RefuseMessage, Raise, Codes
<1>3. CASE PumpReturns
  BY <1>3 DEF PumpReturns
<1>4. CASE Diarize
  <2> DEFINE final == input # "open" /\ Available =< Size
             upper == next_sample + (IF Available < Size THEN Available ELSE Size)
  <2>1. upper \in Int
    BY DEF Available, Size
  <2>2. \A a \in Answers(upper, final) : a.count \in Nat /\ a.next \in Int
    BY <2>1 DEF Answers
  <2>a. \/ rows' = rows /\ next_start' = next_start
        \/ /\ frames =< total
           /\ \E a \in Answers(upper, final) :
                rows' = Counted(a.count) /\ next_start' = a.next
    BY <1>4 DEF Diarize
  <2>3. rows' \in Nat /\ next_start' \in Int
    BY <2>2, <2>a DEF Counted
  <2>4. /\ input' \in {"open", "stopping", "final"}
        /\ failure' \in Codes
        /\ pc' \in {"rows", "failed"}
    BY <1>4 DEF Diarize, Raise, Codes, Faults
  <2>5. UNCHANGED <<total, next_sample, frames, base_sample, row, cursor,
                    open_turns, pending_ends, emitted>>
    BY <1>4 DEF Diarize
  <2>6. QED
    BY <2>3, <2>4, <2>5
<1>5. CASE TakeRow
  BY <1>5 DEF TakeRow
<1>6. CASE RowDone
  BY <1>6 DEF RowDone
<1>7. CASE Trim
  <2>1. CASE MovesOn
    BY <1>7, <2>1 DEF Trim, Needed, MovesOn, IsOpen
  <2>2. CASE ~MovesOn
    BY <1>7, <2>2 DEF Trim, Raise, Codes
  <2>3. QED
    BY <2>1, <2>2
<1>8. CASE Inactive
  <2>1. cursor \in Speakers /\ cursor' = cursor + 1 /\ pc = "scan"
    BY <1>8 DEF Inactive
  <2>2. /\ open_turns' \in [Speakers -> Nat \cup {None}]
        /\ pending_ends' \in [Speakers -> Nat \cup {None}]
        /\ emitted' \in Seq(Segment)
        /\ failure' \in Codes
        /\ pc' \in {"scan", "failed"}
    <3>1. CASE ~IsOpen(cursor)
      BY <1>8, <2>1, <3>1 DEF Inactive
    <3>2. CASE IsOpen(cursor) /\ frames + 1 - End(cursor) > SEC
      <4>1. CloseTurn(cursor, End(cursor), None, "scan")
        BY <1>8, <3>2 DEF Inactive
      <4>2. End(cursor) \in Nat
        BY <1>b, <2>1, <3>2
      <4>3. QED
        BY ONLY <1>a, <2>1, <3>2, <4>1, <4>2 DEF None
    <3>3. CASE IsOpen(cursor) /\ ~(frames + 1 - End(cursor) > SEC)
      <4>1. End(cursor) \in Nat
        BY <1>b, <2>1, <3>3
      <4>2. QED
        BY <1>8, <2>1, <3>3, <4>1 DEF Inactive
    <3>4. QED
      BY <3>1, <3>2, <3>3
  <2>3. QED
    BY <1>8, <2>1, <2>2 DEF Inactive, Untouched
<1>9. CASE Active
  <2>1. /\ open_turns' \in [Speakers -> Nat \cup {None}]
        /\ pending_ends' \in [Speakers -> Nat \cup {None}]
    BY <1>9 DEF Active, Untouched, IsOpen
  <2>2. /\ UNCHANGED <<total, next_sample, frames, base_sample, rows, next_start, row,
                       input, cursor, emitted, failure>>
        /\ pc' = "confirm"
        /\ pc = "scan" /\ cursor = row /\ row \in Speakers
    BY <1>9 DEF Active, Untouched
  <2>3. open_turns'[row] # None
    BY <1>9, <2>2 DEF Active, Absorbed
  <2>4. QED
    BY <2>1, <2>2, <2>3
<1>10. CASE ConfirmChange
  <2>1. PICK o \in Others : CloseTurn(o, End(o), None, "confirm")
    BY <1>10 DEF ConfirmChange
  <2>2. o \in Speakers /\ o # row /\ IsOpen(o) /\ End(o) \in Nat
    BY <1>b DEF Others
  <2>3. /\ open_turns' \in [Speakers -> Nat \cup {None}]
        /\ pending_ends' \in [Speakers -> Nat \cup {None}]
        /\ emitted' \in Seq(Segment)
        /\ failure' \in Codes
        /\ pc' \in {"confirm", "failed"}
        /\ \A r \in Speakers \ {o} : open_turns'[r] = open_turns[r]
    BY ONLY <1>a, <2>1, <2>2 DEF None
  <2>4. /\ UNCHANGED <<total, next_sample, frames, base_sample, rows, next_start, row,
                       input, cursor>>
        /\ pc = "confirm"
    BY <1>10 DEF ConfirmChange, Untouched
  <2>5. QED
    BY <2>2, <2>3, <2>4
<1>11. CASE CutLongTurn
  <2> DEFINE boundary == open_turns[row] + MAX_TURN
             start == IF frames + 1 > boundary THEN boundary ELSE None
  <2>1. /\ pc = "confirm" /\ row \in Speakers /\ IsOpen(row)
        /\ cursor = row /\ cursor' = row + 1
        /\ boundary \in Nat
    BY <1>11 DEF CutLongTurn, Remainder
  <2>2. /\ open_turns' \in [Speakers -> Nat \cup {None}]
        /\ pending_ends' \in [Speakers -> Nat \cup {None}]
        /\ emitted' \in Seq(Segment)
        /\ failure' \in Codes
        /\ pc' \in {"scan", "failed"}
    <3>1. CASE frames + 1 >= boundary
      <4>1. CloseTurn(row, boundary, start, "scan")
        BY <1>11, <3>1 DEF CutLongTurn, Remainder
      <4>2. start \in Nat \cup {None}
        BY <2>1
      <4>3. QED
        BY ONLY <1>a, <2>1, <4>1, <4>2
    <3>2. CASE ~(frames + 1 >= boundary)
      BY <1>11, <3>2 DEF CutLongTurn, Remainder
    <3>3. QED
      BY <3>1, <3>2
  <2>3. QED
    <3>1. UNCHANGED <<total, next_sample, frames, base_sample, rows, next_start,
                      row, input>>
      BY <1>11 DEF CutLongTurn, Untouched
    <3>2. QED
      BY <2>1, <2>2, <3>1
<1>12. CASE CloseAtEof
  <2>1. PICK s \in Speakers : IsOpen(s) /\ CloseTurn(s, End(s), None, "eof")
    BY <1>12 DEF CloseAtEof
  <2>2. End(s) \in Nat
    BY <1>b, <2>1
  <2>3. /\ open_turns' \in [Speakers -> Nat \cup {None}]
        /\ pending_ends' \in [Speakers -> Nat \cup {None}]
        /\ emitted' \in Seq(Segment)
        /\ failure' \in Codes
        /\ pc' \in {"eof", "failed"}
    BY ONLY <1>a, <2>1, <2>2 DEF None
  <2>4. QED
    BY <1>12, <2>3 DEF CloseAtEof, Untouched
<1>13. CASE Drained
  BY <1>13 DEF Drained
<1>14. CASE Over
  BY <1>14 DEF Over, vars
<1>15. CASE UNCHANGED vars
  BY <1>15 DEF vars
<1>16. QED
  BY <1>1, <1>2, <1>2a, <1>3, <1>4, <1>5, <1>6, <1>7, <1>8, <1>9, <1>10,
     <1>11, <1>12, <1>13, <1>14, <1>15 DEF Next

\* Type correctness of the segmentation state (pipeline.py, PipelineSession).
THEOREM TypeCorrect == Spec => []TypeOK
<1>1. Init => TypeOK /\ RowOK
  BY GeometryAssumption DEF Init, TypeOK, RowOK, Speakers, None, Codes
<1>2. QED
  BY <1>1, TypeStep, PTL DEF Spec


-----------------------------------------------------------------------------

\* The steps that leave every turn and the log alone.
SameTurns == UNCHANGED <<open_turns, pending_ends, emitted>>

\* Outside a row nothing depends on which row was applied last: a step between
\* two such states that only moves the audio cursors keeps the turns' invariant.
LEMMA QuietStep ==
  ASSUME IInv, TypeOK', SameTurns, UNCHANGED frames,
         pc \notin {"scan", "confirm", "failed"}, pc' \notin {"confirm", "failed"},
         pc' = "scan" => cursor' = 0,
         total =< total'
  PROVE  /\ TurnShape' /\ TurnChain' /\ LaterAreShort' /\ SelectedTurn'
         /\ LogOK' /\ NoOverlap'
<1> USE GeometryAssumption DEF IInv, TypeOK, TurnInv, Speakers, None, IsOpen,
        SameTurns
<1>1. ~RowSeen /\ ~RowSeen'
  BY DEF RowSeen
<1>2. \A s \in Speakers : ~PassedOver(s)'
  BY DEF PassedOver
<1>3. \A s \in Speakers : End(s)' = End(s)
  BY DEF End
<1>4. TurnShape'
  BY <1>1, <1>2, <1>3 DEF TurnShape
<1>5. TurnChain'
  BY <1>3 DEF TurnChain
<1>6. LaterAreShort'
  BY <1>1, <1>3 DEF LaterAreShort
<1>7. SelectedTurn'
  BY <1>1 DEF SelectedTurn
<1>8. LogOK'
  <2>1. \A i \in 1 .. Len(emitted) : emitted[i].upper \in Nat
    BY SegmentTyped
  <2>2. /\ LogOK /\ UNCHANGED <<open_turns, emitted, frames>>
        /\ total \in Nat /\ total' \in Nat /\ total =< total'
    OBVIOUS
  <2>3. QED
    BY ONLY <1>1, <2>1, <2>2 DEF LogOK, IsOpen
<1>9. NoOverlap'
  <2>1. NoOverlap /\ emitted' = emitted
    OBVIOUS
  <2>2. QED
    BY ONLY <2>1 DEF NoOverlap
<1>10. QED
  BY <1>4, <1>5, <1>6, <1>7, <1>8, <1>9

-----------------------------------------------------------------------------

\* What is known of an open turn, whatever the row: it began less than 26 s ago
\* and, unless the current row has just reached it, it has a positive length.
LEMMA OpenTurn ==
  ASSUME IInv, pc # "failed", NEW s \in Speakers, IsOpen(s)
  PROVE  /\ open_turns[s] \in Nat /\ End(s) \in Nat /\ End(s) =< frames
         /\ frames - open_turns[s] < MAX_TURN + SEC
         /\ ~(RowSeen /\ s = row) =>
              /\ open_turns[s] < End(s)
              /\ End(s) - open_turns[s] < MAX_TURN
              /\ frames - End(s) =< SEC
<1> USE GeometryAssumption DEF IInv, TypeOK, TurnInv, IsOpen, None
<1>1. /\ open_turns[s] \in Nat
      /\ pending_ends[s] \in Nat \cup {None}
      /\ frames \in Nat
  OBVIOUS
<1>2. End(s) \in Nat /\ End(s) =< frames
  BY <1>1 DEF End, TurnShape
<1>3. CASE RowSeen /\ s = row
  BY <1>1, <1>2, <1>3 DEF SelectedTurn
<1>4. CASE ~(RowSeen /\ s = row)
  <2>1. /\ open_turns[s] < frames
        /\ End(s) - open_turns[s] < MAX_TURN
        /\ pending_ends[s] # None =>
             open_turns[s] < pending_ends[s] /\ frames - pending_ends[s] =< SEC
    BY <1>4 DEF TurnShape
  <2>2. open_turns[s] < End(s) /\ frames - End(s) =< SEC
    BY <1>1, <2>1 DEF End
  <2>3. QED
    BY <1>1, <1>2, <2>1, <2>2
<1>5. QED
  BY <1>3, <1>4

\* What closing a turn does to the log.
LEMMA CloseLog ==
  ASSUME TypeOK, NEW s \in Speakers, NEW upper \in Nat, NEW start, NEW step,
         IsOpen(s), CloseTurn(s, upper, start, step)
  PROVE  \/ emitted' = emitted
         \/ /\ HALF =< upper - open_turns[s]
            /\ Len(emitted') = Len(emitted) + 1
            /\ \A i \in 1 .. Len(emitted) : emitted'[i] = emitted[i]
            /\ emitted'[Len(emitted) + 1].lower = open_turns[s]
            /\ emitted'[Len(emitted) + 1].upper = upper
<1> DEFINE seg == [speaker |-> s, lower |-> open_turns[s], upper |-> upper]
<1>1. open_turns[s] \in Nat
  BY DEF TypeOK, IsOpen, None
<1>2. seg \in Segment
  BY <1>1 DEF Segment
<1>3. CASE emitted' = emitted
  BY <1>3
<1>4. CASE emitted' # emitted
  <2>1. emitted' = Append(emitted, seg) /\ ~(upper - open_turns[s] < HALF)
    BY <1>4 DEF CloseTurn
  <2>2. emitted \in Seq(Segment)
    BY DEF TypeOK
  <2>3. /\ Len(emitted') = Len(emitted) + 1
        /\ \A i \in 1 .. Len(emitted) : emitted'[i] = emitted[i]
        /\ emitted'[Len(emitted) + 1] = seg
    BY <1>2, <2>1, <2>2
  <2>4. QED
    BY <1>1, <2>1, <2>3, GeometryAssumption
<1>5. QED
  BY <1>3, <1>4

\* Closing a turn where it paused: the common part of a pause that has lasted too
\* long, of a confirmed change of speaker and of the end of the input.
LEMMA RemoveTurn ==
  ASSUME IInv, TypeOK', pc # "failed", pc' # "failed",
         NEW s \in Speakers, NEW step \in {"scan", "confirm", "eof"},
         IsOpen(s), ~(RowSeen /\ s = row),
         CloseTurn(s, End(s), None, step), Untouched, step = pc,
         RowSeen' <=> RowSeen,
         \A o \in Speakers : PassedOver(o)' => PassedOver(o) \/ o = s,
         HALF =< End(s) - open_turns[s] =>
           \A o \in Speakers \ {s} : IsOpen(o) => End(s) =< open_turns[o]
  PROVE  /\ TurnShape' /\ TurnChain' /\ LaterAreShort' /\ SelectedTurn'
         /\ LogOK' /\ BufferOK' /\ NoOverlap'
<1> USE GeometryAssumption DEF IInv, TurnInv, IsOpen, None
<1>1. /\ pc' = step /\ UNCHANGED <<total, next_sample, frames, base_sample, row>>
      /\ open_turns' = [open_turns EXCEPT ![s] = None]
      /\ pending_ends' = [pending_ends EXCEPT ![s] = None]
  BY DEF CloseTurn, Raise, Untouched
<1>2. /\ open_turns' \in [Speakers -> Nat \cup {None}]
      /\ open_turns \in [Speakers -> Nat \cup {None}]
      /\ pending_ends \in [Speakers -> Nat \cup {None}]
      /\ frames \in Nat /\ total \in Nat /\ base_sample \in Nat
  BY DEF TypeOK
<1>3. /\ open_turns'[s] = None /\ pending_ends'[s] = None
      /\ \A o \in Speakers \ {s} : /\ open_turns'[o] = open_turns[o]
                                  /\ pending_ends'[o] = pending_ends[o]
                                  /\ End(o)' = End(o)
  BY <1>1, <1>2 DEF End
<1>4. TurnShape'
  BY <1>1, <1>3 DEF TurnShape
<1>5. TurnChain'
  BY <1>3 DEF TurnChain
<1>6. LaterAreShort'
  BY <1>1, <1>3 DEF LaterAreShort
<1>7. SelectedTurn'
  BY <1>1, <1>3 DEF SelectedTurn, Others
<1>8. BufferOK'
  BY <1>1, <1>3 DEF BufferOK
<1>9. /\ open_turns[s] \in Nat /\ End(s) \in Nat /\ End(s) =< frames
      /\ End(s) - open_turns[s] < MAX_TURN
  BY OpenTurn
<1>10. \A i \in 1 .. Len(emitted) :
         emitted[i].lower \in Nat /\ emitted[i].upper \in Nat
  BY SegmentTyped DEF TypeOK
<1>11. \A i \in 1 .. Len(emitted) : emitted[i].upper =< open_turns[s]
  BY DEF LogOK
<1>12. frames =< total
  <2>1. rows \in Nat
    BY DEF TypeOK
  <2>2. QED
    BY <1>2, <2>1 DEF FlowOK
<1>13. CASE emitted' = emitted
  <2>1. NoOverlap'
    BY <1>13 DEF NoOverlap
  <2>2. LogOK'
    BY <1>1, <1>3, <1>13 DEF LogOK
  <2>3. QED
    BY <1>4, <1>5, <1>6, <1>7, <1>8, <2>1, <2>2
<1>14. CASE emitted' # emitted
  <2> DEFINE n == Len(emitted)
  <2>1. /\ HALF =< End(s) - open_turns[s]
        /\ Len(emitted') = n + 1
        /\ \A i \in 1 .. n : emitted'[i] = emitted[i]
        /\ emitted'[n + 1].lower = open_turns[s]
        /\ emitted'[n + 1].upper = End(s)
    BY <1>9, <1>14, CloseLog
  <2>2. n \in Nat
    BY LenProperties DEF TypeOK
  <2>3. NoOverlap'
    <3>1. SUFFICES ASSUME NEW i \in 1 .. n + 1, NEW j \in 1 .. n + 1, i < j
                   PROVE  emitted'[i].upper =< emitted'[j].lower
      BY <2>1 DEF NoOverlap
    <3>2. i \in 1 .. n
      BY <2>2, <3>1
    <3>3. CASE j = n + 1
      BY <1>11, <2>1, <3>2, <3>3
    <3>4. CASE j # n + 1
      <4>1. j \in 1 .. n
        BY <2>2, <3>4
      <4>2. QED
        BY <2>1, <3>1, <3>2, <4>1 DEF NoOverlap
    <3>5. QED
      BY <3>3, <3>4
  <2>4. LogOK'
    <3>1. \A o \in Speakers : open_turns'[o] # None => End(s) =< open_turns'[o]
      BY <1>3, <2>1
    <3>2. SUFFICES ASSUME NEW i \in 1 .. n + 1
                   PROVE  /\ HALF =< emitted'[i].upper - emitted'[i].lower
                          /\ emitted'[i].upper - emitted'[i].lower =< MAX_TURN
                          /\ emitted'[i].upper =<
                               (IF RowSeen' THEN frames + 1 ELSE frames)
                          /\ emitted'[i].upper =< total
                          /\ \A o \in Speakers : open_turns'[o] # None =>
                               emitted'[i].upper =< open_turns'[o]
      BY <1>1, <2>1 DEF LogOK
    <3>3. CASE i = n + 1
      BY <1>2, <1>9, <1>12, <2>1, <3>1, <3>3
    <3>4. CASE i # n + 1
      BY <1>3, <2>1, <2>2, <3>4 DEF LogOK
    <3>5. QED
      BY <3>3, <3>4
  <2>5. QED
    BY <1>4, <1>5, <1>6, <1>7, <1>8, <2>3, <2>4
<1>15. QED
  BY <1>13, <1>14

\* The checks inside _close_turn and _slice cannot refuse a turn that is closed
\* where it paused.
LEMMA NotRejected ==
  ASSUME IInv, pc # "failed", NEW s \in Speakers, IsOpen(s),
         ~(RowSeen /\ s = row)
  PROVE  Rejection(open_turns[s], End(s)) = "none"
<1>1. /\ open_turns[s] \in Nat /\ End(s) \in Nat /\ End(s) =< frames
      /\ open_turns[s] < End(s) /\ End(s) - open_turns[s] < MAX_TURN
  BY OpenTurn
<1>2. base_sample =< open_turns[s]
  BY DEF IInv, TurnInv, BufferOK
<1>3. frames \in Nat /\ rows \in Nat /\ total \in Nat /\ base_sample \in Nat
  BY DEF IInv, TypeOK
<1>4. frames + rows =< total
  BY DEF IInv, TurnInv, FlowOK
<1>5. QED
  BY <1>1, <1>2, <1>3, <1>4, GeometryAssumption DEF Rejection

\* The whole step of an action that closes a turn where it paused.
LEMMA CloseStep ==
  ASSUME IInv, TypeOK', pc # "failed",
         NEW s \in Speakers, NEW step \in {"scan", "confirm", "eof"},
         IsOpen(s), ~(RowSeen /\ s = row),
         CloseTurn(s, End(s), None, step), Untouched, step = pc,
         pc' # "failed" => (RowSeen' <=> RowSeen),
         pc' # "failed" =>
           \A o \in Speakers : PassedOver(o)' => PassedOver(o) \/ o = s,
         HALF =< End(s) - open_turns[s] =>
           \A o \in Speakers \ {s} : IsOpen(o) => End(s) =< open_turns[o]
  PROVE  /\ NoOverlap' /\ NoInternalError' /\ BufferSuffices'
         /\ pc' # "failed" => TurnInv'
<1>1. Rejection(open_turns[s], End(s)) = "none"
  BY NotRejected
<1>2. NoInternalError' /\ BufferSuffices'
  BY <1>1 DEF CloseTurn, Raise, IInv, NoInternalError, BufferSuffices
<1>3. CASE pc' = "failed"
  <2>1. emitted' = emitted
    BY <1>3 DEF CloseTurn
  <2>2. QED
    BY <1>2, <1>3, <2>1 DEF NoOverlap, IInv
<1>4. CASE pc' # "failed"
  <2>1. /\ TurnShape' /\ TurnChain' /\ LaterAreShort' /\ SelectedTurn'
        /\ LogOK' /\ BufferOK' /\ NoOverlap'
    BY <1>4, RemoveTurn
  <2>2. pc' = pc
    BY <1>4 DEF CloseTurn, Raise
  <2>3. FlowOK'
    BY <2>2 DEF FlowOK, Untouched, IInv, TurnInv
  <2>4. QED
    BY <1>2, <2>1, <2>3 DEF TurnInv
<1>5. QED
  BY <1>3, <1>4

LEMMA InactiveStep ==
  ASSUME IInv, TypeOK', Inactive
  PROVE  /\ NoOverlap' /\ NoInternalError' /\ BufferSuffices'
         /\ pc' # "failed" => TurnInv'
<1> USE GeometryAssumption
<1>1. /\ pc = "scan" /\ cursor \in Speakers /\ cursor # row
      /\ cursor' = cursor + 1
      /\ UNCHANGED <<total, next_sample, frames, base_sample, rows, next_start,
                     row, input>>
      /\ Untouched
  BY DEF Inactive, IInv, TypeOK, Speakers, Untouched
<1>2. cursor \in Int /\ row \in Int /\ cursor \in Nat /\ frames \in Nat
  BY <1>1 DEF IInv, TypeOK, Speakers, None
<1>3. ~(RowSeen /\ cursor = row)
  BY <1>1
<1>4. pc' = "scan" => (RowSeen' <=> RowSeen)
  BY <1>1, <1>2 DEF RowSeen
<1>5. \A o \in Speakers : PassedOver(o)' => PassedOver(o) \/ o = cursor
  BY <1>1, <1>2 DEF PassedOver, Speakers
<1>6. CASE ~IsOpen(cursor)
  <2>1. UNCHANGED <<open_turns, pending_ends, emitted, failure, pc>>
    BY <1>6 DEF Inactive
  <2>2. \A o \in Speakers : End(o)' = End(o)
    BY <1>1, <2>1 DEF End
  <2>3. TurnShape'
    BY <1>1, <1>4, <1>5, <1>6, <2>1, <2>2 DEF TurnShape, IInv, TurnInv, IsOpen
  <2>4. TurnChain' /\ LaterAreShort' /\ SelectedTurn'
    BY <1>1, <1>4, <2>1, <2>2
       DEF TurnChain, LaterAreShort, SelectedTurn, Others, IInv, TurnInv, IsOpen
  <2>5. LogOK' /\ BufferOK' /\ FlowOK'
    BY <1>1, <1>4, <2>1
       DEF LogOK, BufferOK, FlowOK, IInv, TurnInv, IsOpen
  <2>6. NoOverlap' /\ NoInternalError' /\ BufferSuffices'
    BY <2>1 DEF NoOverlap, NoInternalError, BufferSuffices, IInv
  <2>7. QED
    BY <2>3, <2>4, <2>5, <2>6 DEF TurnInv
<1>7. CASE IsOpen(cursor) /\ ~(frames + 1 - End(cursor) > SEC)
  <2>1. /\ UNCHANGED <<open_turns, emitted, failure, pc>>
        /\ pending_ends' = [pending_ends EXCEPT ![cursor] = End(cursor)]
    BY <1>7 DEF Inactive
  <2>2. /\ open_turns[cursor] \in Nat /\ End(cursor) \in Nat
        /\ open_turns[cursor] < End(cursor) /\ End(cursor) =< frames
        /\ frames - End(cursor) =< SEC
        /\ End(cursor) - open_turns[cursor] < MAX_TURN
    BY <1>1, <1>3, <1>7, OpenTurn
  <2>3. /\ pending_ends'[cursor] = End(cursor)
        /\ \A o \in Speakers \ {cursor} : pending_ends'[o] = pending_ends[o]
    BY <1>1, <2>1 DEF IInv, TypeOK
  <2>4. \A o \in Speakers : End(o)' = End(o)
    BY <1>1, <2>2, <2>3 DEF End, None
  <2>5. TurnShape'
    <3>1. SUFFICES ASSUME NEW o \in Speakers
                   PROVE  /\ pending_ends'[o] # None =>
                               /\ open_turns[o] # None
                               /\ open_turns[o] < pending_ends'[o]
                               /\ pending_ends'[o] =< frames
                               /\ frames - pending_ends'[o] =< SEC
                               /\ ~(RowSeen /\ o = row)
                          /\ open_turns[o] # None => open_turns[o] =< frames
                          /\ open_turns[o] # None /\ ~(RowSeen /\ o = row) =>
                               /\ open_turns[o] < frames
                               /\ End(o) - open_turns[o] < MAX_TURN
                          /\ (PassedOver(o) \/ o = cursor)
                               /\ open_turns[o] # None =>
                               /\ pending_ends'[o] # None
                               /\ frames + 1 - pending_ends'[o] =< SEC
      BY <1>1, <1>4, <1>5, <2>1, <2>4 DEF TurnShape, IsOpen
    <3>2. CASE o = cursor
      BY <1>2, <1>3, <1>7, <2>2, <2>3, <3>2 DEF IsOpen, None
    <3>3. CASE o # cursor
      BY <1>1, <2>3, <3>3 DEF TurnShape, IInv, TurnInv, IsOpen
    <3>4. QED
      BY <3>2, <3>3
  <2>6. TurnChain' /\ LaterAreShort' /\ SelectedTurn'
    BY <1>1, <1>4, <2>1, <2>4
       DEF TurnChain, LaterAreShort, SelectedTurn, Others, IInv, TurnInv, IsOpen
  <2>7. LogOK' /\ BufferOK' /\ FlowOK'
    BY <1>1, <1>4, <2>1
       DEF LogOK, BufferOK, FlowOK, IInv, TurnInv, IsOpen
  <2>8. NoOverlap' /\ NoInternalError' /\ BufferSuffices'
    BY <2>1 DEF NoOverlap, NoInternalError, BufferSuffices, IInv
  <2>9. QED
    BY <2>5, <2>6, <2>7, <2>8 DEF TurnInv
<1>8. CASE IsOpen(cursor) /\ frames + 1 - End(cursor) > SEC
  <2>1. CloseTurn(cursor, End(cursor), None, "scan")
    BY <1>8 DEF Inactive
  <2>2. pc' \in {"scan", "failed"}
    BY <2>1 DEF CloseTurn, Raise
  \* The pause that is over first belongs to the turn that comes first.
  <2>3. ASSUME NEW o \in Speakers \ {cursor}, IsOpen(o)
        PROVE  End(cursor) =< open_turns[o]
    <3>1. /\ open_turns[cursor] \in Nat /\ End(cursor) \in Nat
          /\ open_turns[cursor] < End(cursor) /\ End(cursor) =< frames
      BY <1>1, <1>3, <1>8, OpenTurn
    <3>2. /\ open_turns[o] \in Nat /\ End(o) \in Nat
          /\ ~(RowSeen /\ o = row) => frames - End(o) =< SEC
      BY <1>1, <2>3, OpenTurn
    <3>3. RowSeen /\ o = row => End(o) = frames
      BY <1>1 DEF IInv, TurnInv, TurnShape, End
    <3>4. End(cursor) =< open_turns[o] \/ End(o) =< open_turns[cursor]
      BY <1>1, <1>8, <2>3 DEF IInv, TurnInv, TurnChain
    <3>5. ~(End(o) =< open_turns[cursor])
      BY <1>2, <1>8, <3>1, <3>2, <3>3
    <3>6. QED
      BY <3>4, <3>5
  <2>4. QED
    BY <1>1, <1>3, <1>4, <1>5, <1>8, <2>1, <2>2, <2>3, CloseStep
<1>9. QED
  BY <1>6, <1>7, <1>8

LEMMA ActiveStep ==
  ASSUME IInv, TypeOK', Active
  PROVE  /\ NoOverlap' /\ NoInternalError' /\ BufferSuffices'
         /\ pc' # "failed" => TurnInv'
<1> USE GeometryAssumption DEF IsOpen
<1>1. /\ pc = "scan" /\ pc' = "confirm" /\ cursor = row /\ row \in Speakers
      /\ UNCHANGED <<total, next_sample, frames, base_sample, rows, next_start, row, input,
                     cursor, emitted, failure>>
      /\ ~RowSeen /\ RowSeen'
  BY DEF Active, Untouched, RowSeen, IInv, TypeOK, Speakers, None
<1>2. /\ open_turns \in [Speakers -> Nat \cup {None}]
      /\ pending_ends \in [Speakers -> Nat \cup {None}]
      /\ frames \in Nat /\ None \notin Nat
  BY DEF IInv, TypeOK, None
<1>3. TurnShape /\ TurnChain /\ LaterAreShort /\ LogOK /\ BufferOK /\ FlowOK
  BY <1>1 DEF IInv, TurnInv
<1>4. /\ open_turns'[row] = IF IsOpen(row) THEN open_turns[row] ELSE frames
      /\ pending_ends'[row] = None
  BY <1>1, <1>2 DEF Active, Absorbed
<1>5. ASSUME NEW o \in Speakers \ {row}, open_turns'[o] # None
      PROVE  /\ open_turns'[o] = open_turns[o]
             /\ pending_ends'[o] = pending_ends[o]
             /\ IsOpen(o)
             /\ pending_ends[row] = None \/ open_turns[o] < pending_ends[row]
  BY <1>1, <1>2, <1>5 DEF Active, Absorbed
<1>6. ASSUME NEW o \in Speakers \ {row}, open_turns'[o] = None
      PROVE  pending_ends'[o] = None
  BY <1>1, <1>2, <1>3, <1>6 DEF Active, Absorbed, TurnShape
<1>7. \A o \in Speakers : IsOpen(o) =>
        /\ open_turns[o] \in Nat /\ open_turns[o] < End(o) /\ End(o) =< frames
        /\ End(o) \in Nat
        /\ frames - open_turns[o] < MAX_TURN + SEC
  BY <1>1, OpenTurn
<1>8. /\ End(row)' = frames
      /\ \A o \in Speakers \ {row} : open_turns'[o] # None => End(o)' = End(o)
  BY <1>1, <1>4, <1>5 DEF End
<1>9. TurnShape'
  <2>1. SUFFICES ASSUME NEW o \in Speakers
                 PROVE  /\ pending_ends'[o] # None =>
                             /\ open_turns'[o] # None
                             /\ open_turns'[o] < pending_ends'[o]
                             /\ pending_ends'[o] =< frames
                             /\ frames - pending_ends'[o] =< SEC
                             /\ o # row
                        /\ open_turns'[o] # None => open_turns'[o] =< frames
                        /\ open_turns'[o] # None /\ o # row =>
                             /\ open_turns'[o] < frames
                             /\ End(o)' - open_turns'[o] < MAX_TURN
                        /\ PassedOver(o)' /\ open_turns'[o] # None =>
                             /\ pending_ends'[o] # None
                             /\ frames + 1 - pending_ends'[o] =< SEC
    BY <1>1 DEF TurnShape
  <2>2. CASE o = row
    BY <1>1, <1>2, <1>4, <1>7, <2>2 DEF PassedOver, End, None
  <2>3. CASE o # row
    <3>1. PassedOver(o)' => PassedOver(o)
      BY <1>1 DEF PassedOver
    <3>2. QED
      BY <1>1, <1>3, <1>5, <1>6, <1>8, <2>3, <3>1 DEF TurnShape
  <2>4. QED
    BY <2>2, <2>3
<1>10. \A o \in Speakers \ {row} :
         open_turns'[o] # None => End(o)' =< open_turns'[row]
  <2>1. SUFFICES ASSUME NEW o \in Speakers \ {row}, open_turns'[o] # None
                 PROVE  End(o) =< open_turns'[row]
    BY <1>8
  <2>2. IsOpen(o) /\ End(o) =< frames /\ open_turns[o] < frames
    BY <1>2, <1>5, <1>7, <2>1
  <2>3. CASE ~IsOpen(row)
    BY <1>4, <2>2, <2>3
  <2>4. CASE IsOpen(row)
    <3>1. End(o) =< open_turns[row] \/ End(row) =< open_turns[o]
      BY <1>1, <1>3, <2>2, <2>4 DEF TurnChain
    <3>2. ~(End(row) =< open_turns[o])
      BY <1>1, <1>2, <1>5, <1>7, <2>1, <2>2, <2>4 DEF End
    <3>3. QED
      BY <1>4, <2>4, <3>1, <3>2
  <2>5. QED
    BY <2>3, <2>4
<1>11. TurnChain'
  BY <1>3, <1>5, <1>8, <1>10 DEF TurnChain
<1>12. LaterAreShort'
  <2>1. SUFFICES ASSUME NEW s \in Speakers \ {row}, NEW o \in Speakers, s # o,
                        open_turns'[s] # None, open_turns'[o] # None,
                        End(o)' =< open_turns'[s]
                 PROVE  End(s)' - open_turns'[s] < HALF
    BY <1>1 DEF LaterAreShort
  <2>2. open_turns'[s] = open_turns[s] /\ IsOpen(s) /\ open_turns[s] < frames
    BY <1>2, <1>5, <1>7, <2>1
  <2>3. o # row
    BY <1>1, <1>2, <1>4, <2>1, <2>2 DEF End
  <2>4. QED
    BY <1>1, <1>3, <1>5, <1>8, <2>1, <2>2, <2>3 DEF LaterAreShort
<1>13. SelectedTurn'
  BY <1>1, <1>2, <1>4, <1>7 DEF SelectedTurn
<1>14. LogOK'
  <2>1. \A k \in 1 .. Len(emitted) : emitted[k].upper \in Nat
    BY SegmentTyped DEF IInv, TypeOK
  <2>2. \A k \in 1 .. Len(emitted) : emitted[k].upper =< frames
    BY <1>1, <1>3 DEF LogOK
  <2>3. \A k \in 1 .. Len(emitted), o \in Speakers :
          open_turns'[o] # None => emitted[k].upper =< open_turns'[o]
    BY <1>1, <1>3, <1>4, <1>5, <2>2 DEF LogOK
  <2>4. QED
    BY <1>1, <1>2, <1>3, <2>1, <2>2, <2>3 DEF LogOK
<1>15. BufferOK' /\ FlowOK'
  BY <1>1, <1>3, <1>4, <1>5 DEF BufferOK, FlowOK
<1>16. NoOverlap' /\ NoInternalError' /\ BufferSuffices'
  BY <1>1 DEF NoOverlap, NoInternalError, BufferSuffices, IInv
<1>17. QED
  BY <1>9, <1>11, <1>12, <1>13, <1>14, <1>15, <1>16 DEF TurnInv

LEMMA ConfirmChangeStep ==
  ASSUME IInv, TypeOK', ConfirmChange
  PROVE  /\ NoOverlap' /\ NoInternalError' /\ BufferSuffices'
         /\ pc' # "failed" => TurnInv'
<1>1. PICK s \in Others : CloseTurn(s, End(s), None, "confirm")
  BY DEF ConfirmChange
<1>2. /\ s \in Speakers /\ s # row /\ IsOpen(s) /\ pc = "confirm"
      /\ Untouched /\ cursor' = cursor /\ row' = row
      /\ pc' \in {"confirm", "failed"}
  BY <1>1 DEF ConfirmChange, Others, CloseTurn, Raise, Untouched
<1>3. pc' # "failed" => (RowSeen' <=> RowSeen)
  BY <1>2 DEF RowSeen
<1>4. \A o \in Speakers : PassedOver(o)' => PassedOver(o)
  BY <1>2 DEF PassedOver
\* A turn long enough to be transcribed is the earliest of those still open.
<1>5. ASSUME HALF =< End(s) - open_turns[s],
             NEW o \in Speakers \ {s}, IsOpen(o)
      PROVE  End(s) =< open_turns[o]
  <2>1. open_turns[s] \in Nat /\ End(s) \in Nat
    BY <1>2, OpenTurn
  <2>2. End(o) =< open_turns[s] => End(s) - open_turns[s] < HALF
    BY <1>2, <1>5 DEF IInv, TurnInv, LaterAreShort
  <2>3. QED
    BY <1>2, <1>5, <2>1, <2>2, GeometryAssumption DEF IInv, TurnInv, TurnChain
<1>6. QED
  BY <1>1, <1>2, <1>3, <1>4, <1>5, CloseStep

LEMMA CloseAtEofStep ==
  ASSUME IInv, TypeOK', CloseAtEof
  PROVE  /\ NoOverlap' /\ NoInternalError' /\ BufferSuffices'
         /\ pc' # "failed" => TurnInv'
<1>1. PICK s \in Speakers : IsOpen(s) /\ CloseTurn(s, End(s), None, "eof")
  BY DEF CloseAtEof
<1>2. /\ pc = "eof" /\ Untouched /\ pc' \in {"eof", "failed"}
  BY <1>1 DEF CloseAtEof, CloseTurn, Raise
<1>3. ~RowSeen /\ ~RowSeen'
  BY <1>2 DEF RowSeen
<1>4. \A o \in Speakers : ~PassedOver(o)'
  BY <1>2 DEF PassedOver
<1>5. ASSUME HALF =< End(s) - open_turns[s],
             NEW o \in Speakers \ {s}, IsOpen(o)
      PROVE  End(s) =< open_turns[o]
  <2>1. open_turns[s] \in Nat /\ End(s) \in Nat
    BY <1>1, <1>2, OpenTurn
  <2>2. End(o) =< open_turns[s] => End(s) - open_turns[s] < HALF
    BY <1>1, <1>2, <1>3, <1>5 DEF IInv, TurnInv, LaterAreShort
  <2>3. QED
    BY <1>1, <1>2, <1>5, <2>1, <2>2, GeometryAssumption
       DEF IInv, TurnInv, TurnChain
<1>6. QED
  BY <1>1, <1>2, <1>3, <1>4, <1>5, CloseStep

LEMMA CutLongTurnStep ==
  ASSUME IInv, TypeOK', CutLongTurn
  PROVE  /\ NoOverlap' /\ NoInternalError' /\ BufferSuffices'
         /\ pc' # "failed" => TurnInv'
<1> USE GeometryAssumption DEF IsOpen
<1> DEFINE boundary == open_turns[row] + MAX_TURN
           start == IF frames + 1 > boundary THEN boundary ELSE None
<1>1. /\ pc = "confirm" /\ cursor = row /\ row \in Speakers /\ cursor' = row + 1
      /\ UNCHANGED <<total, next_sample, frames, base_sample, rows, next_start,
                     row, input>>
      /\ RowSeen /\ IsOpen(row) /\ pc' \in {"scan", "failed"}
      /\ frames + 1 - open_turns[row] < HALF \/ Others = {}
      /\ rows > 0
  BY DEF CutLongTurn, Remainder, CloseTurn, Raise, Untouched, RowSeen, IInv, TypeOK,
         RowOK, Speakers, None
<1>2. /\ open_turns \in [Speakers -> Nat \cup {None}]
      /\ pending_ends \in [Speakers -> Nat \cup {None}]
      /\ frames \in Nat /\ total \in Nat /\ rows \in Nat /\ base_sample \in Nat
      /\ row \in Int /\ None \notin Nat /\ Speakers \subseteq Nat
      /\ open_turns[row] \in Nat
  BY <1>1 DEF IInv, TypeOK, None, Speakers
<1>3. /\ TurnShape /\ TurnChain /\ LaterAreShort /\ SelectedTurn /\ LogOK
      /\ BufferOK /\ FlowOK /\ NoOverlap
  BY <1>1 DEF IInv, TurnInv
<1>4. pc' = "scan" => RowSeen'
  BY <1>1, <1>2 DEF RowSeen
<1>5. \A o \in Speakers : PassedOver(o)' => PassedOver(o)
  BY <1>1, <1>2 DEF PassedOver
<1>6. pending_ends[row] = None
  BY <1>1, <1>3 DEF TurnShape
<1>7. \A k \in 1 .. Len(emitted) :
        emitted[k].lower \in Nat /\ emitted[k].upper \in Nat
  BY SegmentTyped DEF IInv, TypeOK
<1>8. CASE frames + 1 < boundary
  <2>1. /\ UNCHANGED <<open_turns, pending_ends, emitted, failure>>
        /\ pc' = "scan"
    BY <1>2, <1>8 DEF CutLongTurn, Remainder
  <2>2. \A o \in Speakers : End(o)' = End(o)
    BY <1>1, <2>1 DEF End
  <2>3. TurnShape'
    BY <1>1, <1>3, <1>4, <1>5, <2>1, <2>2 DEF TurnShape
  <2>4. TurnChain' /\ LaterAreShort'
    BY <1>1, <1>3, <1>4, <2>1, <2>2 DEF TurnChain, LaterAreShort
  <2>5. SelectedTurn'
    BY <1>1, <1>2, <1>3, <1>8, <2>1 DEF SelectedTurn, Others
  <2>6. LogOK' /\ BufferOK' /\ FlowOK'
    BY <1>1, <1>3, <1>4, <2>1 DEF LogOK, BufferOK, FlowOK
  <2>7. NoOverlap' /\ NoInternalError' /\ BufferSuffices'
    BY <2>1 DEF NoOverlap, NoInternalError, BufferSuffices, IInv
  <2>8. QED
    BY <2>3, <2>4, <2>5, <2>6, <2>7 DEF TurnInv
\* The turn has lasted 25 s: it is the only one open, and the cut closes it.
<1>9. CASE frames + 1 >= boundary
  <2>1. CloseTurn(row, boundary, start, "scan")
    BY <1>9 DEF CutLongTurn, Remainder
  <2>2. \A o \in Speakers \ {row} : open_turns[o] = None
    BY <1>1, <1>2, <1>9 DEF Others
  <2>3. boundary - open_turns[row] = MAX_TURN /\ boundary \in Nat
    BY <1>2
  <2>4. boundary =< total /\ base_sample =< open_turns[row]
    BY <1>1, <1>2, <1>3, <1>9 DEF FlowOK, BufferOK
  <2>5. Rejection(open_turns[row], boundary) = "none"
    BY <1>2, <2>3, <2>4 DEF Rejection
  <2>6. NoInternalError' /\ BufferSuffices'
    BY <2>1, <2>5
       DEF CloseTurn, Raise, IInv, NoInternalError, BufferSuffices
  <2>7. CASE pc' = "failed"
    <3>1. emitted' = emitted
      BY <2>1, <2>7 DEF CloseTurn
    <3>2. QED
      BY <1>3, <2>6, <2>7, <3>1 DEF NoOverlap
  <2>8. CASE pc' # "failed"
    <3> DEFINE n == Len(emitted)
    <3>1. /\ pc' = "scan"
          /\ open_turns' = [open_turns EXCEPT ![row] = start]
          /\ pending_ends' = [pending_ends EXCEPT ![row] = None]
      BY <2>1, <2>8 DEF CloseTurn, Raise
    <3>2. /\ open_turns'[row] = start /\ pending_ends'[row] = None
          /\ \A o \in Speakers \ {row} :
               open_turns'[o] = None /\ pending_ends'[o] = None
      BY <1>1, <1>2, <1>3, <2>2, <3>1 DEF TurnShape
    <3>3. start # None => start = boundary /\ boundary =< frames
      BY <1>2, <2>3
    <3>4. TurnShape'
      BY <1>1, <1>4, <3>1, <3>2, <3>3 DEF TurnShape, PassedOver
    <3>5. TurnChain' /\ LaterAreShort'
      BY <3>2 DEF TurnChain, LaterAreShort
    <3>6. SelectedTurn'
      <4>1. frames - open_turns[row] < MAX_TURN + SEC
        BY <1>1, <1>3 DEF SelectedTurn
      <4>2. frames + 1 - boundary < MAX_TURN
        BY <1>2, <4>1
      <4>3. Others' = {}
        BY <1>1, <3>2 DEF Others
      <4>4. QED
        BY <1>1, <1>2, <2>3, <3>2, <3>3, <4>2, <4>3 DEF SelectedTurn
    <3>7. BufferOK'
      BY <1>1, <1>2, <1>3, <2>3, <2>4, <3>1, <3>2, <3>3 DEF BufferOK
    <3>8. FlowOK'
      BY <1>1, <1>3, <3>1 DEF FlowOK
    <3>9. emitted' # emitted =>
            /\ Len(emitted') = n + 1
            /\ \A k \in 1 .. n : emitted'[k] = emitted[k]
            /\ emitted'[n + 1].lower = open_turns[row]
            /\ emitted'[n + 1].upper = boundary
      BY <1>1, <2>1, <2>3, CloseLog DEF IInv
    <3>10. n \in Nat
      BY LenProperties DEF IInv, TypeOK
    <3>11. \A k \in 1 .. n : emitted[k].upper =< open_turns[row]
      BY <1>1, <1>3 DEF LogOK
    <3>12. NoOverlap'
      <4>1. CASE emitted' = emitted
        BY <1>3, <4>1 DEF NoOverlap
      <4>2. CASE emitted' # emitted
        <5>1. SUFFICES ASSUME NEW i \in 1 .. n + 1, NEW j \in 1 .. n + 1, i < j
                       PROVE  emitted'[i].upper =< emitted'[j].lower
          BY <3>9, <4>2 DEF NoOverlap
        <5>2. i \in 1 .. n
          BY <3>10, <5>1
        <5>3. CASE j = n + 1
          BY <3>9, <3>11, <4>2, <5>2, <5>3
        <5>4. CASE j # n + 1
          <6>1. j \in 1 .. n
            BY <3>10, <5>4
          <6>2. QED
            BY <1>3, <3>9, <4>2, <5>1, <5>2, <6>1 DEF NoOverlap
        <5>5. QED
          BY <5>3, <5>4
      <4>3. QED
        BY <4>1, <4>2
    <3>13. LogOK'
      <4>1. \A o \in Speakers : open_turns'[o] # None => o = row
        BY <3>2
      <4>2. \A k \in 1 .. n :
              /\ HALF =< emitted[k].upper - emitted[k].lower
              /\ emitted[k].upper - emitted[k].lower =< MAX_TURN
              /\ emitted[k].upper =< frames + 1
              /\ emitted[k].upper =< total
              /\ emitted[k].upper =< boundary
        <5> SUFFICES ASSUME NEW k \in 1 .. n
                     PROVE  /\ HALF =< emitted[k].upper - emitted[k].lower
                            /\ emitted[k].upper - emitted[k].lower =< MAX_TURN
                            /\ emitted[k].upper =< frames + 1
                            /\ emitted[k].upper =< total
                            /\ emitted[k].upper =< boundary
          OBVIOUS
        <5>1. /\ HALF =< emitted[k].upper - emitted[k].lower
              /\ emitted[k].upper - emitted[k].lower =< MAX_TURN
              /\ emitted[k].upper =< total
              /\ emitted[k].upper =< (IF RowSeen THEN frames + 1 ELSE frames)
          BY <1>3 DEF LogOK
        <5>2. emitted[k].upper =< open_turns[row]
          BY <3>11
        <5>3. /\ emitted[k].upper =< frames + 1
              /\ emitted[k].upper =< boundary
          BY <1>1, <1>2, <1>7, <2>3, <5>1, <5>2
        <5>4. QED
          BY <5>1, <5>3
      <4>3. SUFFICES ASSUME NEW k \in 1 .. Len(emitted')
                     PROVE  /\ HALF =< emitted'[k].upper - emitted'[k].lower
                            /\ emitted'[k].upper - emitted'[k].lower =< MAX_TURN
                            /\ emitted'[k].upper =< frames + 1
                            /\ emitted'[k].upper =< total
                            /\ emitted'[k].upper =< boundary
        BY <1>1, <1>4, <3>1, <3>2, <3>3, <4>1 DEF LogOK
      <4>4. CASE k \in 1 .. n /\ emitted'[k] = emitted[k]
        BY <4>2, <4>4
      <4>5. CASE k = n + 1 /\ emitted' # emitted
        BY <1>2, <1>9, <2>3, <2>4, <3>9, <4>5
      <4>6. QED
        BY <3>9, <3>10, <4>3, <4>4, <4>5
    <3>14. QED
      BY <2>6, <3>4, <3>5, <3>6, <3>7, <3>8, <3>12, <3>13 DEF TurnInv
  <2>9. QED
    BY <2>7, <2>8
<1>10. QED
  BY <1>2, <1>8, <1>9

LEMMA RowDoneStep ==
  ASSUME IInv, TypeOK', RowDone
  PROVE  /\ NoOverlap' /\ NoInternalError' /\ BufferSuffices'
         /\ TurnInv'
<1> USE GeometryAssumption DEF IsOpen
<1>1. /\ pc = "scan" /\ pc' = "rows" /\ cursor = Slots
      /\ frames' = frames + 1 /\ rows' = rows - 1
      /\ UNCHANGED <<total, next_sample, base_sample, next_start, row, cursor,
                     input, open_turns, pending_ends, emitted, failure>>
      /\ ~RowSeen'
  BY DEF RowDone, RowSeen
<1>2. /\ open_turns \in [Speakers -> Nat \cup {None}]
      /\ pending_ends \in [Speakers -> Nat \cup {None}]
      /\ frames \in Nat /\ total \in Nat /\ rows \in Nat /\ base_sample \in Nat
      /\ next_sample \in Nat /\ next_start \in Int
      /\ None \notin Nat /\ Speakers = 0 .. Slots - 1
  <2>1. TypeOK
    BY DEF IInv
  <2>2. QED
    BY ONLY <2>1 DEF TypeOK, None, Speakers
<1>3. /\ TurnShape /\ TurnChain /\ LaterAreShort /\ SelectedTurn /\ LogOK
      /\ BufferOK /\ FlowOK
  BY <1>1 DEF IInv, TurnInv
<1>4. \A s \in Speakers : ~PassedOver(s)'
  BY <1>1 DEF PassedOver
<1>5. \A s \in Speakers : s = row => RowSeen
  BY <1>1, <1>2 DEF RowSeen
\* Every open turn but the selected one has paused.
<1>6. ASSUME NEW s \in Speakers, IsOpen(s), s # row
      PROVE  /\ pending_ends[s] \in Nat /\ frames + 1 - pending_ends[s] =< SEC
             /\ End(s)' = End(s) /\ End(s) = pending_ends[s]
             /\ open_turns[s] < frames
  <2>1. PassedOver(s)
    BY <1>1, <1>2, <1>6 DEF PassedOver
  <2>2. pending_ends[s] # None /\ frames + 1 - pending_ends[s] =< SEC
    BY <1>3, <1>6, <2>1 DEF TurnShape
  <2>3. open_turns[s] < frames
    BY <1>3, <1>6 DEF TurnShape
  <2>4. QED
    BY <1>1, <1>2, <2>2, <2>3 DEF End
<1>7. ASSUME NEW s \in Speakers, IsOpen(s), s = row
      PROVE  /\ pending_ends[s] = None /\ End(s) = frames /\ End(s)' = frames + 1
             /\ open_turns[s] \in Nat /\ open_turns[s] =< frames
             /\ frames + 1 - open_turns[s] < MAX_TURN
             /\ Others # {} => frames + 1 - open_turns[s] < HALF
  <2>1. RowSeen /\ IsOpen(row)
    BY <1>5, <1>7
  <2>2. pending_ends[s] = None /\ open_turns[s] =< frames
    BY <1>3, <1>7, <2>1 DEF TurnShape
  <2>3. QED
    BY <1>1, <1>2, <1>3, <1>7, <2>1, <2>2 DEF SelectedTurn, End
<1>8. TurnShape'
  <2>1. SUFFICES ASSUME NEW s \in Speakers
                 PROVE  /\ pending_ends[s] # None =>
                             /\ IsOpen(s)
                             /\ open_turns[s] < pending_ends[s]
                             /\ pending_ends[s] =< frames + 1
                             /\ frames + 1 - pending_ends[s] =< SEC
                        /\ IsOpen(s) =>
                             /\ open_turns[s] < frames + 1
                             /\ End(s)' - open_turns[s] < MAX_TURN
    BY <1>1, <1>2, <1>4 DEF TurnShape
  <2>2. CASE s = row
    BY <1>2, <1>3, <1>7, <2>2 DEF TurnShape
  <2>3. CASE s # row
    <3>1. ~(RowSeen /\ s = row)
      BY <2>3
    <3>2. QED
      BY <1>2, <1>3, <1>6, <2>3, <3>1 DEF TurnShape
  <2>4. QED
    BY <2>2, <2>3
<1>9. ASSUME NEW s \in Speakers, NEW o \in Speakers, s # o, IsOpen(s), IsOpen(o)
      PROVE  /\ End(o)' =< open_turns[s] <=> End(o) =< open_turns[s]
             /\ End(o) =< open_turns[s] \/ End(s) =< open_turns[o]
  BY <1>2, <1>3, <1>6, <1>7, <1>9 DEF TurnChain
<1>10. TurnChain'
  BY <1>1, <1>9 DEF TurnChain
<1>11. LaterAreShort'
  <2>1. SUFFICES ASSUME NEW s \in Speakers, NEW o \in Speakers, s # o,
                        IsOpen(s), IsOpen(o), End(o) =< open_turns[s]
                 PROVE  End(s)' - open_turns[s] < HALF
    BY <1>1, <1>9 DEF LaterAreShort
  <2>2. CASE s = row
    <3>1. o \in Others
      BY <2>1, <2>2 DEF Others
    <3>2. /\ End(s)' = frames + 1 /\ frames + 1 - open_turns[s] < HALF
      BY <1>7, <2>1, <2>2, <3>1
    <3>3. QED
      BY <1>2, <1>7, <2>1, <2>2, <3>2
  <2>3. CASE s # row
    <3>1. ~(RowSeen /\ s = row)
      BY <2>3
    <3>2. End(s) - open_turns[s] < HALF
      BY <1>3, <2>1, <3>1 DEF LaterAreShort
    <3>3. QED
      BY <1>6, <2>1, <2>3, <3>2
  <2>4. QED
    BY <2>2, <2>3
<1>12. SelectedTurn'
  BY <1>1 DEF SelectedTurn
<1>13. LogOK'
  <2>1. \A k \in 1 .. Len(emitted) : emitted[k].upper \in Nat
    BY SegmentTyped DEF IInv, TypeOK
  <2>2. \A k \in 1 .. Len(emitted) : emitted[k].upper =< frames + 1
    <3>1. \A k \in 1 .. Len(emitted) :
            emitted[k].upper =< (IF RowSeen THEN frames + 1 ELSE frames)
      BY <1>3 DEF LogOK
    <3>2. \A u \in Nat : u =< (IF RowSeen THEN frames + 1 ELSE frames) => u =< frames + 1
      BY <1>2
    <3>3. QED
      BY <2>1, <3>1, <3>2
  <2>3. QED
    BY <1>1, <1>3, <2>2 DEF LogOK
<1>14. BufferOK' /\ FlowOK'
  BY <1>1, <1>2, <1>3 DEF BufferOK, FlowOK
<1>15. NoOverlap' /\ NoInternalError' /\ BufferSuffices'
  BY <1>1 DEF NoOverlap, NoInternalError, BufferSuffices, IInv
<1>16. QED
  BY <1>8, <1>10, <1>11, <1>12, <1>13, <1>14, <1>15 DEF TurnInv

LEMMA FeedStep ==
  ASSUME IInv, TypeOK', Feed
  PROVE  /\ NoOverlap' /\ NoInternalError' /\ BufferSuffices'
         /\ pc' # "failed" => TurnInv'
<1>1. PICK n \in 1 .. MAX_FEED :
        /\ total' = total + n
        /\ IF total + n - base_sample > BUFFER
           THEN Raise("audio_buffer_full")
           ELSE pc' = "pump" /\ UNCHANGED failure
  BY DEF Feed
<1>2. /\ pc = "ready"
      /\ UNCHANGED <<next_sample, frames, base_sample, rows, next_start, row,
                     cursor, input, open_turns, pending_ends, emitted>>
  BY DEF Feed
<1>3. /\ total \in Nat /\ frames \in Nat /\ base_sample \in Nat /\ n \in Nat
      /\ next_sample \in Nat /\ n =< MAX_FEED
      /\ MAX_TURN \in Nat /\ SEC \in Nat /\ CHUNK \in Nat /\ FIRST \in Nat /\ BUFFER \in Nat
  BY <1>1, GeometryAssumption DEF IInv, TypeOK
<1>4. /\ rows = 0 /\ next_sample =< frames + rows /\ total - next_sample < Size
      /\ base_sample >= next_sample \/ base_sample >= frames - MAX_TURN - SEC
      /\ frames + rows =< total
  BY <1>2 DEF IInv, TurnInv, FlowOK, BufferOK
\* What is kept is at most an open turn, its pause and less than a chunk.
<1>5. total + n - base_sample =< BUFFER
  BY <1>3, <1>4, GeometryAssumption, BufferAssumption DEF Size
<1>6. pc' = "pump" /\ UNCHANGED failure
  BY <1>1, <1>3, <1>5
<1>7. /\ TurnShape' /\ TurnChain' /\ LaterAreShort' /\ SelectedTurn'
      /\ LogOK' /\ NoOverlap'
  BY <1>1, <1>2, <1>3, <1>6, QuietStep DEF SameTurns
<1>8. FlowOK' /\ BufferOK'
  BY <1>1, <1>2, <1>3, <1>4, <1>6 DEF FlowOK, BufferOK, IsOpen, IInv, TurnInv
<1>9. NoInternalError' /\ BufferSuffices'
  BY <1>6 DEF NoInternalError, BufferSuffices, IInv
<1>10. QED
  BY <1>7, <1>8, <1>9 DEF TurnInv

LEMMA TrimStep ==
  ASSUME IInv, TypeOK', Trim
  PROVE  /\ NoOverlap' /\ NoInternalError' /\ BufferSuffices'
         /\ pc' # "failed" => TurnInv'
<1>1. /\ pc = "rows" /\ rows = 0 /\ pc' \in {"eof", "pump", "failed"}
      /\ UNCHANGED <<total, frames, rows, next_start, row, cursor, input,
                     open_turns, pending_ends, emitted>>
      /\ failure' \in {failure, "diarization_cursor_invalid"}
  BY DEF Trim, Needed, Raise
<1>a. /\ NoOverlap' /\ NoInternalError' /\ BufferSuffices'
  BY <1>1 DEF NoOverlap, NoInternalError, BufferSuffices, IInv
<1>b. CASE pc' = "failed"
  BY <1>a, <1>b
<1>c. CASE pc' # "failed"
  <2>1. /\ MovesOn /\ next_sample' = next_start
        /\ pc' = IF input = "final" THEN "eof" ELSE "pump"
        /\ base_sample' \in {next_start, total, frames}
                             \cup {open_turns[s] : s \in {t \in Speakers : IsOpen(t)}}
        /\ base_sample' =< frames /\ base_sample' =< next_start
        /\ \A s \in Speakers : IsOpen(s) => base_sample' =< open_turns[s]
    BY <1>c DEF Trim, Needed, Raise
  <2>2. /\ total \in Nat /\ frames \in Nat /\ next_sample' \in Nat
        /\ MAX_TURN \in Nat /\ SEC \in Nat
    BY GeometryAssumption DEF IInv, TypeOK
  <2>3. FlowOK
    BY <1>1 DEF IInv, TurnInv
  <2>4. base_sample' >= next_sample' \/ base_sample' >= frames - MAX_TURN - SEC
    <3>1. CASE base_sample' \in {next_start, total, frames}
      BY <1>1, <2>1, <2>2, <2>3, <3>1 DEF FlowOK
    <3>2. CASE \E s \in Speakers : IsOpen(s) /\ base_sample' = open_turns[s]
      <4>1. PICK s \in Speakers : IsOpen(s) /\ base_sample' = open_turns[s]
        BY <3>2
      <4>2. open_turns[s] \in Nat /\ frames - open_turns[s] < MAX_TURN + SEC
        BY <1>1, <4>1, OpenTurn
      <4>3. QED
        BY <2>2, <4>1, <4>2
    <3>3. QED
      BY <2>1, <3>1, <3>2
  <2>5. BufferOK'
    BY <1>1, <2>1, <2>4 DEF BufferOK, IsOpen
  <2>6. FlowOK'
    BY <1>1, <1>c, <2>1, <2>2, <2>3 DEF FlowOK
  <2>7. /\ TurnShape' /\ TurnChain' /\ LaterAreShort' /\ SelectedTurn' /\ LogOK'
    BY <1>1, <1>c, <2>2, QuietStep DEF SameTurns
  <2>8. QED
    BY <1>a, <2>5, <2>6, <2>7 DEF TurnInv
<1>2. QED
  BY <1>b, <1>c

LEMMA DiarizeStep ==
  ASSUME IInv, TypeOK', Diarize
  PROVE  /\ NoOverlap' /\ NoInternalError' /\ BufferSuffices'
         /\ pc' # "failed" => TurnInv'
<1>1. /\ pc = "pump" /\ Available > 0 /\ pc' \in {"rows", "failed"}
      /\ UNCHANGED <<total, next_sample, frames, base_sample, row, cursor,
                     open_turns, pending_ends, emitted>>
  BY DEF Diarize, Raise
<1>a. base_sample =< next_sample
  BY <1>1 DEF IInv, TurnInv, BufferOK
<1>b. failure' \in {failure, "diarization_failed", "diarization_output_invalid",
                    "diarization_cursor_invalid"}
  <2>1. failure' = failure \/ failure' \in Faults
    BY DEF Diarize, Raise
  <2>2. base_sample \in Nat /\ next_sample \in Nat
    BY DEF IInv, TypeOK
  <2>3. QED
    BY <1>a, <2>1, <2>2 DEF Faults
<1>2. NoInternalError' /\ BufferSuffices' /\ NoOverlap'
  BY <1>1, <1>b DEF NoInternalError, BufferSuffices, NoOverlap, IInv
<1>3. CASE pc' = "failed"
  BY <1>2, <1>3
<1>4. CASE pc' = "rows"
  <2> DEFINE final == input # "open" /\ Available =< Size
             upper == next_sample + (IF Available < Size THEN Available ELSE Size)
  <2>1. /\ total \in Nat /\ frames \in Nat /\ next_sample \in Nat
        /\ Size \in Nat /\ Surplus \in Nat
    BY GeometryAssumption DEF IInv, TypeOK, Size
  <2>2. upper \in Int /\ upper =< total
    BY <2>1 DEF Available
  <2>3. PICK a \in Answers(upper, final) :
          rows' = Counted(a.count) /\ next_start' = a.next
    BY <1>4 DEF Diarize, Raise
  <2>4. /\ frames =< total
        /\ input' = IF final THEN "final" ELSE input
    BY <1>4 DEF Diarize, Raise
  <2>5. /\ a.count \in Nat /\ a.next \in Int /\ a.next =< upper
        /\ final \/ a.next =< frames + a.count
    BY <2>1, <2>2, <2>3 DEF Answers
  <2>6. /\ rows' \in Nat /\ frames + rows' =< total
        /\ a.next =< frames + a.count => a.next =< frames + rows'
    BY <2>1, <2>2, <2>3, <2>4, <2>5 DEF Counted
  <2>7. input # "final" /\ next_sample =< frames
    BY <1>1, <2>1 DEF IInv, TurnInv, FlowOK
  <2>8. FlowOK'
    <3>1. input' # "final" => ~final
      BY <2>4
    <3>2. next_sample =< frames + rows'
      <4>1. /\ rows' \in Nat /\ frames \in Nat /\ next_sample \in Nat
            /\ next_sample =< frames
        BY <2>1, <2>6, <2>7
      <4>2. \A x, y, z \in Nat : x =< y => x =< y + z
        OBVIOUS
      <4>3. QED
        BY ONLY <4>1, <4>2
    <3>3. input' # "final" => next_start' =< frames + rows'
      BY <2>3, <2>5, <2>6, <3>1
    <3>4. QED
      BY <1>1, <1>4, <2>6, <3>2, <3>3 DEF FlowOK
  <2>9. BufferOK'
    BY <1>1, <1>4 DEF BufferOK, IsOpen, IInv, TurnInv
  <2>10. /\ TurnShape' /\ TurnChain' /\ LaterAreShort' /\ SelectedTurn'
         /\ LogOK'
    BY <1>1, <1>4, <2>1, QuietStep DEF SameTurns
  <2>11. QED
    BY <1>2, <2>8, <2>9, <2>10 DEF TurnInv
<1>5. QED
  BY <1>1, <1>3, <1>4

\* The steps that neither close a turn nor move the audio cursors.
LEMMA IdleStep ==
  ASSUME IInv, TypeOK', RefuseMessage \/ Stop \/ PumpReturns \/ TakeRow \/ Drained
  PROVE  /\ NoOverlap' /\ NoInternalError' /\ BufferSuffices'
         /\ pc' # "failed" => TurnInv'
<1>1. /\ pc \in {"ready", "pump", "rows", "eof"}
      /\ UNCHANGED <<total, next_sample, frames, base_sample, rows, next_start, open_turns,
                     pending_ends, emitted>>
      /\ pc' \in {"ready", "pump", "scan", "eof", "ended", "failed"}
      /\ pc' = "scan" => cursor' = 0 /\ rows > 0
      /\ failure' \in {failure, "truncated_pcm_sample", "invalid_audio_size",
                        "asr_result_mismatch"}
  BY DEF RefuseMessage, Stop, PumpReturns, TakeRow, Drained, Raise
<1>2. NoInternalError' /\ BufferSuffices' /\ NoOverlap'
  BY <1>1 DEF NoInternalError, BufferSuffices, NoOverlap, IInv
<1>3. CASE pc' = "failed"
  BY <1>2, <1>3
<1>4. CASE pc' # "failed"
  <2>1. total \in Nat
    BY DEF IInv, TypeOK
  <2>2. /\ TurnShape' /\ TurnChain' /\ LaterAreShort' /\ SelectedTurn' /\ LogOK'
    BY <1>1, <1>4, <2>1, QuietStep DEF SameTurns
  <2>3. FlowOK /\ BufferOK
    BY <1>1 DEF IInv, TurnInv
  <2>4. pc' \in {"ready", "pump", "eof"} => pc \in {"ready", "pump", "eof"}
    BY <1>4 DEF RefuseMessage, Stop, PumpReturns, TakeRow, Drained
  <2>5. pc' \in {"ready", "pump"} => pc \in {"ready", "pump"}
    BY <1>4 DEF RefuseMessage, Stop, PumpReturns, TakeRow, Drained
  <2>6. pc' = "ready" => total - next_sample < Size
    <3>1. total \in Int /\ next_sample \in Int /\ Size \in Nat \ {0}
      BY GeometryAssumption DEF IInv, TypeOK, Size
    <3>2. pc' = "ready" => PumpReturns
      BY <1>4 DEF RefuseMessage, Stop, TakeRow, Drained, Raise
    <3>3. QED
      BY <1>1, <3>1, <3>2 DEF PumpReturns, Available, Size
  <2>7. /\ input' # "final" => input # "final"
        /\ pc' \in {"ready", "pump"} => input' # "final"
        /\ pc' = "scan" => pc = "rows"
    BY <1>4, <2>3, <2>5
       DEF FlowOK, RefuseMessage, Stop, PumpReturns, TakeRow, Drained, Raise
  <2>8. FlowOK'
    BY <1>1, <1>4, <2>3, <2>4, <2>6, <2>7 DEF FlowOK, Size
  <2>9. BufferOK'
    BY <1>1, <2>3, <2>5 DEF BufferOK, IsOpen
  <2>10. QED
    BY <1>2, <2>2, <2>8, <2>9 DEF TurnInv
<1>5. QED
  BY <1>3, <1>4

-----------------------------------------------------------------------------

LEMMA InvInit == Init => IInv
<1> SUFFICES ASSUME Init PROVE IInv
  OBVIOUS
<1> USE GeometryAssumption DEF Init
<1>1. TypeOK /\ RowOK
  BY DEF TypeOK, RowOK, Speakers, None, Codes
<1>2. \A s \in Speakers : ~IsOpen(s) /\ pending_ends[s] = None
  BY DEF IsOpen
<1>3. ~RowSeen
  BY DEF RowSeen
<1>4. FlowOK /\ TurnShape /\ TurnChain /\ LaterAreShort /\ SelectedTurn
  BY <1>2, <1>3
     DEF FlowOK, TurnShape, TurnChain, LaterAreShort, SelectedTurn, None, Size
<1>5. LogOK /\ BufferOK /\ NoOverlap
  BY <1>2 DEF LogOK, BufferOK, NoOverlap
<1>6. NoInternalError /\ BufferSuffices
  BY DEF NoInternalError, BufferSuffices
<1>7. QED
  BY <1>1, <1>4, <1>5, <1>6 DEF IInv, TurnInv

LEMMA InvStep == IInv /\ [Next]_vars => IInv'
<1> SUFFICES ASSUME IInv, [Next]_vars PROVE IInv'
  OBVIOUS
<1>1. TypeOK' /\ RowOK'
  BY TypeStep DEF IInv
<1>2. /\ NoOverlap' /\ NoInternalError' /\ BufferSuffices'
      /\ pc' # "failed" => TurnInv'
  <2>1. CASE Feed
    BY <1>1, <2>1, FeedStep
  <2>2. CASE RefuseMessage \/ Stop \/ PumpReturns \/ TakeRow \/ Drained
    BY <1>1, <2>2, IdleStep
  <2>3. CASE Diarize
    BY <1>1, <2>3, DiarizeStep
  <2>4. CASE RowDone
    BY <1>1, <2>4, RowDoneStep
  <2>5. CASE Trim
    BY <1>1, <2>5, TrimStep
  <2>6. CASE Inactive
    BY <1>1, <2>6, InactiveStep
  <2>7. CASE Active
    BY <1>1, <2>7, ActiveStep
  <2>8. CASE ConfirmChange
    BY <1>1, <2>8, ConfirmChangeStep
  <2>9. CASE CutLongTurn
    BY <1>1, <2>9, CutLongTurnStep
  <2>10. CASE CloseAtEof
    BY <1>1, <2>10, CloseAtEofStep
  <2>11. CASE UNCHANGED vars
    <3>1. UNCHANGED <<total, next_sample, frames, base_sample, rows, next_start, row, cursor,
                      input, open_turns, pending_ends, emitted, failure, pc>>
      BY <2>11 DEF vars
    <3>2. NoOverlap' /\ NoInternalError' /\ BufferSuffices'
      BY <3>1 DEF IInv, NoOverlap, NoInternalError, BufferSuffices
    <3>3. /\ \A s \in Speakers : End(s)' = End(s) /\ (PassedOver(s)' <=> PassedOver(s))
          /\ RowSeen' <=> RowSeen
          /\ Others' = Others
      BY <3>1 DEF End, PassedOver, RowSeen, Others, IsOpen
    <3>4. ASSUME pc # "failed"
          PROVE  /\ TurnShape' /\ TurnChain' /\ LaterAreShort'
      BY <3>1, <3>3, <3>4
         DEF IInv, TurnInv, TurnShape, TurnChain, LaterAreShort, IsOpen
    <3>5. ASSUME pc # "failed"
          PROVE  /\ SelectedTurn' /\ LogOK' /\ BufferOK'
      BY <3>1, <3>3, <3>5
         DEF IInv, TurnInv, SelectedTurn, LogOK, BufferOK, IsOpen
    <3>6. ASSUME pc # "failed"
          PROVE  FlowOK'
      BY <3>1, <3>6 DEF IInv, TurnInv, FlowOK, Size
    <3>7. QED
      BY <3>1, <3>2, <3>4, <3>5, <3>6 DEF TurnInv
  <2>12. QED
    BY <2>1, <2>2, <2>3, <2>4, <2>5, <2>6, <2>7, <2>8, <2>9, <2>10, <2>11
       DEF Next, Over
<1>3. QED
  BY <1>1, <1>2 DEF IInv

\* The inductive invariant of the segmentation holds in every reachable state.
THEOREM Invariance == Spec => []IInv
BY InvInit, InvStep, PTL DEF Spec

\* No PCM is handed to the recogniser twice, whatever the speakers do
\* (pipeline.py _activity, _close_turn; ADR-0013).
THEOREM SegmentsNeverOverlap == Spec => []NoOverlap
<1>1. IInv => NoOverlap
  BY DEF IInv
<1>2. QED
  BY <1>1, Invariance, PTL

\* Neither the duration check of _close_turn nor the range check of _slice can
\* raise, and a client that respects the message size never fills the buffer.
THEOREM NoSegmentationError == Spec => [](NoInternalError /\ BufferSuffices)
<1>1. IInv => NoInternalError /\ BufferSuffices
  BY DEF IInv
<1>2. QED
  BY <1>1, Invariance, PTL

-----------------------------------------------------------------------------

\* A turn that a returning speaker swallows was too short to be transcribed
\* (pipeline.py _activity: the comment on the 1 s rule).
THEOREM AbsorbedTurnsAreShort == Spec => OnlyShortAbsorbed
<1>1. IInv /\ [Next]_vars => [AbsorbsOnlyShort]_vars
  <2> SUFFICES ASSUME IInv, Next, NEW o \in Speakers,
                      IsOpen(o), open_turns'[o] = None, pc = "scan", cursor = row
               PROVE  End(o) - open_turns[o] < HALF
    BY DEF AbsorbsOnlyShort
  <2>1. row \in Int /\ cursor \in 0 .. Slots /\ row \in Speakers \cup {None}
    BY GeometryAssumption DEF IInv, TypeOK, Speakers, None
  <2>2. cursor # Slots /\ row \in Speakers
    BY <2>1, GeometryAssumption DEF Speakers, None
  <2>3. Active
    BY <2>2 DEF Next, Feed, RefuseMessage, Stop, PumpReturns, Diarize, TakeRow, RowDone, Trim,
                Inactive, ConfirmChange, CutLongTurn, CloseAtEof, Drained, Over
  <2>4. /\ open_turns \in [Speakers -> Nat \cup {None}]
        /\ pending_ends \in [Speakers -> Nat \cup {None}]
        /\ frames \in Nat
    BY DEF IInv, TypeOK
  <2>5. /\ o # row /\ pending_ends[row] # None
        /\ open_turns[o] >= pending_ends[row]
    BY <2>2, <2>3, <2>4 DEF Active, Absorbed, IsOpen, None
  <2>6. TurnShape /\ TurnChain /\ LaterAreShort
    BY DEF IInv, TurnInv
  <2>7. IsOpen(row) /\ End(row) = pending_ends[row]
    BY <2>2, <2>5, <2>6 DEF TurnShape, End
  <2>8. ~RowSeen
    BY <2>1 DEF RowSeen
  <2>9. End(row) =< open_turns[o]
    BY <2>5, <2>7
  <2>10. QED
    BY <2>2, <2>5, <2>6, <2>7, <2>8, <2>9 DEF LaterAreShort
<1>2. QED
  BY <1>1, Invariance, PTL DEF Spec, OnlyShortAbsorbed

-----------------------------------------------------------------------------
\* No speech is lost.

\* Whether a frame is held, without the sets.
InLog(f) ==
  \E i \in 1 .. Len(emitted) : emitted[i].lower =< f /\ f < emitted[i].upper

InTurn(s, f) == IsOpen(s) /\ open_turns[s] =< f /\ f < End(s)

Kept(f) == InLog(f) \/ \E s \in Speakers : InTurn(s, f)

\* A frame that a step lets go with a whole short turn.
WithShortTurn(f) ==
  \E s \in Speakers :
    /\ IsOpen(s) /\ open_turns'[s] # open_turns[s]
    /\ open_turns[s] =< f /\ f < End(s)
    /\ End(s) - open_turns[s] < HALF

LetsGoOnlyShort == \A f \in Held \ Held' : WithShortTurn(f)
HoldsTheNew     == frames' # frames /\ row # None => frames \in Held'

LEMMA EndTyped ==
  ASSUME TypeOK, NEW s \in Speakers, IsOpen(s)
  PROVE  open_turns[s] \in Nat /\ End(s) \in Nat
BY DEF TypeOK, IsOpen, End

LEMMA HeldIsKept ==
  ASSUME TypeOK
  PROVE  \A f : f \in Held <=> f \in Int /\ Kept(f)
<1>1. \A i \in 1 .. Len(emitted) : emitted[i].lower \in Nat /\ emitted[i].upper \in Nat
  BY SegmentTyped DEF TypeOK
<1>2. \A s \in Speakers : IsOpen(s) => open_turns[s] \in Nat /\ End(s) \in Nat
  BY EndTyped
<1>3. \A a, b \in Nat : \A f : f \in a .. b - 1 <=> f \in Int /\ a =< f /\ f < b
  OBVIOUS
<1>4. ASSUME NEW f
      PROVE  f \in Held <=>
               \/ \E i \in 1 .. Len(emitted) : f \in emitted[i].lower .. emitted[i].upper - 1
               \/ \E s \in Speakers : IsOpen(s) /\ f \in open_turns[s] .. End(s) - 1
  BY DEF Held
<1>5. ASSUME NEW f
      PROVE  (\E i \in 1 .. Len(emitted) : f \in emitted[i].lower .. emitted[i].upper - 1)
               <=> f \in Int /\ InLog(f)
  BY <1>1, <1>3 DEF InLog
<1>6. ASSUME NEW f
      PROVE  (\E s \in Speakers : IsOpen(s) /\ f \in open_turns[s] .. End(s) - 1)
               <=> f \in Int /\ \E s \in Speakers : InTurn(s, f)
  BY <1>2, <1>3 DEF InTurn
<1>7. QED
  BY <1>4, <1>5, <1>6 DEF Kept

LEMMA HeldIsKeptNext ==
  ASSUME TypeOK'
  PROVE  \A f : f \in Held' <=> f \in Int /\ Kept(f)'
<1>1. \A i \in 1 .. Len(emitted') : emitted'[i].lower \in Nat /\ emitted'[i].upper \in Nat
  <2>1. emitted' \in Seq(Segment)
    BY DEF TypeOK
  <2>2. QED
    BY <2>1, SegmentTyped
<1>2. \A s \in Speakers : IsOpen(s)' => open_turns'[s] \in Nat /\ End(s)' \in Nat
  BY DEF TypeOK, IsOpen, End
<1>3. \A a, b \in Nat : \A f : f \in a .. b - 1 <=> f \in Int /\ a =< f /\ f < b
  OBVIOUS
<1>4. ASSUME NEW f
      PROVE  f \in Held' <=>
               \/ \E i \in 1 .. Len(emitted') : f \in emitted'[i].lower .. emitted'[i].upper - 1
               \/ \E s \in Speakers : IsOpen(s)' /\ f \in open_turns'[s] .. End(s)' - 1
  BY DEF Held
<1>5. ASSUME NEW f
      PROVE  (\E i \in 1 .. Len(emitted') : f \in emitted'[i].lower .. emitted'[i].upper - 1)
               <=> f \in Int /\ InLog(f)'
  BY <1>1, <1>3 DEF InLog
<1>6. ASSUME NEW f
      PROVE  (\E s \in Speakers : IsOpen(s)' /\ f \in open_turns'[s] .. End(s)' - 1)
               <=> f \in Int /\ \E s \in Speakers : InTurn(s, f)'
  BY <1>2, <1>3 DEF InTurn
<1>7. QED
  BY <1>4, <1>5, <1>6 DEF Kept

\* What is in the log stays in it.
LEMMA LogKeeps ==
  ASSUME TypeOK, NEW e \in Segment, emitted' = emitted \/ emitted' = Append(emitted, e)
  PROVE  /\ \A f : InLog(f) => InLog(f)'
         /\ emitted' # emitted => \A f : e.lower =< f /\ f < e.upper => InLog(f)'
<1>1. emitted \in Seq(Segment) /\ Len(emitted) \in Nat
  BY LenProperties DEF TypeOK
<1>2. CASE emitted' = emitted
  BY <1>2 DEF InLog
<1>3. CASE emitted' = Append(emitted, e)
  <2>1. /\ Len(emitted') = Len(emitted) + 1
        /\ \A i \in 1 .. Len(emitted) : emitted'[i] = emitted[i]
        /\ emitted'[Len(emitted) + 1] = e
    BY <1>1, <1>3, AppendProperties
  <2>2. /\ Len(emitted) + 1 \in 1 .. Len(emitted')
        /\ \A i \in 1 .. Len(emitted) : i \in 1 .. Len(emitted')
    BY <1>1, <2>1
  <2>3. QED
    BY <2>1, <2>2 DEF InLog
<1>4. QED
  BY <1>2, <1>3

\* Closing a turn lets go what is short, or puts it into the log up to where
\* the same speaker's turn goes on.
LEMMA CloseLetsGoShort ==
  ASSUME IInv, pc' # "failed",
         NEW s \in Speakers, NEW upper \in Nat, NEW start \in Nat \cup {None}, NEW step,
         IsOpen(s), CloseTurn(s, upper, start, step), frames' = frames,
         \/ start = None /\ upper = End(s)
         \/ upper - open_turns[s] >= HALF /\ start = None /\ End(s) =< upper
         \/ upper - open_turns[s] >= HALF /\ start = upper /\ pending_ends[s] = None
  PROVE  /\ \A f \in Int : Kept(f) => Kept(f)' \/ WithShortTurn(f)
         /\ upper - open_turns[s] >= HALF =>
              \A f \in Int : open_turns[s] =< f /\ f < upper => InLog(f)'
<1> DEFINE lower == open_turns[s]
           e     == [speaker |-> s, lower |-> lower, upper |-> upper]
<1>0. TypeOK /\ lower \in Nat /\ End(s) \in Nat /\ frames \in Nat /\ HALF \in Nat
  BY EndTyped, GeometryAssumption DEF IInv, TypeOK
<1>1. /\ pending_ends' = [pending_ends EXCEPT ![s] = None]
      /\ open_turns' = [open_turns EXCEPT ![s] = start]
      /\ emitted' = IF upper - lower < HALF THEN emitted ELSE Append(emitted, e)
  BY DEF CloseTurn, Raise
<1>2. e \in Segment
  BY <1>0 DEF Segment
<1>3. /\ \A f : InLog(f) => InLog(f)'
      /\ emitted' # emitted => \A f : lower =< f /\ f < upper => InLog(f)'
  BY <1>0, <1>1, <1>2, LogKeeps
<1>4. ~(upper - lower < HALF) => emitted' # emitted
  <2>1. Len(Append(emitted, e)) = Len(emitted) + 1 /\ Len(emitted) \in Nat
    BY <1>0, <1>2, AppendProperties, LenProperties DEF TypeOK
  <2>2. Append(emitted, e) = emitted => Len(Append(emitted, e)) = Len(emitted)
    BY Zenon
  <2>3. Append(emitted, e) # emitted
    BY <2>1, <2>2
  <2>4. QED
    BY <1>1, <2>3
<1>5. /\ open_turns \in [Speakers -> Nat \cup {None}]
      /\ pending_ends \in [Speakers -> Nat \cup {None}]
  BY <1>0 DEF TypeOK
<1>6. /\ open_turns'[s] = start /\ pending_ends'[s] = None
      /\ \A t \in Speakers \ {s} : open_turns'[t] = open_turns[t]
                                   /\ pending_ends'[t] = pending_ends[t]
  BY <1>1, <1>5
<1> HIDE DEF e, lower
<1>7. ASSUME NEW f \in Int, NEW t \in Speakers \ {s}, InTurn(t, f)
      PROVE  InTurn(t, f)'
  BY <1>6, <1>7 DEF InTurn, IsOpen, End
<1>8. ASSUME NEW f \in Int, InTurn(s, f)
      PROVE  InLog(f)' \/ InTurn(s, f)' \/ WithShortTurn(f)
  <2>1. lower =< f /\ f < End(s)
    BY <1>8 DEF InTurn, lower
  <2>2. CASE upper - lower < HALF
    <3>1. start = None /\ upper = End(s)
      BY <1>0, <2>2 DEF lower
    <3>2. open_turns'[s] # open_turns[s]
      BY <1>0, <1>6, <3>1 DEF lower, None
    <3>3. QED
      BY <2>1, <2>2, <3>1, <3>2 DEF WithShortTurn, lower
  <2>3. CASE ~(upper - lower < HALF) /\ f < upper
    BY <1>3, <1>4, <2>1, <2>3
  <2>4. CASE ~(upper - lower < HALF) /\ ~(f < upper)
    <3>1. start = upper /\ pending_ends[s] = None
      BY <1>0, <2>1, <2>4 DEF lower
    <3>2. open_turns'[s] = upper /\ upper =< f /\ f < frames
      BY <1>6, <2>1, <2>4, <3>1 DEF End
    <3>3. IsOpen(s)' /\ End(s)' = frames
      BY <1>6, <3>2 DEF IsOpen, End, None
    <3>4. QED
      BY <3>2, <3>3 DEF InTurn
  <2>5. QED
    BY <2>2, <2>3, <2>4
<1>9. ASSUME NEW f \in Int, Kept(f) PROVE Kept(f)' \/ WithShortTurn(f)
  <2>1. CASE InLog(f)
    BY <1>3, <2>1 DEF Kept
  <2>2. ASSUME NEW t \in Speakers, InTurn(t, f)
        PROVE  Kept(f)' \/ WithShortTurn(f)
    BY <1>7, <1>8, <2>2 DEF Kept
  <2>3. QED
    BY <1>9, <2>1, <2>2 DEF Kept
<1>10. ASSUME upper - lower >= HALF, NEW f \in Int, lower =< f, f < upper
       PROVE  InLog(f)'
  BY <1>0, <1>3, <1>4, <1>10
<1>11. QED
  BY <1>9, <1>10 DEF lower

\* The rows' speaker has no open turn behind the row only if it has just been
\* cut at its very end.
CutLogged ==
  RowSeen /\ ~IsOpen(row) =>
    \E i \in 1 .. Len(emitted) : emitted[i].upper = frames + 1

LEMMA CutStep == IInv /\ IInv' /\ CutLogged /\ [Next]_vars => CutLogged'
<1> SUFFICES ASSUME IInv, IInv', CutLogged, [Next]_vars, RowSeen', ~IsOpen(row)'
             PROVE  \E i \in 1 .. Len(emitted') : emitted'[i].upper = frames' + 1
  BY DEF CutLogged
<1>1. /\ TypeOK /\ RowOK /\ TypeOK' /\ RowOK' /\ HALF \in Nat /\ MAX_TURN \in Nat
      /\ HALF =< MAX_TURN /\ Slots \in Nat
  BY GeometryAssumption DEF IInv
<1>2. /\ row' # None /\ pc' = "scan" /\ cursor' > row'
  BY <1>1 DEF RowSeen, RowOK
<1>3. emitted \in Seq(Segment) /\ Len(emitted) \in Nat /\ frames \in Nat
  BY <1>1, LenProperties DEF TypeOK
<1>4. CASE TakeRow
  <2>1. cursor' = 0 /\ row' \in Speakers
    BY <1>2, <1>4 DEF TakeRow
  <2>2. QED
    BY <1>1, <1>2, <2>1 DEF Speakers
<1>5. CASE Inactive
  <2>1. /\ pc = "scan" /\ cursor # row /\ cursor' = cursor + 1 /\ row' = row
        /\ frames' = frames /\ cursor \in Speakers /\ row \in Speakers
    BY <1>1, <1>2, <1>5 DEF Inactive, Untouched, TypeOK, Speakers
  <2>2. cursor > row
    BY <1>1, <1>2, <2>1 DEF Speakers
  <2>3. /\ open_turns'[row] = open_turns[row]
        /\ \/ emitted' = emitted
           \/ emitted' = Append(emitted, [speaker |-> cursor, lower |-> open_turns[cursor],
                                          upper |-> End(cursor)])
    BY <1>1, <1>5, <2>1 DEF Inactive, CloseTurn, TypeOK
  <2>4. RowSeen /\ ~IsOpen(row)
    BY <1>2, <2>1, <2>2, <2>3 DEF RowSeen, IsOpen
  <2>5. PICK i \in 1 .. Len(emitted) : emitted[i].upper = frames + 1
    BY <2>4 DEF CutLogged
  <2>6. i \in 1 .. Len(emitted') /\ emitted'[i] = emitted[i]
    <3>1. CASE emitted' = emitted
      BY <3>1
    <3>2. CASE emitted' # emitted
      <4> DEFINE e == [speaker |-> cursor, lower |-> open_turns[cursor],
                       upper |-> End(cursor)]
      <4>1. emitted' = Append(emitted, e)
        BY <2>3, <3>2
      <4>2. IsOpen(cursor)
        BY <1>5, <3>2 DEF Inactive
      <4>3. e \in Segment
        BY <1>1, <2>1, <4>2, EndTyped DEF Segment
      <4> HIDE DEF e
      <4>4. QED
        BY <1>3, <4>1, <4>3, AppendProperties
    <3>3. QED
      BY <3>1, <3>2
  <2>7. QED
    BY <2>1, <2>5, <2>6
<1>6. CASE CutLongTurn
  <2> DEFINE boundary == open_turns[row] + MAX_TURN
             e == [speaker |-> row, lower |-> open_turns[row], upper |-> boundary]
  <2>1. /\ pc = "confirm" /\ row' = row /\ frames' = frames /\ row \in Speakers
        /\ IsOpen(row) /\ open_turns[row] \in Nat
    BY <1>1, <1>6 DEF CutLongTurn, Untouched, RowOK, TypeOK, IsOpen
  <2>2. open_turns'[row] = None
    BY <2>1 DEF IsOpen
  <2>3. /\ frames + 1 >= boundary
        /\ CloseTurn(row, boundary, Remainder(boundary), "scan")
    BY <1>6, <2>1, <2>2 DEF CutLongTurn, IsOpen
  <2>4. /\ open_turns'[row] = Remainder(boundary)
        /\ emitted' = IF boundary - open_turns[row] < HALF THEN emitted
                      ELSE Append(emitted, e)
    BY <1>1, <1>2, <2>1, <2>3 DEF CloseTurn, Raise, TypeOK
  <2>5. boundary = frames + 1
    <3>1. boundary # None
      BY <1>1, <2>1 DEF None
    <3>2. ~(frames + 1 > boundary)
      BY <2>2, <2>4, <3>1 DEF Remainder
    <3>3. QED
      BY <1>1, <1>3, <2>1, <2>3, <3>2
  <2>6. ~(boundary - open_turns[row] < HALF) /\ e \in Segment /\ e.upper = boundary
    BY <1>1, <2>1 DEF Segment
  <2>7. emitted' = Append(emitted, e)
    BY <2>4, <2>6
  <2> HIDE DEF e, boundary
  <2>8. /\ Len(emitted') = Len(emitted) + 1 /\ emitted'[Len(emitted) + 1] = e
    BY <1>3, <2>6, <2>7, AppendProperties
  <2>9. Len(emitted) + 1 \in 1 .. Len(emitted')
    BY <1>3, <2>8
  <2>10. QED
    BY <2>1, <2>5, <2>6, <2>8, <2>9
<1>7. CASE Active
  BY <1>2, <1>7 DEF Active
<1>8. CASE ConfirmChange
  BY <1>2, <1>8 DEF ConfirmChange, CloseTurn, Raise
<1>9. CASE Feed \/ RefuseMessage \/ Stop \/ PumpReturns \/ Diarize \/ RowDone \/ Trim \/ CloseAtEof \/ Drained
  BY <1>2, <1>9 DEF Feed, RefuseMessage, Stop, PumpReturns, Diarize, RowDone, Trim, CloseAtEof, Drained,
                    CloseTurn, Raise
<1>10. CASE UNCHANGED vars
  <2>1. UNCHANGED <<emitted, frames, row, pc, cursor, open_turns>>
    BY <1>10 DEF vars
  <2>2. RowSeen /\ ~IsOpen(row)
    BY <2>1 DEF RowSeen, IsOpen
  <2>3. QED
    BY <2>1, <2>2 DEF CutLogged
<1>11. QED
  BY <1>4, <1>5, <1>6, <1>7, <1>8, <1>9, <1>10 DEF Next, Over

LEMMA KeepsUnlessShort ==
  ASSUME TypeOK, TypeOK', \A f \in Int : Kept(f) => Kept(f)' \/ WithShortTurn(f)
  PROVE  LetsGoOnlyShort
BY HeldIsKept, HeldIsKeptNext DEF LetsGoOnlyShort

\* What a session holds, while nothing of it is closed, dropped or scored.
LEMMA SameKept ==
  ASSUME UNCHANGED <<emitted, open_turns, frames>>,
         \A s \in Speakers : IsOpen(s) => End(s)' = End(s),
         NEW f, Kept(f)
  PROVE  Kept(f)'
BY DEF Kept, InLog, InTurn, IsOpen

\* Whatever a step of a session does that goes on.
LEMMA SpeechStep ==
  ASSUME IInv, IInv', CutLogged, [Next]_vars, pc' # "failed"
  PROVE  LetsGoOnlyShort /\ HoldsTheNew
<1>1. /\ TypeOK /\ RowOK /\ TypeOK' /\ HALF \in Nat \ {0} /\ MAX_TURN \in Nat
      /\ HALF =< MAX_TURN /\ Slots \in Nat
  BY GeometryAssumption DEF IInv
<1>2. /\ open_turns \in [Speakers -> Nat \cup {None}]
      /\ pending_ends \in [Speakers -> Nat \cup {None}]
      /\ frames \in Nat
  BY <1>1 DEF TypeOK
<1>3. pc # "failed" /\ TurnInv
  <2>1. pc # "failed"
    BY DEF Next, Feed, RefuseMessage, Stop, PumpReturns, Diarize, TakeRow, RowDone, Trim, Inactive,
           Active, ConfirmChange, CutLongTurn, CloseAtEof, Drained, Over, vars
  <2>2. QED
    BY <2>1 DEF IInv
<1>4. ASSUME UNCHANGED <<emitted, open_turns, pending_ends, frames>>
      PROVE  LetsGoOnlyShort /\ HoldsTheNew
  <2>1. \A s \in Speakers : End(s)' = End(s)
    BY <1>4 DEF End
  <2>2. \A f \in Int : Kept(f) => Kept(f)'
    BY <1>4, <2>1, SameKept
  <2>3. QED
    BY <1>1, <1>4, <2>2, KeepsUnlessShort DEF HoldsTheNew
<1>5. CASE Feed \/ RefuseMessage \/ Stop \/ PumpReturns \/ Diarize \/ TakeRow \/ Trim \/ Drained
           \/ UNCHANGED vars
  <2>1. UNCHANGED <<emitted, open_turns, pending_ends, frames>>
    BY <1>5 DEF Feed, RefuseMessage, Stop, PumpReturns, Diarize, TakeRow, Trim, Drained, vars
  <2>2. QED
    BY <1>4, <2>1
<1>6. CASE RowDone
  <2>1. /\ UNCHANGED <<emitted, open_turns, pending_ends>> /\ frames' = frames + 1
        /\ pc = "scan" /\ cursor = Slots
    BY <1>6 DEF RowDone
  <2>2. ASSUME NEW f \in Int, Kept(f) PROVE Kept(f)'
    <3>1. CASE InLog(f)
      BY <2>1, <3>1 DEF InLog, Kept
    <3>2. ASSUME NEW s \in Speakers, InTurn(s, f) PROVE InTurn(s, f)'
      BY <1>2, <2>1, <3>2 DEF InTurn, IsOpen, End
    <3>3. QED
      BY <2>2, <3>1, <3>2 DEF Kept
  <2>3. ASSUME row # None, NEW f, f = frames PROVE Kept(f)'
    <3>1. row \in Speakers /\ cursor > row
      BY <1>1, <2>1, <2>3 DEF TypeOK, Speakers
    <3>2. RowSeen
      BY <2>1, <2>3, <3>1 DEF RowSeen
    <3>3. PICK s \in Speakers : s = row
      BY <3>1
    <3>4. CASE IsOpen(s)
      <4>1. pending_ends[s] = None /\ open_turns[s] =< frames
        BY <1>3, <3>2, <3>3, <3>4 DEF TurnInv, TurnShape
      <4>2. IsOpen(s)' /\ End(s)' = frames + 1
        BY <2>1, <3>4, <4>1 DEF IsOpen, End
      <4>3. InTurn(s, f)'
        BY <1>2, <2>1, <2>3, <4>1, <4>2 DEF InTurn
      <4>4. QED
        BY <4>3 DEF Kept
    <3>5. CASE ~IsOpen(s)
      <4>1. PICK i \in 1 .. Len(emitted) : emitted[i].upper = frames + 1
        BY <3>2, <3>3, <3>5 DEF CutLogged
      <4>2. HALF =< emitted[i].upper - emitted[i].lower
        BY <1>3 DEF TurnInv, LogOK
      <4>3. emitted[i].lower \in Nat
        BY <1>1, SegmentTyped DEF TypeOK
      <4>4. emitted[i].lower =< f /\ f < emitted[i].upper
        BY <1>1, <1>2, <2>3, <4>1, <4>2, <4>3
      <4>5. InLog(f)'
        BY <2>1, <4>4 DEF InLog
      <4>6. QED
        BY <4>5 DEF Kept
    <3>6. QED
      BY <3>4, <3>5
  <2>4. HoldsTheNew
    <3>1. row # None => frames \in Int /\ \A f : f = frames => Kept(f)'
      BY <1>2, <2>3
    <3>2. QED
      BY <1>1, <3>1, HeldIsKeptNext DEF HoldsTheNew
  <2>5. QED
    BY <1>1, <2>2, <2>4, KeepsUnlessShort
<1>7. CASE Inactive
  <2>1. /\ cursor \in Speakers /\ frames' = frames /\ row' = row
        /\ cursor # row /\ pc = "scan"
    BY <1>1, <1>7 DEF Inactive, Untouched, TypeOK, Speakers
  <2>2. HoldsTheNew
    BY <2>1 DEF HoldsTheNew
  <2>3. CASE ~IsOpen(cursor)
    BY <1>4, <1>7, <2>1, <2>3 DEF Inactive
  <2>4. CASE IsOpen(cursor) /\ frames + 1 - End(cursor) > SEC
    <3>1. CloseTurn(cursor, End(cursor), None, "scan")
      BY <1>7, <2>4 DEF Inactive
    <3>2. End(cursor) \in Nat /\ None \in Nat \cup {None}
      BY <1>1, <2>1, <2>4, EndTyped
    <3>3. \A f \in Int : Kept(f) => Kept(f)' \/ WithShortTurn(f)
      BY <2>1, <2>4, <3>1, <3>2, CloseLetsGoShort
    <3>4. QED
      BY <1>1, <2>2, <3>3, KeepsUnlessShort
  <2>5. CASE IsOpen(cursor) /\ ~(frames + 1 - End(cursor) > SEC)
    <3>1. /\ pending_ends' = [pending_ends EXCEPT ![cursor] = End(cursor)]
          /\ UNCHANGED <<open_turns, emitted>>
      BY <1>7, <2>5 DEF Inactive
    <3>2. End(cursor) \in Nat
      BY <1>1, <2>1, <2>5, EndTyped
    <3>3. \A s \in Speakers : End(s)' = End(s)
      BY <1>2, <2>1, <3>1, <3>2 DEF End, None
    <3>4. \A f \in Int : Kept(f) => Kept(f)'
      BY <2>1, <3>1, <3>3, SameKept
    <3>5. QED
      BY <1>1, <2>2, <3>4, KeepsUnlessShort
  <2>6. QED
    BY <2>3, <2>4, <2>5
<1>8. CASE Active
  <2> DEFINE paused == pending_ends[row]
             gone   == IF paused = None THEN {} ELSE Absorbed(row, paused)
  <2>1. /\ pc = "scan" /\ cursor = row /\ row \in Speakers
        /\ UNCHANGED <<frames, emitted>>
    BY <1>1, <1>8 DEF Active, Untouched, TypeOK, Speakers
  <2>2. HoldsTheNew
    BY <2>1 DEF HoldsTheNew
  <2>3. \A s \in Speakers :
          /\ open_turns'[s] = IF s \in gone THEN None
                              ELSE IF s = row /\ ~IsOpen(s) THEN frames ELSE open_turns[s]
          /\ pending_ends'[s] = IF s \in gone \cup {row} THEN None ELSE pending_ends[s]
    BY <1>8 DEF Active
  <2>4. row \notin gone
    BY DEF Absorbed
  <2>5. \A o \in gone : o \in Speakers /\ IsOpen(o) /\ End(o) - open_turns[o] < HALF
    <3> SUFFICES ASSUME NEW o \in gone
                 PROVE  o \in Speakers /\ IsOpen(o) /\ End(o) - open_turns[o] < HALF
      OBVIOUS
    <3>1. /\ o \in Speakers \ {row} /\ IsOpen(o) /\ paused # None
          /\ open_turns[o] >= paused
      BY DEF Absorbed
    <3>2. IsOpen(row) /\ End(row) = paused
      BY <1>3, <2>1, <3>1 DEF TurnInv, TurnShape, End
    <3>3. ~RowSeen
      BY <1>2, <2>1, GeometryAssumption DEF RowSeen, Speakers
    <3>4. End(row) =< open_turns[o]
      BY <1>2, <2>1, <3>1, <3>2 DEF None
    <3>5. QED
      BY <1>3, <2>1, <3>1, <3>2, <3>3, <3>4 DEF TurnInv, LaterAreShort
  <2> HIDE DEF gone
  <2>6. ASSUME NEW f \in Int, NEW s \in Speakers, InTurn(s, f)
        PROVE  InTurn(s, f)' \/ WithShortTurn(f)
    <3>1. IsOpen(s) /\ open_turns[s] =< f /\ f < End(s) /\ open_turns[s] # None
      BY <2>6 DEF InTurn, IsOpen
    <3>2. CASE s \in gone
      BY <2>3, <2>5, <3>1, <3>2 DEF WithShortTurn
    <3>3. CASE s \notin gone /\ s # row
      BY <2>1, <2>3, <3>1, <3>3 DEF InTurn, IsOpen, End
    <3>4. CASE s = row
      <4>1. open_turns'[s] = open_turns[s] /\ pending_ends'[s] = None
        BY <2>3, <2>4, <3>1, <3>4
      <4>2. End(s) =< frames
        BY <1>2, <1>3, <3>1 DEF TurnInv, TurnShape, End
      <4>3. f < frames
        BY <1>1, <1>2, <3>1, <4>2, EndTyped
      <4>4. QED
        BY <2>1, <3>1, <4>1, <4>3 DEF InTurn, IsOpen, End
    <3>5. QED
      BY <3>2, <3>3, <3>4
  <2>7. ASSUME NEW f \in Int, Kept(f) PROVE Kept(f)' \/ WithShortTurn(f)
    <3>1. CASE InLog(f)
      BY <2>1, <3>1 DEF InLog, Kept
    <3>2. CASE ~InLog(f)
      BY <2>6, <2>7, <3>2 DEF Kept
    <3>3. QED
      BY <3>1, <3>2
  <2>8. QED
    BY <1>1, <2>2, <2>7, KeepsUnlessShort
<1>9. CASE ConfirmChange \/ CloseAtEof
  <2>1. /\ frames' = frames
        /\ \E s \in Speakers : \E step \in {"confirm", "eof"} :
             IsOpen(s) /\ CloseTurn(s, End(s), None, step)
    BY <1>9 DEF ConfirmChange, CloseAtEof, Others, Untouched
  <2>2. PICK s \in Speakers, step \in {"confirm", "eof"} :
          IsOpen(s) /\ CloseTurn(s, End(s), None, step)
    BY <2>1
  <2>3. End(s) \in Nat /\ None \in Nat \cup {None}
    BY <1>1, <2>2, EndTyped
  <2>4. \A f \in Int : Kept(f) => Kept(f)' \/ WithShortTurn(f)
    BY <2>1, <2>2, <2>3, CloseLetsGoShort
  <2>5. QED
    BY <1>1, <2>1, <2>4, KeepsUnlessShort DEF HoldsTheNew
<1>10. CASE CutLongTurn
  <2> DEFINE boundary == open_turns[row] + MAX_TURN
  <2>1. /\ pc = "confirm" /\ frames' = frames /\ row \in Speakers
        /\ IsOpen(row) /\ open_turns[row] \in Nat
    BY <1>1, <1>10 DEF CutLongTurn, Untouched, RowOK, TypeOK, IsOpen
  <2>2. HoldsTheNew
    BY <2>1 DEF HoldsTheNew
  <2>3. CASE ~(frames + 1 >= boundary)
    BY <1>4, <1>10, <2>1, <2>3 DEF CutLongTurn
  <2>4. CASE frames + 1 >= boundary
    <3>1. CloseTurn(row, boundary, Remainder(boundary), "scan")
      BY <1>10, <2>4 DEF CutLongTurn
    <3>2. pending_ends[row] = None /\ End(row) = frames
      <4>1. RowSeen
        BY <1>1, <2>1 DEF RowSeen, RowOK
      <4>2. QED
        BY <1>3, <2>1, <4>1 DEF TurnInv, TurnShape, End
    <3>3. boundary \in Nat /\ boundary - open_turns[row] >= HALF
      BY <1>1, <2>1
    <3>4. /\ Remainder(boundary) \in Nat \cup {None}
          /\ \/ Remainder(boundary) = boundary
             \/ Remainder(boundary) = None /\ End(row) =< boundary
      BY <1>2, <2>4, <3>2, <3>3 DEF Remainder
    <3> HIDE DEF boundary
    <3>5. \A f \in Int : Kept(f) => Kept(f)' \/ WithShortTurn(f)
      BY <2>1, <3>1, <3>2, <3>3, <3>4, CloseLetsGoShort
    <3>6. QED
      BY <1>1, <2>2, <3>5, KeepsUnlessShort
  <2>5. QED
    BY <2>3, <2>4
<1>11. QED
  BY <1>5, <1>6, <1>7, <1>8, <1>9, <1>10 DEF Next, Over

\* A frame in which someone was heard is let go only with a whole turn that is
\* too short to be transcribed, and what has just been scored is held: a turn
\* that is open, or the end of the segment that has just been cut (pipeline.py
\* _activity, _close_turn).
THEOREM SpeechAlwaysKept == Spec => SpeechKept
<1> DEFINE Step == pc' # "failed" => LetsGoOnlyShort /\ HoldsTheNew
<1>1. Init => CutLogged
  BY DEF Init, CutLogged, RowSeen
<1>2. IInv /\ IInv' /\ CutLogged /\ [Next]_vars => [Step]_vars
  BY SpeechStep
<1>3. SpeechKept <=> [][Step]_vars
  BY PTL DEF SpeechKept, LetsGoOnlyShort, HoldsTheNew, WithShortTurn
<1>4. QED
  BY <1>1, <1>2, <1>3, CutStep, Invariance, PTL DEF Spec

-----------------------------------------------------------------------------

\* Handing a segment on is a step of the abstract log.
LEMMA EmitIsStreamStep ==
  ASSUME IInv, pc # "failed", NEW s \in Speakers, NEW upper \in Nat, NEW start,
         NEW step, IsOpen(s), CloseTurn(s, upper, start, step), total' = total
  PROVE  emitted' = emitted \/ Stream!Emit
<1>1. /\ open_turns[s] \in Nat /\ total \in Nat
      /\ base_sample \in Nat
  BY OpenTurn DEF IInv, TypeOK
<1>2. SUFFICES ASSUME emitted' # emitted
               PROVE  Stream!Emit
  OBVIOUS
<1>3. /\ emitted' = Append(emitted, [speaker |-> s, lower |-> open_turns[s],
                                    upper |-> upper])
      /\ ~(upper - open_turns[s] < HALF)
      /\ Rejection(open_turns[s], upper) = "none"
  BY <1>2 DEF CloseTurn
<1>4. /\ HALF =< upper - open_turns[s] /\ upper - open_turns[s] =< MAX_TURN
      /\ open_turns[s] =< upper /\ upper =< total
  BY <1>1, <1>3, GeometryAssumption DEF Rejection
<1>5. Stream!EndOfLog \in Nat /\ Stream!EndOfLog =< open_turns[s]
  <2>1. CASE emitted = << >>
    BY <1>1, <2>1 DEF Stream!EndOfLog
  <2>2. CASE emitted # << >>
    <3>1. Len(emitted) \in 1 .. Len(emitted)
      BY <2>2, EmptySeq, LenProperties DEF IInv, TypeOK
    <3>2. emitted[Len(emitted)].upper \in Nat
      BY <3>1, SegmentTyped DEF IInv, TypeOK
    <3>3. emitted[Len(emitted)].upper =< open_turns[s]
      BY <3>1 DEF IInv, TurnInv, LogOK
    <3>4. QED
      BY <2>2, <3>2, <3>3 DEF Stream!EndOfLog
  <2>3. QED
    BY <2>1, <2>2
<1>6. /\ open_turns[s] \in Stream!EndOfLog .. total
      /\ upper \in Stream!EndOfLog .. total
  BY <1>1, <1>4, <1>5
<1>7. QED
  BY <1>3, <1>4, <1>6 DEF Stream!Emit

\* The segmentation implements the log of segments the later stages rely on.
THEOREM ImplementsStream == Spec => StreamSpec
<1>1. Init => Stream!Init
  BY DEF Init, Stream!Init
<1>2. IInv /\ [Next]_vars => [Stream!Next]_<<total, emitted>>
  <2> SUFFICES ASSUME IInv, [Next]_vars,
                      ~(UNCHANGED <<total, emitted>>)
               PROVE  Stream!Next
    OBVIOUS
  <2>1. CASE Feed
    BY <2>1, GeometryAssumption
       DEF Feed, IInv, TypeOK, Stream!Next, Stream!Hear
  <2>2. CASE Inactive
    <3>1. /\ IsOpen(cursor) /\ CloseTurn(cursor, End(cursor), None, "scan")
          /\ cursor \in Speakers /\ total' = total /\ pc # "failed"
      <4>1. /\ total' = total /\ pc = "scan" /\ cursor < Slots
            /\ cursor \in 0 .. Slots
        BY <2>2 DEF Inactive, Untouched, IInv, TypeOK
      <4>2. emitted' # emitted
        BY <4>1
      <4>3. IsOpen(cursor) /\ CloseTurn(cursor, End(cursor), None, "scan")
        BY <2>2, <4>2 DEF Inactive
      <4>4. QED
        BY <4>1, <4>3, GeometryAssumption DEF Speakers
    <3>2. End(cursor) \in Nat
      BY <3>1, OpenTurn
    <3>3. QED
      BY <3>1, <3>2, EmitIsStreamStep DEF Stream!Next
  <2>3. CASE ConfirmChange
    <3>1. PICK o \in Others : CloseTurn(o, End(o), None, "confirm")
      BY <2>3 DEF ConfirmChange
    <3>2. o \in Speakers /\ IsOpen(o) /\ total' = total /\ pc # "failed"
      BY <2>3 DEF ConfirmChange, Others, Untouched
    <3>3. End(o) \in Nat
      BY <3>2, OpenTurn
    <3>4. QED
      BY <3>1, <3>2, <3>3, EmitIsStreamStep DEF Stream!Next
  <2>4. CASE CutLongTurn
    <3> DEFINE boundary == open_turns[row] + MAX_TURN
               start == IF frames + 1 > boundary THEN boundary ELSE None
    <3>1. /\ CloseTurn(row, boundary, start, "scan")
          /\ total' = total /\ pc = "confirm"
      BY <2>4 DEF CutLongTurn, Remainder, Untouched
    <3>2. row \in Speakers /\ IsOpen(row)
      BY <3>1 DEF IInv, RowOK, TypeOK
    <3>3. boundary \in Nat
      BY <3>1, <3>2, OpenTurn, GeometryAssumption
    <3>4. QED
      BY <3>1, <3>2, <3>3, EmitIsStreamStep DEF Stream!Next
  <2>5. CASE CloseAtEof
    <3>1. PICK s \in Speakers : IsOpen(s) /\ CloseTurn(s, End(s), None, "eof")
      BY <2>5 DEF CloseAtEof
    <3>2. total' = total /\ pc # "failed"
      BY <2>5 DEF CloseAtEof, Untouched
    <3>3. End(s) \in Nat
      BY <3>1, <3>2, OpenTurn
    <3>4. QED
      BY <3>1, <3>2, <3>3, EmitIsStreamStep DEF Stream!Next
  <2>6. QED
    BY <2>1, <2>2, <2>3, <2>4, <2>5
       DEF Next, vars, RefuseMessage, Stop, PumpReturns, Diarize, TakeRow, RowDone, Trim, Active,
           Drained, Over, Untouched
<1>3. QED
  BY <1>1, <1>2, Invariance, PTL DEF Spec, StreamSpec, Stream!Spec

==============================================================================
