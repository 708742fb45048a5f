-------------------------- MODULE TurnSegmentation --------------------------
(***************************************************************************)
(* How one inference session cuts a mono PCM stream into the speaker turns *)
(* that are transcribed: PipelineSession.feed, _pump, _activity,           *)
(* _close_turn, _trim and the first half of finish, in                     *)
(* src/meety_ai/modal_app/stt/pipeline.py.                                 *)
(*                                                                         *)
(* Time is counted in diarization frames of 160 samples.  The diarization  *)
(* worker is external: it answers a chunk with rows, each of which selects *)
(* at most one speaker (nemotron_worker.py scatters the single most        *)
(* probable one), and with the start of the next chunk.                    *)
(***************************************************************************)
EXTENDS Integers, Sequences

CONSTANTS
  Slots,       \* speaker slots of a row (8)
  HALF,        \* SAMPLE_RATE // 2: 500 ms, the shortest turn worth transcribing
  SEC,         \* SAMPLE_RATE: 1 s, the longest pause inside a turn
  MAX_TURN,    \* 25 * SAMPLE_RATE: 25 s, the longest turn
  FIRST,       \* geometry["first_samples"], the size of the first chunk
  CHUNK,       \* geometry["chunk_samples"], the size of the others
  BUFFER,      \* 40 * SAMPLE_RATE: 40 s, the most audio a session keeps
  MAX_FEED,    \* MAX_AUDIO_MESSAGE_BYTES: the longest binary message
  MaxFrames,   \* bound of the model: audio after which the client only stops
  Surplus      \* bound of the model: rows of an answer beyond its chunk

ASSUME GeometryAssumption ==
  /\ Slots \in Nat /\ HALF \in Nat \ {0} /\ SEC \in Nat /\ MAX_TURN \in Nat
  /\ FIRST \in Nat \ {0} /\ CHUNK \in Nat \ {0}
  /\ BUFFER \in Nat /\ MAX_FEED \in Nat \ {0}
  /\ MaxFrames \in Nat /\ Surplus \in Nat
  /\ HALF =< SEC + 1
  /\ SEC + 1 < MAX_TURN

\* The 40 s buffer holds the longest open turn, the pause that may follow it,
\* a chunk that waits for more audio and one more message.
ASSUME BufferAssumption ==
  /\ MAX_TURN + SEC + CHUNK + MAX_FEED =< BUFFER
  /\ FIRST + MAX_FEED =< BUFFER

VARIABLES
  total,         \* total_bytes: audio received
  next_sample,   \* where the next diarization chunk starts
  frames,        \* frames scored so far
  base_sample,   \* where the kept PCM starts
  rows,          \* rows of the current response still to be applied
  next_start,    \* where the current response has the next chunk start
  row,           \* the speaker the current row selects, or None
  cursor,        \* the next slot of the current row to be visited
  input,         \* "open", "stopping" once the client has sent session.stop,
                 \* "final" once the last chunk has been taken
  open_turns,    \* slot -> start of its open turn, or None
  pending_ends,  \* slot -> where its open turn paused, or None
  emitted,       \* the segments put on the ASR queue, in that order
  failure,       \* code of the exception that ended the session, or "none"
  pc             \* where the coroutine of this session stands

vars == <<total, next_sample, frames, base_sample, rows, next_start, row,
          cursor, input, open_turns, pending_ends, emitted, failure, pc>>

None     == -1
Speakers == 0 .. Slots - 1

Segment == [speaker : Speakers, lower : Nat, upper : Nat]
Codes   == {"none", "audio_buffer_full", "audio_buffer_invalid",
            "segment_duration_invalid", "diarization_failed",
            "diarization_output_invalid", "diarization_cursor_invalid",
            "invalid_audio_size", "asr_result_mismatch",
            "truncated_pcm_sample", "queue_timeout"}

IsOpen(s) == open_turns[s] # None

\* A slip: a paused turn ends at the current frame.
EndNow(s) == frames

\* pending_ends.get(s, frames * stride): where the turn of s would end now.
End(s) == IF pending_ends[s] # None THEN pending_ends[s] ELSE frames

\* The guards of _close_turn and _slice, in the order they raise.
Rejection(lower, upper) ==
  IF upper - lower > MAX_TURN THEN "segment_duration_invalid"
  ELSE IF ~(base_sample =< lower /\ lower =< upper /\ upper =< total)
       THEN "audio_buffer_invalid"
       ELSE "none"

-----------------------------------------------------------------------------

Init ==
  /\ total = 0 /\ next_sample = 0 /\ frames = 0 /\ base_sample = 0
  /\ rows = 0 /\ next_start = 0 /\ row = None /\ cursor = 0
  /\ input = "open"
  /\ open_turns = [s \in Speakers |-> None]
  /\ pending_ends = [s \in Speakers |-> None]
  /\ emitted = << >>
  /\ failure = "none"
  /\ pc = "ready"

Raise(code) == pc' = "failed" /\ failure' = code

\* feed: keep one binary message, or refuse it when the buffer is full.
Feed ==
  /\ pc = "ready"
  /\ \E n \in 1 .. MAX_FEED :
       /\ total + n =< MaxFrames
       /\ total' = total + n
       /\ IF total + n - base_sample > BUFFER
          THEN Raise("audio_buffer_full")
          ELSE pc' = "pump" /\ UNCHANGED failure
  /\ UNCHANGED <<next_sample, frames, base_sample, rows, next_start, row,
                 cursor, input, open_turns, pending_ends, emitted>>

\* feed refuses a message for its size or because the session has failed.
RefuseMessage ==
  /\ pc = "ready"
  /\ \E code \in {"invalid_audio_size", "asr_result_mismatch"} : Raise(code)
  /\ UNCHANGED <<total, next_sample, frames, base_sample, rows, next_start,
                 row, cursor, input, open_turns, pending_ends, emitted>>

\* finish, up to the call of _pump(last=True); an odd byte count is refused.
Stop ==
  /\ pc = "ready"
  /\ input' = "stopping"
  /\ \/ Raise("truncated_pcm_sample")
     \/ pc' = "pump" /\ UNCHANGED failure
  /\ UNCHANGED <<total, next_sample, frames, base_sample, rows, next_start,
                 row, cursor, open_turns, pending_ends, emitted>>

Available == total - next_sample

\* The chunk to be scored next is the first one until an answer has been taken.
Size == IF next_sample = 0 THEN FIRST ELSE CHUNK

\* _pump returns to the caller: there is no full chunk to score.
PumpReturns ==
  /\ pc = "pump"
  /\ Available =< 0 \/ (Available < Size /\ input = "open")
  /\ pc' = IF input = "open" THEN "ready" ELSE "eof"
  /\ UNCHANGED <<total, next_sample, frames, base_sample, rows, next_start,
                 row, cursor, input, open_turns, pending_ends, emitted,
                 failure>>

\* The worker's answer to the chunk that ends at upper.  A short last chunk is
\* padded, so there may be more rows than audio; before it every frame up to the
\* start of the next chunk is scored.  That start need not lie ahead.
Answers(upper, final) ==
  {a \in [count : 0 .. upper - frames + Surplus,
          next : next_sample - 1 .. upper] :
     final \/ a.next =< frames + a.count}

\* A slip: every row of the answer is applied.
CountedAll(count) == count

\* Rows beyond the audio received are left out.
Counted(count) == IF count < total - frames THEN count ELSE total - frames

\* Why no row of a chunk is applied: _slice, the worker, a check of its answer.
Faults ==
  IF base_sample > next_sample THEN {"audio_buffer_invalid"}
  ELSE {"diarization_failed", "diarization_output_invalid"}
         \cup (IF frames > total THEN {"diarization_cursor_invalid"} ELSE {})

\* _pump calls diarize on the next chunk and takes its rows.
Diarize ==
  /\ pc = "pump"
  /\ Available > 0
  /\ Available >= Size \/ input # "open"
  /\ LET final == input # "open" /\ Available =< Size
         upper == next_sample + (IF Available < Size THEN Available ELSE Size)
     IN \/ /\ base_sample =< next_sample /\ frames =< total
           /\ \E a \in Answers(upper, final) :
                rows' = Counted(a.count) /\ next_start' = a.next
           /\ input' = IF final THEN "final" ELSE input
           /\ pc' = "rows"
           /\ UNCHANGED failure
        \/ /\ \E code \in Faults : Raise(code)
           /\ UNCHANGED <<rows, next_start, input>>
  /\ UNCHANGED <<total, next_sample, frames, base_sample, row, cursor,
                 open_turns, pending_ends, emitted>>

\* _pump hands the next row to _activity.
TakeRow ==
  /\ pc = "rows"
  /\ rows > 0
  /\ row' \in Speakers \cup {None}
  /\ cursor' = 0
  /\ pc' = "scan"
  /\ UNCHANGED <<total, next_sample, frames, base_sample, rows, next_start,
                 input, open_turns, pending_ends, emitted, failure>>

\* The row has been applied to every slot.
RowDone ==
  /\ pc = "scan"
  /\ cursor = Slots
  /\ frames' = frames + 1
  /\ rows' = rows - 1
  /\ pc' = "rows"
  /\ UNCHANGED <<total, next_sample, base_sample, next_start, row, cursor,
                 input, open_turns, pending_ends, emitted, failure>>

\* A slip: an answer that moves the next chunk back is not refused.
MovesAnyway == TRUE

\* The start of the next chunk lies ahead of the one just scored.
MovesOn == next_start > next_sample

\* A slip: trimming without regard to the open turns.
NeededWithoutTurns == {next_start, total, frames}

\* Where _trim may cut: the next chunk, the end, the first unscored frame and
\* the starts of the open turns.
Needed == {next_start, total, frames}
            \cup {open_turns[s] : s \in {t \in Speakers : IsOpen(t)}}

\* Once its rows have been applied, the answer's cursor is taken, and _trim
\* forgets the PCM before the earliest of these.
Trim ==
  /\ pc = "rows"
  /\ rows = 0
  /\ \/ /\ MovesOn
        /\ next_sample' = next_start
        /\ base_sample' \in Needed /\ \A k \in Needed : base_sample' =< k
        /\ pc' = IF input = "final" THEN "eof" ELSE "pump"
        /\ UNCHANGED failure
     \/ /\ ~MovesOn
        /\ Raise("diarization_cursor_invalid")
        /\ UNCHANGED <<next_sample, base_sample>>
  /\ UNCHANGED <<total, frames, rows, next_start, row, cursor, input,
                 open_turns, pending_ends, emitted>>

-----------------------------------------------------------------------------

\* _close_turn: a short turn is dropped, any other is put on the ASR queue,
\* whose put may time out after the turn was already taken out of open_turns.
\* "start" is where the same speaker's turn goes on, or None.
CloseTurn(s, upper, start, step) ==
  LET lower == open_turns[s]
      short == upper - lower < HALF
      code  == Rejection(lower, upper)
  IN /\ pending_ends' = [pending_ends EXCEPT ![s] = None]
     /\ \/ /\ short \/ code = "none"
           /\ open_turns' = [open_turns EXCEPT ![s] = start]
           /\ emitted' = IF short THEN emitted
                         ELSE Append(emitted, [speaker |-> s, lower |-> lower,
                                               upper |-> upper])
           /\ pc' = step
           /\ UNCHANGED failure
        \/ /\ ~short
           /\ open_turns' = [open_turns EXCEPT ![s] = None]
           /\ Raise(IF code = "none" THEN "queue_timeout" ELSE code)
           /\ UNCHANGED emitted

Untouched == UNCHANGED <<total, next_sample, frames, base_sample, rows,
                         next_start, row, input>>

\* _activity, a slot the row does not select: an open turn pauses here, and
\* ends when the pause has lasted for more than a second.
Inactive ==
  /\ pc = "scan"
  /\ cursor < Slots
  /\ cursor # row
  /\ cursor' = cursor + 1
  /\ IF ~IsOpen(cursor)
     THEN UNCHANGED <<open_turns, pending_ends, emitted, failure, pc>>
     ELSE IF frames + 1 - End(cursor) > SEC
     THEN CloseTurn(cursor, End(cursor), None, "scan")
     ELSE /\ pending_ends' = [pending_ends EXCEPT ![cursor] = End(cursor)]
          /\ UNCHANGED <<open_turns, emitted, failure, pc>>
  /\ Untouched

\* A slip: a returning speaker absorbs every other turn.
AbsorbedAll(s, paused) == {o \in Speakers \ {s} : IsOpen(o)}

\* The turns that a speaker who returns after pausing at "paused" absorbs.
Absorbed(s, paused) ==
  {o \in Speakers \ {s} : IsOpen(o) /\ open_turns[o] >= paused}

\* _activity, the selected slot: its turn opens or resumes; one that resumes
\* absorbs the turns that others opened in its pause.
Active ==
  /\ pc = "scan"
  /\ cursor < Slots
  /\ cursor = row
  /\ LET paused == pending_ends[row]
         gone   == IF paused = None THEN {} ELSE Absorbed(row, paused)
     IN /\ open_turns' = [s \in Speakers |->
                            IF s \in gone THEN None
                            ELSE IF s = row /\ ~IsOpen(s) THEN frames
                            ELSE open_turns[s]]
        /\ pending_ends' = [s \in Speakers |->
                              IF s \in gone \cup {row} THEN None
                              ELSE pending_ends[s]]
  /\ pc' = "confirm"
  /\ UNCHANGED <<cursor, emitted, failure>>
  /\ Untouched

Others == {o \in Speakers \ {row} : IsOpen(o)}

\* After 500 ms of one speaker every other open turn ends, one put at a time.
\* (The code visits open_turns in insertion order; here the order is free.)
ConfirmChange ==
  /\ pc = "confirm"
  /\ frames + 1 - open_turns[row] >= HALF
  /\ \E o \in Others : CloseTurn(o, End(o), None, "confirm")
  /\ UNCHANGED cursor
  /\ Untouched

\* A slip: what follows the cut is dropped.
RemainderDropped(boundary) == None

\* Where the turn goes on after a cut at boundary, or None.
Remainder(boundary) == IF frames + 1 > boundary THEN boundary ELSE None

\* A turn of 25 s is cut there; what follows the cut opens the next turn.
CutLongTurn ==
  /\ pc = "confirm"
  /\ frames + 1 - open_turns[row] < HALF \/ Others = {}
  /\ cursor' = cursor + 1
  /\ LET boundary == open_turns[row] + MAX_TURN
     IN IF frames + 1 >= boundary
        THEN CloseTurn(row, boundary, Remainder(boundary), "scan")
        ELSE /\ pc' = "scan"
             /\ UNCHANGED <<open_turns, pending_ends, emitted, failure>>
  /\ Untouched

\* finish closes what is still open, then waits for the ASR results.
CloseAtEof ==
  /\ pc = "eof"
  /\ \E s \in Speakers : IsOpen(s) /\ CloseTurn(s, End(s), None, "eof")
  /\ UNCHANGED cursor
  /\ Untouched

Drained ==
  /\ pc = "eof"
  /\ \A s \in Speakers : ~IsOpen(s)
  /\ pc' = "ended"
  /\ UNCHANGED <<total, next_sample, frames, base_sample, rows, next_start,
                 row, cursor, input, open_turns, pending_ends, emitted,
                 failure>>

\* A session that is over does nothing more.
Over == pc \in {"ended", "failed"} /\ UNCHANGED vars

Next ==
  \/ Feed \/ RefuseMessage \/ Stop
  \/ PumpReturns \/ Diarize \/ TakeRow \/ RowDone \/ Trim
  \/ Inactive \/ Active \/ ConfirmChange \/ CutLongTurn
  \/ CloseAtEof \/ Drained \/ Over

Spec == Init /\ [][Next]_vars

-----------------------------------------------------------------------------

TypeOK ==
  /\ total \in Nat /\ next_sample \in Nat /\ frames \in Nat
  /\ base_sample \in Nat /\ rows \in Nat /\ next_start \in Int
  /\ row \in Speakers \cup {None}
  /\ cursor \in 0 .. Slots
  /\ input \in {"open", "stopping", "final"}
  /\ open_turns \in [Speakers -> Nat \cup {None}]
  /\ pending_ends \in [Speakers -> Nat \cup {None}]
  /\ emitted \in Seq(Segment)
  /\ failure \in Codes
  /\ pc \in {"ready", "pump", "rows", "scan", "confirm", "eof", "ended",
             "failed"}

\* The same PCM never reaches the recogniser twice, and the segments leave in
\* the order of their audio, whatever speakers alternate, pause, return or are
\* cut (ADR-0013; _activity and _close_turn).
NoOverlap ==
  \A i, j \in 1 .. Len(emitted) :
    i < j => emitted[i].upper =< emitted[j].lower

\* The internal checks of _close_turn and _slice never raise: no turn outgrows
\* 25 s, and the PCM of a turn is still in the buffer when it closes.
NoInternalError ==
  failure \notin {"segment_duration_invalid", "audio_buffer_invalid"}

\* A client that respects the message size never meets audio_buffer_full: what
\* an unfinished turn and its pause can hold back fits in 40 s (feed, _trim).
BufferSuffices == failure # "audio_buffer_full"

\* Frames that are in a segment or in an open turn.
Held ==
  LET Range(lower, upper) == lower .. upper - 1
  IN UNION ({Range(emitted[i].lower, emitted[i].upper) : i \in 1 .. Len(emitted)}
              \cup {Range(open_turns[s], End(s)) : s \in {t \in Speakers : IsOpen(t)}})

\* While the session lives, a frame someone was heard in is let go only with a
\* whole turn shorter than 500 ms, and the frame just scored is held
\* (_activity, _close_turn: the only loss is the documented one).
SpeechKept ==
  [][pc' # "failed" =>
       /\ \A f \in Held \ Held' :
            \E s \in Speakers :
              /\ IsOpen(s) /\ open_turns'[s] # open_turns[s]
              /\ open_turns[s] =< f /\ f < End(s)
              /\ End(s) - open_turns[s] < HALF
       /\ frames' # frames /\ row # None => frames \in Held'
    ]_vars

\* A turn swallowed by a returning speaker was itself too short to be
\* transcribed: a longer one would have closed that speaker's turn first (the
\* comment in _activity says so).
AbsorbsOnlyShort ==
  \A o \in Speakers :
    IsOpen(o) /\ open_turns'[o] = None /\ pc = "scan" /\ cursor = row
    => End(o) - open_turns[o] < HALF

OnlyShortAbsorbed == [][AbsorbsOnlyShort]_vars

\* What the later stages rely on, as a specification of its own.
Stream == INSTANCE SegmentStream WITH
            heard <- total, Shortest <- HALF, Longest <- MAX_TURN,
            MaxHear <- MAX_FEED

StreamSpec == Stream!Spec

-----------------------------------------------------------------------------
(***************************************************************************)
(* The inductive invariant behind NoOverlap, NoInternalError and           *)
(* BufferSuffices.                                                         *)
(***************************************************************************)

\* The current row has already been applied to the slot it selects.
RowSeen == row # None /\ (pc = "confirm" \/ (pc = "scan" /\ cursor > row))

\* The current row has been applied to s, which it does not select.
PassedOver(s) == pc \in {"scan", "confirm"} /\ s < cursor /\ s # row

\* A row is being applied only while one is left, and its speaker has an open
\* turn once the row has reached it.
RowOK ==
  /\ pc \in {"scan", "confirm"} => rows > 0
  /\ pc = "confirm" => row # None /\ cursor = row /\ IsOpen(row)

\* Rows that wait to be applied lie within the audio received.
FlowOK ==
  /\ frames + rows =< total
  /\ input # "final" => next_sample =< frames + rows
  /\ input # "final" /\ pc \in {"rows", "scan", "confirm"} =>
       next_start =< frames + rows
  /\ pc \in {"ready", "pump"} => input # "final"
  /\ pc \in {"ready", "pump", "eof"} => rows = 0
  /\ pc = "ready" => total - next_sample < Size

\* A turn starts before it pauses, and pauses in the past.
TurnShape ==
  \A s \in Speakers :
    /\ pending_ends[s] # None =>
         /\ IsOpen(s)
         /\ open_turns[s] < pending_ends[s] /\ pending_ends[s] =< frames
         /\ frames - pending_ends[s] =< SEC
         /\ ~(RowSeen /\ s = row)
    /\ IsOpen(s) => open_turns[s] =< frames
    /\ IsOpen(s) /\ ~(RowSeen /\ s = row) =>
         open_turns[s] < frames /\ End(s) - open_turns[s] < MAX_TURN
    /\ PassedOver(s) /\ IsOpen(s) =>
         pending_ends[s] # None /\ frames + 1 - pending_ends[s] =< SEC

\* Open turns follow one another.
TurnChain ==
  \A s, o \in Speakers :
    s # o /\ IsOpen(s) /\ IsOpen(o) =>
      End(o) =< open_turns[s] \/ End(s) =< open_turns[o]

\* Of the open turns only the earliest can be long enough to be transcribed:
\* this is why closing them in any order emits them in the order of the audio.
LaterAreShort ==
  \A s, o \in Speakers :
    /\ s # o /\ IsOpen(s) /\ IsOpen(o) /\ End(o) =< open_turns[s]
    /\ ~(RowSeen /\ s = row)
    => End(s) - open_turns[s] < HALF

\* The selected speaker's turn, before and after the row is done with it.
SelectedTurn ==
  RowSeen /\ IsOpen(row) =>
    /\ frames - open_turns[row] < MAX_TURN + SEC
    /\ pc = "scan" =>
         /\ frames + 1 - open_turns[row] < MAX_TURN
         /\ frames + 1 - open_turns[row] < HALF \/ Others = {}

\* The log lies before every open turn, within the audio that was scored.
LogOK ==
  /\ \A i \in 1 .. Len(emitted) :
       /\ HALF =< emitted[i].upper - emitted[i].lower
       /\ emitted[i].upper - emitted[i].lower =< MAX_TURN
       /\ emitted[i].upper =< (IF RowSeen THEN frames + 1 ELSE frames)
       /\ emitted[i].upper =< total
       /\ \A s \in Speakers : IsOpen(s) => emitted[i].upper =< open_turns[s]

\* The buffer still holds every open turn, and nothing much older.
BufferOK ==
  /\ base_sample =< frames /\ base_sample =< next_sample
  /\ \A s \in Speakers : IsOpen(s) => base_sample =< open_turns[s]
  /\ pc \in {"ready", "pump"} =>
       base_sample >= next_sample \/ base_sample >= frames - MAX_TURN - SEC

\* A failed session is released as it stands: only its log is still of interest.
TurnInv ==
  /\ FlowOK /\ TurnShape /\ TurnChain /\ LaterAreShort
  /\ SelectedTurn /\ LogOK /\ BufferOK

IInv ==
  /\ TypeOK /\ RowOK /\ NoOverlap /\ NoInternalError /\ BufferSuffices
  /\ pc # "failed" => TurnInv

=============================================================================
