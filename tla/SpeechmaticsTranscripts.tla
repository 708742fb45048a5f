----------------------- MODULE SpeechmaticsTranscripts -----------------------
(***************************************************************************)
(* SpeechmaticsClient: the confirmed words of the provider are grouped to  *)
(* transcripts, which end with a sentence, with a change of the speaker,   *)
(* or when they are long; and the session ends by finish(), or by an error *)
(* that is reported once.  (src/meety_ai/stt/speechmatics.py)              *)
(*                                                                         *)
(* The provider and its SDK are external: a message holds words and marks  *)
(* in the order of their times, a mark belongs to the word before it and   *)
(* has its speaker, and nothing follows the end of the transcript.  Times  *)
(* are counted in units of which a word takes a few.                       *)
(***************************************************************************)
EXTENDS Integers, SequencesExt

CONSTANTS
  Speakers,
  Durations,     \* of a word
  MAX_DURATION,  \* MAX_TRANSCRIPT_DURATION_SECONDS (10)
  MaxResults,    \* bound of the model: results of a session
  MaxPerMessage  \* bound of the model: results of a message

VARIABLES
  group,         \* the results of _buffered_text, _current_speaker, and the
                 \* transcripts given to on_transcript
  reported,      \* whether on_error was called
  end_received, closing,
  finish,        \* of the call of finish(); _finishing once there is one
  received       \* history: of the provider

vars == <<group, reported, end_received, closing, finish, received>>

NoSpeaker == "none"

\* A result: who speaks, how long, whether it is a mark and ends a sentence.
Word == [speaker : Speakers, length : Durations, mark : {FALSE}, ends : BOOLEAN]
Mark(s) == [speaker : {s}, length : {0}, mark : {TRUE}, ends : BOOLEAN]

Init ==
  /\ group = [buffered |-> << >>, speaker |-> NoSpeaker, transcripts |-> << >>]
  /\ received = << >> /\ finish = "not called"
  /\ reported = FALSE /\ end_received = FALSE /\ closing = FALSE

\* _report_error: only the first is reported.
Report == reported' = TRUE

-----------------------------------------------------------------------------
\* The grouping.

\* Words follow one another: their lengths make _ended_at - _started_at.
Lasts(results) ==
  LET sum[n \in 0 .. Len(results)] ==
        IF n = 0 THEN 0 ELSE sum[n - 1] + results[n].length
  IN sum[Len(results)]

\* _flush_transcript
Flush(g) ==
  IF g.buffered = << >> THEN g
  ELSE [buffered |-> << >>, speaker |-> NoSpeaker,
        transcripts |-> Append(g.transcripts, g.buffered)]

\* A slip: the speaker who spoke last is not looked at.
SameSpeaker(g, r) == FALSE

SpeakerChanges(g, r) ==
  ~r.mark /\ g.speaker # NoSpeaker /\ r.speaker # g.speaker

\* One result; mark_follows: the next of the message is a mark.
Handle(g, r, mark_follows) ==
  LET before == IF SpeakerChanges(g, r) THEN Flush(g) ELSE g
      with   == [before EXCEPT !.buffered = Append(@, r), !.speaker = r.speaker]
  IN  IF r.ends \/ (Lasts(with.buffered) >= MAX_DURATION /\ ~mark_follows)
      THEN Flush(with) ELSE with

Handled(results) ==
  LET handled[n \in 0 .. Len(results)] ==
        IF n = 0 THEN group
        ELSE Handle(handled[n - 1], results[n], n < Len(results) /\ results[n + 1].mark)
  IN handled[Len(results)]

-----------------------------------------------------------------------------
\* What the provider may send: a mark follows a word of the same speaker.
Message ==
  {m \in BoundedSeq(Word \cup UNION {Mark(s) : s \in Speakers}, MaxPerMessage) :
     \A i \in DOMAIN m :
       LET before == received \o SubSeq(m, 1, i - 1)
       IN  m[i].mark => /\ before # << >>
                        /\ ~Last(before).mark /\ Last(before).speaker = m[i].speaker}

\* _handle_transcript
HandleTranscript ==
  /\ ~end_received /\ ~closing
  /\ \E m \in Message :
       /\ Len(received) + Len(m) =< MaxResults
       /\ group' = Handled(m)
       /\ received' = received \o m
  /\ UNCHANGED <<reported, end_received, closing, finish>>

\* _handle_end: what is buffered is flushed; unasked for, the end is an error.
HandleEnd ==
  /\ ~end_received /\ ~closing
  /\ end_received' = TRUE
  /\ IF finish # "not called" THEN group' = Flush(group) /\ UNCHANGED reported
     ELSE Report /\ UNCHANGED group
  /\ UNCHANGED <<closing, finish, received>>

\* _handle_error, _receive_done of a connection that is lost, a malformed message.
HandleError ==
  /\ ~closing
  /\ Report
  /\ UNCHANGED <<group, end_received, closing, finish, received>>

\* finish() tells the provider that the audio has ended.
Finish ==
  /\ finish = "not called" /\ ~closing
  /\ finish' = "waiting"
  /\ UNCHANGED <<group, reported, end_received, closing, received>>

\* stop_session returns, fails, or is given up by the caller.
FinishEnds ==
  /\ finish = "waiting"
  /\ \/ IF ~reported /\ end_received
        THEN finish' = "returned" /\ UNCHANGED reported
        ELSE finish' = "failed" /\ Report
     \/ finish' = "failed" /\ Report
     \/ finish' = "failed" /\ UNCHANGED reported
  /\ UNCHANGED <<group, end_received, closing, received>>

Close ==
  /\ ~closing /\ finish # "waiting"
  /\ closing' = TRUE
  /\ UNCHANGED <<group, reported, end_received, finish, received>>

Next ==
  \/ HandleTranscript \/ HandleEnd \/ HandleError \/ Finish \/ FinishEnds \/ Close

Spec == Init /\ [][Next]_vars
-----------------------------------------------------------------------------
\* Property

\* However results are split over messages, every one received is in exactly one
\* transcript or still buffered, in its order, and when finish() returns none is
\* left behind; a transcript holds the words of one speaker and of one sentence,
\* and does not go on once it is long, but for the mark that follows in the same
\* message.
WordsKept ==
  /\ FlattenSeq(group.transcripts) \o group.buffered = received
  /\ finish = "returned" => group.buffered = << >>
  /\ \A t \in ToSet(group.transcripts) : \A j \in DOMAIN t :
       /\ t[j].speaker = t[1].speaker
       /\ j < Len(t) => /\ ~t[j].ends
                        /\ Lasts(SubSeq(t, 1, j)) < MAX_DURATION \/ t[j + 1].mark
==============================================================================
