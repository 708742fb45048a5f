------------------------------- MODULE AsrBatch -------------------------------
(***************************************************************************)
(* One batch of segments, of whichever sessions, in the ASR model:         *)
(* _transcribe calls the model for all of them, and for each by itself if  *)
(* an input is refused; _failure_code judges each output.                  *)
(* (src/meety_ai/modal_app/stt/pipeline.py)                                *)
(*                                                                         *)
(* The model is external: it answers a call with one output for each       *)
(* input, or refuses a call that holds an unsound input, having finished   *)
(* some of its inputs or none.  What is judged of a text is whether it is  *)
(* blank, how many letters and digits it has and whether these are in the  *)
(* context of the session.                                                 *)
(***************************************************************************)
EXTENDS Integers, Sequences

CONSTANTS
  BATCH_SIZE, Lengths,    \* of segments, in seconds
  LetterCounts, CONTEXT_ECHO_MIN_CHARS, MAX_CHARS_PER_SECOND

VARIABLES
  asr_jobs,     \* the batch
  generations,  \* how the model finished what it generated
  outputs,      \* of the model, so far
  verdicts,     \* the results of the batch so far
  alone,        \* whether each job is tried by itself
  returned      \* "none", "results" or "raised"

vars == <<asr_jobs, generations, outputs, verdicts, alone, returned>>

Job == [sound : BOOLEAN, seconds : Lengths]
Output == {o \in [blank : BOOLEAN, letters : LetterCounts, echo : BOOLEAN,
                  finish : {"stop", "length"}] : o.blank => o.letters = 0 /\ ~o.echo}

Init ==
  /\ \E n \in 1 .. BATCH_SIZE : asr_jobs \in [1 .. n -> Job]
  /\ generations = << >> /\ outputs = << >> /\ verdicts = << >>
  /\ alone = FALSE /\ returned = "none"

\* _failure_code
FailureCode(output, seconds) ==
  CASE output.finish = "length" -> "generation_token_cap"
    [] output.finish # "length" /\ output.blank -> "empty_transcript"
    [] output.finish # "length" /\ ~output.blank ->
         IF output.letters < CONTEXT_ECHO_MIN_CHARS THEN "committed"
         ELSE IF output.echo THEN "context_echo"
         ELSE IF output.letters > MAX_CHARS_PER_SECOND * seconds THEN "text_rate_exceeded"
         ELSE "committed"

\* The jobs of the next call of the model.
Called == IF alone THEN <<asr_jobs[Len(verdicts) + 1]>> ELSE asr_jobs

\* A slip: what an earlier call generated is kept.
Kept == generations

\* Each call of _transcribe forgets what was generated before.
Cleared == << >>

Finishes(made) == [i \in DOMAIN made |-> made[i].finish]

Returned(codes) ==
  /\ verdicts' = verdicts \o codes
  /\ returned' = IF Len(verdicts') = Len(asr_jobs) THEN "results" ELSE "none"

\* Outputs and generations are matched by their places, if there are enough.
Transcribed ==
  /\ returned = "none" /\ \A i \in DOMAIN Called : Called[i].sound
  /\ \E made \in [DOMAIN Called -> Output] :
       /\ generations' = Cleared \o Finishes(made)
       /\ outputs' = outputs \o made
       /\ Returned(IF Len(generations') = Len(Called)
                   THEN [i \in DOMAIN Called |->
                           FailureCode([made[i] EXCEPT !.finish = generations'[i]],
                                       Called[i].seconds)]
                   ELSE [i \in DOMAIN Called |-> "asr_result_mismatch"])
  /\ UNCHANGED <<asr_jobs, alone>>

\* An input error: a batch of several is tried one by one.
Refused ==
  /\ returned = "none" /\ \E i \in DOMAIN Called : ~Called[i].sound
  /\ \E n \in 0 .. Len(Called) - 1 : \E made \in [1 .. n -> Output] :
       generations' = Cleared \o Finishes(made)
  /\ IF Len(Called) > 1
     THEN alone' = TRUE /\ UNCHANGED <<outputs, verdicts, returned>>
     ELSE /\ Returned(<<"asr_failed">>)
          /\ outputs' = Append(outputs, << >>)
          /\ UNCHANGED alone
  /\ UNCHANGED asr_jobs

\* Any other error ends the worker.
Raises ==
  /\ returned = "none" /\ returned' = "raised"
  /\ UNCHANGED <<asr_jobs, generations, outputs, verdicts, alone>>

Next == Transcribed \/ Refused \/ Raises

Spec == Init /\ [][Next]_vars
-----------------------------------------------------------------------------
\* Property

\* The segments of a batch do not answer for one another, although one call of
\* the model serves several sessions: whatever input of the batch is refused, a
\* sound one is judged by its own output alone, by the time it lasts and the way
\* its own generation finished; and a short text that was finished is kept, even
\* if it is in the context or was said fast (the comment on
\* CONTEXT_ECHO_MIN_CHARS).
JudgedAlone ==
  \A i \in DOMAIN verdicts :
    /\ (verdicts[i] = "asr_failed") = ~asr_jobs[i].sound
    /\ asr_jobs[i].sound =>
         LET o == outputs[i]
         IN  /\ verdicts[i] = FailureCode(o, asr_jobs[i].seconds)
             /\ o.finish = "stop" /\ ~o.blank /\ o.letters < CONTEXT_ECHO_MIN_CHARS
                  => verdicts[i] = "committed"
===============================================================================
