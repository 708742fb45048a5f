---------------------------- MODULE SegmentStream ----------------------------
(***************************************************************************)
(* What the segmentation of one session promises to the stages behind it   *)
(* (the ASR queue, and the client that checks endedAtMs against the audio  *)
(* it has sent): a log of segments that only grows, in the order of the    *)
(* audio, no two sharing a frame, none shorter than 500 ms or longer than  *)
(* 25 s, none ahead of the audio received.                                 *)
(***************************************************************************)
EXTENDS Integers, Sequences

CONSTANTS Speakers, Shortest, Longest, MaxHear

VARIABLES
  heard,    \* frames of audio received
  emitted   \* the segments handed on, in that order

EndOfLog == IF emitted = << >> THEN 0 ELSE emitted[Len(emitted)].upper

Init == heard = 0 /\ emitted = << >>

Hear ==
  /\ heard' \in heard + 1 .. heard + MaxHear
  /\ UNCHANGED emitted

Emit ==
  /\ \E s \in Speakers, lower, upper \in EndOfLog .. heard :
       /\ Shortest =< upper - lower
       /\ upper - lower =< Longest
       /\ emitted' = Append(emitted, [speaker |-> s, lower |-> lower,
                                      upper |-> upper])
  /\ UNCHANGED heard

Next == Hear \/ Emit

Spec == Init /\ [][Next]_<<heard, emitted>>

==============================================================================
