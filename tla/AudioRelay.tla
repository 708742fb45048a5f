----------------------------- MODULE AudioRelay -----------------------------
(***************************************************************************)
(* What one recording connection promises about audio: chunks are taken in *)
(* the order of their sequence numbers, without a gap or a repetition;     *)
(* they reach the speech-to-text provider once each and in that order; and *)
(* a session is confirmed as ended only when the provider has had all.     *)
(***************************************************************************)
EXTENDS Integers, Sequences

CONSTANT Chunk  \* chunks a client may send, each with its sequence number

VARIABLES
  taken,    \* the chunks accepted from the client
  relayed,  \* the chunks the provider has been given
  outcome   \* "open", or "ended" once the client has been told so

Init == taken = << >> /\ relayed = << >> /\ outcome = "open"

Follows(c) == taken = << >> \/ c.sequence = taken[Len(taken)].sequence + 1

Take ==
  /\ outcome = "open"
  /\ \E c \in Chunk : Follows(c) /\ taken' = Append(taken, c)
  /\ UNCHANGED <<relayed, outcome>>

Relay ==
  /\ outcome = "open"
  /\ Len(relayed) < Len(taken)
  /\ relayed' = Append(relayed, taken[Len(relayed) + 1])
  /\ UNCHANGED <<taken, outcome>>

End ==
  /\ outcome = "open"
  /\ relayed = taken
  /\ outcome' = "ended"
  /\ UNCHANGED <<taken, relayed>>

Next == Take \/ Relay \/ End

Spec == Init /\ [][Next]_<<taken, relayed, outcome>>

==============================================================================
