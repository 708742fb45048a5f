-------------------------- MODULE RecordingSession --------------------------
(***************************************************************************)
(* The protocol state of one recording session, RecordingSession in        *)
(* src/meety_ai/recording/session.py: which client input is legal when,    *)
(* and what it does to the audio sequence.  A session is a record; the     *)
(* connection that owns it (RecordingConnection) applies the operators.    *)
(***************************************************************************)
EXTENDS Integers

CONSTANT MAX_AUDIO_CHUNK_SIZE  \* 256 KiB, the longest audio chunk

ASSUME ChunkAssumption == MAX_AUDIO_CHUNK_SIZE \in Nat \ {0}

None == -1

SessionState == {"NEW", "READY", "PAUSED", "ENDED"}

Session == [state : SessionState, next : Nat, pending : Nat \cup {None},
            last : Nat \cup {None}, pcm_bytes : Nat]

NewSession == [state |-> "NEW", next |-> 0, pending |-> None, last |-> None,
               pcm_bytes |-> 0]

ExpectsBinary(s) == s.pending # None

Live(s) == s.state \in {"READY", "PAUSED"}

\* The code of the SessionProtocolError that handle_event raises for e.  A
\* heartbeat is looked at first: it may stand between audio.meta and its binary.
EventError(s, e) ==
  IF e.type = "heartbeat.ping"
  THEN IF ~Live(s) THEN "invalid_state"
       ELSE IF e.same_session = "no" THEN "invalid_message" ELSE "none"
  ELSE IF ExpectsBinary(s) THEN "expected_binary"
  ELSE IF \/ e.type = "session.start"  /\ s.state # "NEW"
          \/ e.type = "audio.meta"     /\ s.state # "READY"
          \/ e.type = "session.pause"  /\ s.state # "READY"
          \/ e.type = "session.resume" /\ s.state # "PAUSED"
          \/ e.type = "session.stop"   /\ ~Live(s)
       THEN "invalid_state"
  ELSE IF e.type = "audio.meta" /\ e.sequence > s.next THEN "invalid_sequence"
  ELSE "none"

\* The session after handle_event has accepted e.
AfterEvent(s, e) ==
  CASE e.type = "session.start"  -> [s EXCEPT !.state = "READY",
                                              !.next = e.start_sequence]
    [] e.type = "audio.meta"     -> [s EXCEPT !.pending = e.sequence]
    [] e.type = "session.pause"  -> [s EXCEPT !.state = "PAUSED"]
    [] e.type = "session.resume" -> [s EXCEPT !.state = "READY"]
    [] e.type = "session.stop"   -> [s EXCEPT !.state = "ENDED"]
    [] OTHER                     -> s

\* A slip: an empty binary is let through.
BinaryErrorWithoutEmpty(s, size) ==
  IF s.state # "READY" THEN "invalid_state"
  ELSE IF ~ExpectsBinary(s) THEN "unexpected_binary"
  ELSE IF size > MAX_AUDIO_CHUNK_SIZE THEN "message_too_large"
  ELSE IF size % 2 # 0 THEN "invalid_message"
  ELSE "none"

\* The code that handle_binary raises before it looks at the sequence.
BinaryError(s, size) ==
  IF s.state # "READY" THEN "invalid_state"
  ELSE IF ~ExpectsBinary(s) THEN "unexpected_binary"
  ELSE IF size = 0 THEN "invalid_message"
  ELSE IF size > MAX_AUDIO_CHUNK_SIZE THEN "message_too_large"
  ELSE IF size % 2 # 0 THEN "invalid_message"
  ELSE "none"

\* A slip: a retransmitted chunk is taken again.
IsNotAhead(s) == s.pending =< s.next

\* A chunk below next has been taken before: it is acknowledged, not taken.
IsNextChunk(s) == s.pending = s.next

\* A slip: a retransmitted chunk leaves its announcement pending.
AfterBinaryKeptPending(s, size) ==
  IF IsNextChunk(s)
  THEN [s EXCEPT !.pcm_bytes = @ + size, !.last = s.pending, !.next = @ + 1,
                 !.pending = None]
  ELSE s

AfterBinary(s, size) ==
  IF IsNextChunk(s)
  THEN [s EXCEPT !.pcm_bytes = @ + size, !.last = s.pending, !.next = @ + 1,
                 !.pending = None]
  ELSE [s EXCEPT !.pending = None]

\* close
ClosedSession(s) == [s EXCEPT !.state = "ENDED"]

==============================================================================
