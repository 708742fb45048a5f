------------------------ MODULE RecordingConnection ------------------------
(***************************************************************************)
(* One live recording connection: RecordingConnection.run and its sender,  *)
(* audio and context tasks (src/meety_ai/recording/connection.py), the     *)
(* transcript sender (recording/transcript.py), and the provider client as *)
(* the connection sees it (src/meety_ai/stt/modal.py).                     *)
(*                                                                         *)
(* An action is what a task does between two awaits.  A task that has been *)
(* cancelled does nothing more than end: asyncio delivers CancelledError   *)
(* at its next step.  Message contents are left out.                       *)
(***************************************************************************)
EXTENDS RecordingSession, Sequences, SequencesExt, Selection

CONSTANTS
  MAX_PENDING_AUDIO_BYTES,  \* audio that may wait for the provider (240 s)
  StartSequences,           \* the start_sequence values of a session.start
  TranscriptStarts,         \* its transcript_sequence_start values
  ChunkSizes,               \* sizes of the binary messages a client may send
  MaxSequence,              \* bound of the model: last audio sequence number
  MaxResults                \* bound of the model: results of the provider

ASSUME ConnectionAssumption ==
  /\ MAX_PENDING_AUDIO_BYTES \in Nat /\ MaxSequence \in Nat /\ MaxResults \in Nat
  /\ StartSequences \subseteq Nat /\ TranscriptStarts \subseteq Nat
  /\ ChunkSizes \subseteq Nat

VARIABLES
  session,          \* the RecordingSession
  accepted,         \* history: the chunks the session has taken
  binary_deadline,  \* "armed" while the binary of an audio.meta is awaited
  audio_queue,      \* _audio_queue without its end mark
  audio_eof,        \* "put" once None has been put behind the queue
  pending_bytes,    \* _pending_audio_bytes
  in_flight,        \* the chunk given to send_audio and not confirmed
  relayed,          \* history: the chunks the provider has taken
  transcript_queue, \* _transcript_queue, its None written "end"
  current,          \* what the sender task has taken off that queue
  number,           \* sequence_number of the next transcript
  asked,            \* history: the transcript_sequence_start that was asked for
  resumed,          \* _resumed: "yes" for a session that continues another
  results,          \* history: what the provider has reported
  delivered,        \* history: what the client has been sent of it
  task,             \* where the sender, audio, context and receiver tasks are
  cancelled,        \* tasks that will find themselves cancelled
  stt_ready,        \* the _stt_ready event
  fault,            \* _background_error
  watcher,          \* the task of _raise_background_error
  stt,              \* the provider client: error, stop and context sent, ended
  interrupt,        \* why run() will find itself cancelled, or "none"
  main,             \* where run() stands
  final             \* "ended" once session.ended has been sent

audioVars      == <<audio_queue, audio_eof, pending_bytes, in_flight, relayed>>
transcriptVars == <<transcript_queue, current, number, asked, resumed, results,
                    delivered>>
inputVars      == <<session, accepted, binary_deadline>>
taskVars       == <<task, cancelled, stt_ready, stt>>
runVars        == <<watcher, interrupt, main, final>>
vars == <<inputVars, audioVars, transcriptVars, taskVars, fault, runVars>>

Chunk == [sequence : 0 .. MaxSequence, size : 1 .. MAX_AUDIO_CHUNK_SIZE]

Tasks == {"sender", "audio", "context", "receiver"}

Finished(t) == task[t] \in {"none", "done"}

\* A task takes a step of its own only while nobody has cancelled it.
At(t, place) == task[t] = place /\ t \notin cancelled

Move(t, place) == task' = [task EXCEPT ![t] = place]

\* The client's texts: the events of client_event_adapter, a text that does not
\* validate and one that is longer than MAX_TEXT_SIZE.
Texts ==
  [type : {"session.start"}, start_sequence : StartSequences,
   transcript_sequence_start : TranscriptStarts]
  \cup [type : {"audio.meta"}, sequence : 0 .. MaxSequence]
  \cup [type : {"heartbeat.ping"}, same_session : {"yes", "no"}]
  \cup [type : {"session.pause", "session.resume", "session.stop", "malformed",
                "oversized"}]

Init ==
  /\ session = NewSession /\ accepted = << >> /\ binary_deadline = "none"
  /\ audio_queue = << >> /\ audio_eof = "open" /\ pending_bytes = 0
  /\ in_flight = << >> /\ relayed = << >>
  /\ transcript_queue = << >> /\ current = "none" /\ number = 0
  /\ asked = 0 /\ resumed = "no" /\ results = << >> /\ delivered = << >>
  /\ task = [t \in Tasks |-> "none"] /\ cancelled = {} /\ stt_ready = "unset"
  /\ stt = [error |-> "none", stop |-> "no", context |-> "no", ended |-> "no"]
  /\ fault = "none"
  /\ watcher = "waiting" /\ interrupt = "none" /\ main = "receive"
  /\ final = "none"

-----------------------------------------------------------------------------
\* Errors.

\* _on_error: the first background error wins.  Once run() has cancelled the
\* watcher, the future it awaited is cancelled too and takes no error.
OnError(kind) ==
  fault' = IF fault = "none" /\ watcher # "over" THEN kind ELSE fault

\* ModalSTTClient._report_error and _on_provider_error.
ReportProviderError ==
  /\ stt' = [stt EXCEPT !.error = "failed"]
  /\ IF stt.error = "none" THEN OnError("provider") ELSE UNCHANGED fault

\* What run() turns into an error message; a disconnect and a fault of the
\* program itself it does not.
Reportable(kind) ==
  kind \notin {"none", "disconnect", "internal", "returned", "cancelled"}

\* _receive_loop is left, by return or by an exception of this kind.  The
\* watcher is cancelled if it has not raised; what it raised comes first.
Leave(kind) ==
  /\ watcher' = "over"
  /\ interrupt' = "none"
  /\ main' = IF Reportable(kind) \/ (watcher = "raised" /\ Reportable(fault))
             THEN "error" ELSE "cleanup"

\* The task run() awaits: cancelling run() cancels that one first.
Awaited ==
  CASE main = "stop_audio"  -> {"audio"}
    [] main = "stop_stt"    -> {"receiver"}
    [] main = "stop_sender" -> {"sender"}
    [] OTHER                -> {}

Stopping == {"stop_audio", "stop_stt", "stop_sender"}
InLoop   == {"receive", "respond", "confirm", "closing"} \cup Stopping

Runs(place) == main = place /\ interrupt = "none"

Interrupt(why) ==
  /\ interrupt' = why
  /\ cancelled' = cancelled \cup {t \in Awaited : ~Finished(t)}
  /\ UNCHANGED <<inputVars, audioVars, transcriptVars, task, stt_ready, stt,
                 fault, main, final>>

-----------------------------------------------------------------------------
\* The receive loop.

UnchangedButInput == UNCHANGED <<audioVars, transcriptVars, taskVars, fault, final>>

Raise(kind) == Leave(kind) /\ UNCHANGED inputVars /\ UnchangedButInput

\* A text that is refused: too long, not a valid event, or not legal now.
RefuseText(e) ==
  /\ Runs("receive")
  /\ CASE e.type = "oversized" -> Raise("message_too_large")
       [] e.type = "malformed" -> Raise("invalid_message")
       [] OTHER -> /\ EventError(session, e) # "none"
                   /\ Raise(EventError(session, e))

Accepts(e, type) ==
  /\ Runs("receive")
  /\ e.type = type
  /\ EventError(session, e) = "none"
  /\ session' = AfterEvent(session, e)

\* A slip: the number the audio starts with is taken.
NumberOfAudio(e) == e.start_sequence

\* The sender task numbers the transcripts from here.
FirstNumber(e) == e.transcript_sequence_start

\* session.start: the session is ready and the three tasks are created.
Start(e) ==
  /\ Accepts(e, "session.start")
  /\ resumed' = IF e.start_sequence > 0 \/ e.transcript_sequence_start > 0
                THEN "yes" ELSE "no"
  /\ number' = FirstNumber(e)
  /\ asked' = e.transcript_sequence_start
  /\ task' = [task EXCEPT !["sender"] = "waiting", !["audio"] = "starting",
                          !["context"] = "starting"]
  /\ main' = "respond"
  /\ UNCHANGED <<accepted, binary_deadline, audioVars, transcript_queue, current,
                 results, delivered, cancelled, stt_ready, stt, fault, watcher,
                 interrupt, final>>

\* audio.meta: its binary must follow within BINARY_WAIT_TIMEOUT.
Meta(e) ==
  /\ Accepts(e, "audio.meta")
  /\ binary_deadline' = "armed"
  /\ UNCHANGED <<accepted, watcher, interrupt, main>>
  /\ UnchangedButInput

Control(e) ==
  /\ \E type \in {"session.pause", "session.resume", "heartbeat.ping"} :
       Accepts(e, type)
  /\ main' = "respond"
  /\ UNCHANGED <<accepted, binary_deadline, watcher, interrupt>>
  /\ UnchangedButInput

\* A slip: session.stop leaves the context task alone.
ContextLeftAlone == cancelled

\* session.stop takes the context task down: it must not send an update now.
ContextCancelled == cancelled \cup {t \in {"context"} : ~Finished(t)}

\* session.stop, up to the await of the audio task.
Stop(e) ==
  /\ Accepts(e, "session.stop")
  /\ cancelled' = ContextCancelled
  /\ audio_eof' = "put"
  /\ main' = "stop_audio"
  /\ UNCHANGED <<accepted, binary_deadline, audio_queue, pending_bytes, in_flight,
                 relayed, transcriptVars, task, stt_ready, stt, fault, watcher,
                 interrupt, final>>

\* A slip: the limit is looked at before the chunk is added.
AlreadyOver(size) == pending_bytes > MAX_PENDING_AUDIO_BYTES

Overflows(size) == pending_bytes + size > MAX_PENDING_AUDIO_BYTES

RefuseBinary(size) ==
  /\ Runs("receive")
  /\ LET error == BinaryError(session, size)
     IN IF error # "none" THEN Raise(error)
        ELSE IsNextChunk(session) /\ Overflows(size) /\ Raise("audio_buffer_full")

\* handle_binary with _enqueue_audio; the answer is an audio.ack.
Binary(size) ==
  /\ Runs("receive")
  /\ BinaryError(session, size) = "none"
  /\ IF IsNextChunk(session)
     THEN LET chunk == [sequence |-> session.pending, size |-> size]
          IN /\ ~Overflows(size)
             /\ pending_bytes' = pending_bytes + size
             /\ audio_queue' = Append(audio_queue, chunk)
             /\ accepted' = Append(accepted, chunk)
     ELSE UNCHANGED <<pending_bytes, audio_queue, accepted>>
  /\ session' = AfterBinary(session, size)
  /\ binary_deadline' = "none"
  /\ main' = "respond"
  /\ UNCHANGED <<audio_eof, in_flight, relayed, transcriptVars, taskVars, fault,
                 watcher, interrupt, final>>

BinaryTimeout == Runs("receive") /\ binary_deadline = "armed" /\ Raise("timeout")

Disconnect == Runs("receive") /\ Raise("returned")

\* A send to a client that another send has found gone does not succeed.
Reachable == fault # "disconnect"

\* send_message of a response: sent, stopped by its timeout, or disconnected.
Respond ==
  /\ Runs("respond")
  /\ \/ Reachable /\ main' = "receive" /\ UNCHANGED <<watcher, interrupt>>
     \/ \E kind \in {"timeout", "disconnect"} : Leave(kind)
  /\ UNCHANGED inputVars /\ UnchangedButInput

-----------------------------------------------------------------------------
\* _finish_transcription and the end of the receive loop.

\* The audio task has ended: tell the provider that no more audio follows.  Its
\* answer to a stop that follows a fault comes too late: the fault has already
\* been handed to the watcher, and two turns of the event loop cancel run().
StopProvider ==
  /\ Runs("stop_audio") /\ task["audio"] = "done"
  /\ \/ /\ stt.error = "failed"
        /\ Leave("provider")
        /\ UNCHANGED <<stt, fault>>
     \/ /\ stt.error = "none"
        /\ ReportProviderError
        /\ Leave("provider")
     \/ /\ stt.error = "none"
        /\ stt' = [stt EXCEPT !.stop = IF fault = "none" THEN "sent" ELSE "late"]
        /\ IF task["receiver"] = "none"
           THEN Leave("internal")
           ELSE main' = "stop_stt" /\ UNCHANGED <<watcher, interrupt>>
        /\ UNCHANGED fault
  /\ UNCHANGED <<inputVars, audioVars, transcriptVars, task, cancelled, stt_ready,
                 final>>

\* The receiver has ended: with the provider's session.ended, or with an error.
ProviderStopped ==
  /\ Runs("stop_stt") /\ task["receiver"] = "done"
  /\ IF stt.error = "none" /\ stt.ended = "yes"
     THEN /\ transcript_queue' = Append(transcript_queue, "end")
          /\ main' = "stop_sender"
          /\ UNCHANGED <<stt, fault, watcher, interrupt>>
     ELSE ReportProviderError /\ Leave("provider") /\ UNCHANGED transcript_queue
  /\ UNCHANGED <<inputVars, audioVars, current, number, asked, resumed, results,
                 delivered, task, cancelled, stt_ready, final>>

SenderStopped ==
  /\ Runs("stop_sender") /\ task["sender"] = "done"
  /\ main' = "confirm"
  /\ UNCHANGED <<inputVars, watcher, interrupt>> /\ UnchangedButInput

\* The response to session.stop is sent.
Confirm ==
  /\ Runs("confirm")
  /\ \/ Reachable /\ main' = "closing" /\ final' = "ended" /\ UNCHANGED <<watcher, interrupt>>
     \/ \E kind \in {"timeout", "disconnect"} : Leave(kind) /\ UNCHANGED final
  /\ UNCHANGED <<inputVars, audioVars, transcriptVars, taskVars, fault>>

CloseNormally == Runs("closing") /\ Raise("returned")

\* A slip: the timer covers the provider's answer only.
StopTimeoutOfProvider ==
  /\ main = "stop_stt" /\ interrupt = "none"
  /\ Interrupt("timeout")
  /\ UNCHANGED watcher

\* STT_STOP_TIMEOUT expires and cancels run().
StopTimeout ==
  /\ main \in Stopping /\ interrupt = "none"
  /\ Interrupt("timeout")
  /\ UNCHANGED watcher

-----------------------------------------------------------------------------
\* Interruptions of run().

\* _raise_background_error raises the first background error ...
WatcherRaises ==
  /\ watcher = "waiting" /\ fault # "none"
  /\ watcher' = "raised"
  /\ UNCHANGED <<inputVars, audioVars, transcriptVars, taskVars, fault, interrupt,
                 main, final>>

\* ... and the task group cancels run(); so does an end of the ASGI request.
GroupAborts ==
  /\ watcher = "raised" /\ main \in InLoop /\ interrupt # "cancel"
  /\ Interrupt("cancel")
  /\ UNCHANGED watcher

RequestCancelled ==
  /\ main \in InLoop /\ interrupt # "cancel"
  /\ Interrupt("cancel")
  /\ UNCHANGED watcher

\* run() resumes from an interrupted await when the task it awaited has ended.
Interrupted ==
  /\ main \in InLoop /\ interrupt # "none"
  /\ \A t \in Awaited : Finished(t)
  /\ Raise(IF interrupt = "timeout" THEN "timeout" ELSE "cancelled")

-----------------------------------------------------------------------------
\* The end of run().

\* _send_error_and_close: whether or not the client gets it, cleanup follows.
SendErrorAndClose ==
  /\ main = "error"
  /\ main' = "cleanup"
  /\ UNCHANGED <<inputVars, watcher, interrupt>> /\ UnchangedButInput

\* A slip: the context task is not collected.
TasksWithoutContext == {"sender", "audio"}

\* The tasks that _start_transcription has created.
OwnTasks == {"sender", "audio", "context"}

CleanupCancels ==
  /\ main = "cleanup"
  /\ cancelled' = cancelled \cup {t \in OwnTasks : ~Finished(t)}
  /\ main' = "gather"
  /\ UNCHANGED <<inputVars, audioVars, transcriptVars, task, stt_ready, stt, fault,
                 watcher, interrupt, final>>

\* gather has collected the three tasks: drop the audio that is left, and
\* cancel the provider's receiver.
CleanupDrains ==
  /\ main = "gather"
  /\ \A t \in OwnTasks : Finished(t)
  /\ audio_queue' = << >> /\ pending_bytes' = 0
  /\ cancelled' = cancelled \cup {t \in {"receiver"} : ~Finished(t)}
  /\ main' = "close_stt"
  /\ UNCHANGED <<inputVars, audio_eof, in_flight, relayed, transcriptVars, task,
                 stt_ready, stt, fault, watcher, interrupt, final>>

CleanupCloses ==
  /\ main = "close_stt" /\ Finished("receiver")
  /\ session' = ClosedSession(session)
  /\ main' = "done"
  /\ UNCHANGED <<accepted, binary_deadline, watcher, interrupt>>
  /\ UnchangedButInput

\* A cancelled task ends; a chunk it was sending no longer counts as pending.
CancelTask(t) ==
  /\ t \in cancelled /\ ~Finished(t)
  /\ Move(t, "done")
  /\ pending_bytes' = IF t = "audio" /\ task[t] = "sending"
                      THEN pending_bytes - in_flight[1].size ELSE pending_bytes
  /\ UNCHANGED <<inputVars, audio_queue, audio_eof, in_flight, relayed,
                 transcriptVars, cancelled, stt_ready, stt, fault, runVars>>

-----------------------------------------------------------------------------
\* _forward_audio.

AudioUnchanged == UNCHANGED <<inputVars, transcriptVars, cancelled, runVars>>

\* ModalSTTClient.start: ready, failed, or out of time.
ProviderStarts ==
  /\ At("audio", "starting")
  /\ \/ /\ task' = [task EXCEPT !["audio"] = "waiting", !["receiver"] = "waiting"]
        /\ stt_ready' = "set"
        /\ UNCHANGED <<stt, fault>>
     \/ /\ Move("audio", "done") /\ ReportProviderError
        /\ UNCHANGED stt_ready
     \/ /\ Move("audio", "done") /\ OnError("timeout")
        /\ UNCHANGED <<stt_ready, stt>>
  /\ UNCHANGED audioVars /\ AudioUnchanged

\* A slip: the chunk that came last is sent first.
TakeNewestChunk ==
  /\ At("audio", "waiting") /\ audio_queue # << >>
  /\ in_flight' = <<Last(audio_queue)>>
  /\ audio_queue' = Front(audio_queue)
  /\ Move("audio", "sending")
  /\ UNCHANGED <<audio_eof, pending_bytes, relayed, stt_ready, stt, fault>>
  /\ AudioUnchanged

TakeChunk ==
  /\ At("audio", "waiting") /\ audio_queue # << >>
  /\ in_flight' = <<Head(audio_queue)>>
  /\ audio_queue' = Tail(audio_queue)
  /\ Move("audio", "sending")
  /\ UNCHANGED <<audio_eof, pending_bytes, relayed, stt_ready, stt, fault>>
  /\ AudioUnchanged

AudioEnds ==
  /\ At("audio", "waiting") /\ audio_queue = << >> /\ audio_eof = "put"
  /\ Move("audio", "done")
  /\ UNCHANGED <<audioVars, stt_ready, stt, fault>>
  /\ AudioUnchanged

\* send_audio returns, raises a provider error, or runs into STT_SEND_TIMEOUT.
SendChunk ==
  /\ At("audio", "sending")
  /\ \/ /\ stt.error = "none"
        /\ relayed' = Append(relayed, in_flight[1])
        /\ in_flight' = << >>
        /\ Move("audio", "waiting")
        /\ UNCHANGED <<stt, fault>>
     \/ /\ \/ ReportProviderError
           \/ stt.error = "none" /\ OnError("timeout") /\ UNCHANGED stt
        /\ Move("audio", "done")
        /\ UNCHANGED <<in_flight, relayed>>
  /\ pending_bytes' = pending_bytes - in_flight[1].size
  /\ UNCHANGED <<audio_queue, audio_eof, stt_ready>>
  /\ AudioUnchanged

-----------------------------------------------------------------------------
\* _apply_context.

ContextUnchanged ==
  UNCHANGED <<inputVars, audioVars, transcriptVars, cancelled, stt_ready, runVars>>

\* A context is generated, or there is none: it failed, timed out or is empty.
GenerateContext ==
  /\ At("context", "starting")
  /\ \E place \in {"waiting", "done"} : Move("context", place)
  /\ UNCHANGED <<stt, fault>>
  /\ ContextUnchanged

UpdateContext ==
  /\ At("context", "waiting") /\ stt_ready = "set"
  /\ IF stt.error = "none"
     THEN Move("context", "sending") /\ stt' = [stt EXCEPT !.context = "sent"]
     ELSE Move("context", "done") /\ UNCHANGED stt
  /\ UNCHANGED fault
  /\ ContextUnchanged

ContextUpdated ==
  /\ At("context", "sending")
  /\ Move("context", "done")
  /\ \/ UNCHANGED <<stt, fault>>
     \/ ReportProviderError
     \/ OnError("timeout") /\ UNCHANGED stt
  /\ ContextUnchanged

-----------------------------------------------------------------------------
\* The provider's receiver and the transcript sender.

ReceiverUnchanged ==
  UNCHANGED <<inputVars, audioVars, cancelled, stt_ready, runVars>>

\* A slip: mappings are forwarded in resumed sessions too.
ForwardsAll(kind) == TRUE

\* _on_transcript: a resumed session drops speaker mappings.
Forwards(kind) == kind = "transcript" \/ resumed = "no"

Result(kind) ==
  /\ At("receiver", "waiting") /\ Len(results) < MaxResults
  /\ results' = Append(results, kind)
  /\ transcript_queue' = IF Forwards(kind) THEN Append(transcript_queue, kind)
                         ELSE transcript_queue
  /\ UNCHANGED <<current, number, asked, resumed, delivered, task, stt, fault>>
  /\ ReceiverUnchanged

ReceiverEnds ==
  /\ At("receiver", "waiting")
  /\ Move("receiver", "done")
  /\ \/ /\ stt.stop = "sent"
        /\ stt' = [stt EXCEPT !.ended = "yes"]
        /\ UNCHANGED fault
     \/ ReportProviderError
  /\ UNCHANGED transcriptVars
  /\ ReceiverUnchanged

SenderUnchanged ==
  UNCHANGED <<inputVars, audioVars, asked, resumed, results, cancelled, stt_ready,
              stt, runVars>>

TakeResult ==
  /\ At("sender", "waiting") /\ transcript_queue # << >>
  /\ current' = Head(transcript_queue)
  /\ transcript_queue' = Tail(transcript_queue)
  /\ Move("sender", IF Head(transcript_queue) = "end" THEN "done" ELSE "sending")
  /\ UNCHANGED <<number, delivered, fault>>
  /\ SenderUnchanged

\* _forward_transcripts: the sender reports what went wrong, and ends as it
\* would have ended otherwise.
SenderFails ==
  /\ \E kind \in {"timeout", "disconnect"} : OnError(kind)
  /\ Move("sender", "done")

\* send_transcripts: a mapping takes no number.
SendResult ==
  /\ At("sender", "sending")
  /\ \/ /\ IF current = "mapping"
           THEN /\ delivered' = Append(delivered, [kind |-> current, number |-> None])
                /\ UNCHANGED number
           ELSE /\ delivered' = Append(delivered, [kind |-> current, number |-> number])
                /\ number' = number + 1
        /\ Move("sender", "waiting")
        /\ UNCHANGED fault
     \/ SenderFails /\ UNCHANGED <<delivered, number>>
  /\ UNCHANGED <<transcript_queue, current>>
  /\ SenderUnchanged

-----------------------------------------------------------------------------

\* run() has returned.
Done == main = "done" /\ UNCHANGED vars

Client ==
  \/ \E e \in Texts : RefuseText(e) \/ Start(e) \/ Meta(e) \/ Control(e) \/ Stop(e)
  \/ \E size \in ChunkSizes : RefuseBinary(size) \/ Binary(size)
  \/ Disconnect

Run ==
  \/ BinaryTimeout \/ Respond \/ StopProvider \/ ProviderStopped \/ SenderStopped
  \/ Confirm \/ CloseNormally \/ StopTimeout \/ WatcherRaises \/ GroupAborts
  \/ Interrupted \/ SendErrorAndClose \/ CleanupCancels \/ CleanupDrains
  \/ CleanupCloses

Background ==
  \/ ProviderStarts \/ TakeChunk \/ AudioEnds \/ SendChunk
  \/ GenerateContext \/ UpdateContext \/ ContextUpdated
  \/ (\E kind \in {"transcript", "mapping"} : Result(kind)) \/ ReceiverEnds
  \/ TakeResult \/ SendResult
  \/ \E t \in Tasks : CancelTask(t)

Next == Client \/ Run \/ Background \/ RequestCancelled \/ Done

Spec == Init /\ [][Next]_vars

\* run() and the cancelled tasks are scheduled, and timers fire; the client,
\* the provider and the network owe nothing.
Fairness ==
  /\ WF_vars(Respond) /\ WF_vars(Confirm) /\ WF_vars(CloseNormally)
  /\ WF_vars(StopTimeout) /\ WF_vars(WatcherRaises) /\ WF_vars(GroupAborts)
  /\ WF_vars(Interrupted) /\ WF_vars(SendErrorAndClose) /\ WF_vars(CleanupCancels)
  /\ WF_vars(CleanupDrains) /\ WF_vars(CleanupCloses)
  /\ \A t \in Tasks : WF_vars(CancelTask(t))

FairSpec == Spec /\ Fairness

-----------------------------------------------------------------------------

\* Type correctness of the connection, its session and its provider client.
TypeOK ==
  /\ session \in Session /\ accepted \in Seq(Chunk)
  /\ binary_deadline \in {"none", "armed"}
  /\ audio_queue \in Seq(Chunk) /\ audio_eof \in {"open", "put"}
  /\ pending_bytes \in Int
  /\ in_flight \in Seq(Chunk) /\ Len(in_flight) =< 1 /\ relayed \in Seq(Chunk)
  /\ transcript_queue \in Seq({"transcript", "mapping", "end"})
  /\ current \in {"none", "transcript", "mapping", "end"} /\ number \in Nat
  /\ asked \in Nat /\ resumed \in {"no", "yes"} /\ results \in Seq({"transcript", "mapping"})
  /\ delivered \in Seq([kind : {"transcript", "mapping"}, number : Nat \cup {None}])
  /\ task \in [Tasks -> {"none", "starting", "waiting", "sending", "done"}]
  /\ cancelled \subseteq Tasks /\ stt_ready \in {"unset", "set"}
  /\ fault \in {"none", "provider", "timeout", "disconnect"}
  /\ watcher \in {"waiting", "raised", "over"}
  /\ stt \in [error : {"none", "failed"}, stop : {"no", "sent", "late"},
              context : {"no", "sent"}, ended : {"no", "yes"}]
  /\ interrupt \in {"none", "timeout", "cancel"}
  /\ main \in InLoop \cup {"error", "cleanup", "gather", "close_stt", "done"}
  /\ final \in {"none", "ended"}

BytesOf(chunks) == SumFunction([i \in DOMAIN chunks |-> chunks[i].size])

Drained == main \in {"close_stt", "done"}

\* No chunk is lost, repeated or overtaken between the receive loop and the
\* provider, whichever task fails or is cancelled, until cleanup drops what is
\* left; and the sequence a session acknowledges and the total it reports are
\* those of exactly the chunks it took, retransmissions included; and a session is
\* confirmed as ended only if every one of them reached the provider, which has
\* answered session.stop, even when the audio task died on its own timeout
\* (handle_binary, _enqueue_audio, _forward_audio, _finish_transcription, _cleanup).
AudioConserved ==
  /\ IF Drained THEN IsPrefix(relayed \o in_flight, accepted)
     ELSE accepted = relayed \o in_flight \o audio_queue
  /\ accepted # << >> => /\ session.next = Last(accepted).sequence + 1
                         /\ session.last = Last(accepted).sequence
  /\ session.pcm_bytes = BytesOf(accepted)
  /\ final = "ended" => relayed = accepted /\ stt.ended = "yes"

\* _pending_audio_bytes counts what waits and what is being sent, through
\* failed and cancelled sends, never beyond the limit, and is 0 after cleanup.
PendingBytes ==
  /\ pending_bytes = BytesOf(audio_queue) +
                     (IF task["audio"] = "sending" THEN BytesOf(in_flight) ELSE 0)
  /\ pending_bytes =< MAX_PENDING_AUDIO_BYTES

\* Whenever run() waits for input its deadline is armed exactly when the session
\* expects a binary: heartbeats, retransmitted chunks and refusals keep the two
\* objects in step.
DeadlineMatchesSession ==
  main = "receive" => (binary_deadline = "armed" <=> ExpectsBinary(session))

\* The client gets the provider's results in their order, without the mappings
\* when the session is resumed, and transcripts are numbered consecutively from
\* the transcript_sequence_start of its session.start, whatever else is sent in
\* between (send_transcripts, _on_transcript, _start_transcription).
Kept == IF resumed = "yes" THEN Selected({"transcript"}, results) ELSE results

ResultsInOrder ==
  LET sent    == [i \in 1 .. Len(delivered) |-> delivered[i].kind]
      numbers == Selected([kind : {"transcript"}, number : Nat \cup {None}], delivered)
  IN /\ IsPrefix(sent, Kept)
     /\ \A i \in 1 .. Len(numbers) :
          numbers[i].number = asked + i - 1

\* When run() returns nothing of the session is left: no task, no buffered
\* audio, no open session (_cleanup).
NothingLeft ==
  main = "done" => /\ \A t \in Tasks : Finished(t)
                   /\ pending_bytes = 0 /\ audio_queue = << >>
                   /\ session.state = "ENDED"

\* No context.update follows session.stop to the provider, although the task
\* that sends it runs on its own (the comment of _finish_transcription).
NoContextAfterStop == [][stt'.context # stt.context => stt.stop = "no"]_stt

\* The connection relays audio as AudioRelay promises.
Relay == INSTANCE AudioRelay
           WITH taken <- accepted,
                outcome <- IF final = "ended" THEN "ended" ELSE "open"
RelaySpec == Relay!Spec

\* Every transcript that has been received precedes session.ended, says the
\* docstring of _finish_transcription; a sender that has failed is not asked.
EndedAfterTranscripts == final = "ended" => Len(delivered) = Len(Kept)

\* Once session.stop is taken, a background task has failed or the loop is left
\* for any reason, run() returns: no await is without a timer or a cancellation.
EndsOnceLeft == (main \notin {"receive", "respond"} \/ fault # "none") ~> main = "done"

==============================================================================
