---------------------- MODULE RecordingConnection_proofs ----------------------
(***************************************************************************)
(* Proofs about RecordingConnection for all limits, starts and chunks.     *)
(***************************************************************************)
EXTENDS RecordingConnection, CollectionLemmas

-----------------------------------------------------------------------------
\* The inductive invariant.

\* An announced chunk is not ahead of the sequence; what the session says it
\* took is what it took.
SessionOK ==
  /\ ExpectsBinary(session) =>
       /\ session.pending \in 0 .. MaxSequence /\ session.pending =< session.next
       /\ session.state \in {"READY", "ENDED"}
  /\ session.state = "NEW" => accepted = << >>
  /\ accepted # << >> => /\ session.next = Last(accepted).sequence + 1
                         /\ session.last = Last(accepted).sequence
  /\ session.pcm_bytes = BytesOf(accepted)

\* The deadline, while run() takes input or answers it.
DeadlineOK ==
  main \in {"receive", "respond"} =>
    /\ binary_deadline = "armed" <=> ExpectsBinary(session)
    /\ audio_eof = "open" /\ stt.stop = "no"

\* run() in its loop has a watcher, and has not cancelled the audio task unless
\* it is interrupted itself.
LoopOK ==
  main \in InLoop =>
    /\ watcher # "over"
    /\ interrupt = "none" => "audio" \notin cancelled

\* What a task has at hand where it stands.
TaskOK ==
  /\ task["sender"] = "sending" => current \in {"transcript", "mapping"}
  /\ task["audio"] = "sending" => Len(in_flight) = 1
  /\ task["audio"] \in {"none", "starting", "waiting"} => in_flight = << >>

\* The audio is somewhere until cleanup, which no task of run() outlives.
FlowOK ==
  /\ ~Drained => accepted = (relayed \o in_flight) \o audio_queue
  /\ Drained => /\ IsPrefix(relayed \o in_flight, accepted)
                /\ audio_queue = << >> /\ pending_bytes = 0
                /\ \A t \in OwnTasks : Finished(t)
  /\ main = "done" => Finished("receiver") /\ session.state = "ENDED"

\* An audio task that ended by itself has sent everything or has failed.
AudioDone ==
  task["audio"] = "done" /\ "audio" \notin cancelled =>
    \/ fault # "none" \/ stt.error # "none" \/ watcher = "over"
    \/ in_flight = << >> /\ audio_queue = << >> /\ audio_eof = "put"

\* The steps of _finish_transcription: the end mark, the stop, the provider's
\* answer, the confirmation.
FinishOK ==
  /\ audio_eof = "put" =>
       main \notin {"receive", "respond"} /\ ("context" \in cancelled \/ Finished("context"))
  /\ main = "stop_audio" => audio_eof = "put"
  /\ stt.stop # "no" => audio_eof = "put" /\ main # "stop_audio"
  /\ stt.stop = "sent" => /\ relayed = accepted /\ in_flight = << >>
                          /\ audio_queue = << >> /\ task["audio"] = "done"
  /\ stt.ended = "yes" => stt.stop = "sent"
  /\ main \in {"stop_sender", "confirm", "closing"} => stt.ended = "yes"
  /\ final = "ended" => stt.ended = "yes"

IInv ==
  /\ TypeOK /\ SessionOK /\ DeadlineOK /\ LoopOK /\ TaskOK /\ FlowOK /\ AudioDone
  /\ FinishOK /\ PendingBytes

-----------------------------------------------------------------------------
\* The bytes of a queue.

Sizes(chunks) == [i \in DOMAIN chunks |-> chunks[i].size]

LEMMA SizeOfChunk ==
  ASSUME NEW q \in Seq(Chunk), NEW i \in 1 .. Len(q)
  PROVE  q[i] \in Chunk /\ q[i].size \in Nat
<1>1. q[i] \in Chunk
  BY ElementOfSeq
<1>2. q[i].size \in 1 .. MAX_AUDIO_CHUNK_SIZE
  BY <1>1 DEF Chunk
<1>3. QED
  BY <1>1, <1>2, ChunkAssumption

LEMMA SizesOf ==
  ASSUME NEW q \in Seq(Chunk)
  PROVE  /\ Sizes(q) \in Seq(Int) /\ Len(Sizes(q)) = Len(q)
         /\ \A i \in 1 .. Len(q) : Sizes(q)[i] = q[i].size
         /\ BytesOf(q) = SumFunction(Sizes(q)) /\ BytesOf(q) \in Int
<1>1. Len(q) \in Nat /\ DOMAIN q = 1 .. Len(q)
  BY LenProperties
<1>2. \A i \in 1 .. Len(q) : q[i].size \in Int
  BY SizeOfChunk
<1>3. Sizes(q) \in [1 .. Len(q) -> Int]
  BY <1>1, <1>2 DEF Sizes
<1>4. Sizes(q) \in Seq(Int) /\ Len(Sizes(q)) = Len(q)
  BY <1>1, <1>3
<1>5. QED
  BY <1>1, <1>4, SumOfSeq DEF Sizes, BytesOf

LEMMA BytesOfEmpty == BytesOf(<< >>) = 0
<1>1. Sizes(<< >>) = << >>
  <2>1. << >> \in Seq(Chunk)
    BY EmptySeq
  <2>2. Sizes(<< >>) \in Seq(Int) /\ Len(Sizes(<< >>)) = 0
    BY <2>1, SizesOf, EmptySeq
  <2>3. QED
    BY <2>2, EmptySeq
<1>2. QED
  BY <1>1, SumOfEmpty DEF BytesOf, Sizes

LEMMA BytesOfAppend ==
  ASSUME NEW q \in Seq(Chunk), NEW c \in Chunk
  PROVE  BytesOf(Append(q, c)) = BytesOf(q) + c.size
<1> DEFINE r == Append(q, c)
           s == Append(Sizes(q), c.size)
<1>1. /\ r \in Seq(Chunk) /\ Len(r) = Len(q) + 1 /\ Len(q) \in Nat
      /\ \A i \in 1 .. Len(q) : r[i] = q[i]
      /\ r[Len(q) + 1] = c
  BY AppendProperties, LenProperties
<1>2. c.size \in Int
  BY ChunkAssumption DEF Chunk
<1>3. Sizes(q) \in Seq(Int) /\ Len(Sizes(q)) = Len(q)
      /\ \A i \in 1 .. Len(q) : Sizes(q)[i] = q[i].size
  BY SizesOf
<1>4. /\ s \in Seq(Int) /\ Len(s) = Len(q) + 1 /\ s[Len(q) + 1] = c.size
      /\ \A i \in 1 .. Len(q) : s[i] = q[i].size
  BY <1>2, <1>3, AppendProperties
<1>5. /\ Sizes(r) \in Seq(Int) /\ Len(Sizes(r)) = Len(r) /\ BytesOf(r) = SumFunction(Sizes(r))
      /\ \A i \in 1 .. Len(r) : Sizes(r)[i] = r[i].size
  BY <1>1, SizesOf
<1> HIDE DEF r, s
<1>6. \A i \in 1 .. Len(q) + 1 : Sizes(r)[i] = s[i]
  <2>1. ASSUME NEW i \in 1 .. Len(q) PROVE Sizes(r)[i] = s[i]
    <3>1. i \in 1 .. Len(r)
      BY <1>1
    <3>2. Sizes(r)[i] = r[i].size /\ r[i] = q[i] /\ s[i] = q[i].size
      BY <1>1, <1>4, <1>5, <3>1
    <3>3. QED
      BY <3>2
  <2>2. Sizes(r)[Len(q) + 1] = s[Len(q) + 1]
    <3>1. Len(q) + 1 \in 1 .. Len(r)
      BY <1>1
    <3>2. Sizes(r)[Len(q) + 1] = r[Len(q) + 1].size
      BY <1>5, <3>1
    <3>3. QED
      BY <1>1, <1>4, <3>2
  <2>3. \A i \in 1 .. Len(q) + 1 : i \in 1 .. Len(q) \/ i = Len(q) + 1
    BY <1>1
  <2>4. QED
    BY <2>1, <2>2, <2>3
<1>7. Sizes(r) = s
  BY <1>1, <1>4, <1>5, <1>6, SeqEqual
<1>8. SumFunction(s) = SumFunction(Sizes(q)) + c.size
  BY <1>2, <1>3, SumOfAppend DEF s
<1>9. QED
  BY <1>5, <1>7, <1>8, SizesOf DEF r

LEMMA BytesOfTail ==
  ASSUME NEW q \in Seq(Chunk), q # << >>
  PROVE  BytesOf(q) = Head(q).size + BytesOf(Tail(q))
<1> DEFINE r == Tail(q)
           s == Sizes(q)
<1>1. /\ r \in Seq(Chunk) /\ Len(r) = Len(q) - 1 /\ Len(q) \in Nat \ {0}
      /\ \A i \in 1 .. Len(r) : r[i] = q[i + 1]
      /\ Head(q) = q[1]
  BY HeadTailProperties, EmptySeq
<1>2. /\ s \in Seq(Int) /\ Len(s) = Len(q) /\ s # << >>
      /\ \A i \in 1 .. Len(q) : s[i] = q[i].size
  BY <1>1, SizesOf, EmptySeq
<1>3. /\ Sizes(r) \in Seq(Int) /\ Len(Sizes(r)) = Len(r) /\ BytesOf(r) = SumFunction(Sizes(r))
      /\ \A i \in 1 .. Len(r) : Sizes(r)[i] = r[i].size
  BY <1>1, SizesOf
<1>4. /\ Tail(s) \in Seq(Int) /\ Len(Tail(s)) = Len(s) - 1
      /\ \A i \in 1 .. Len(Tail(s)) : Tail(s)[i] = s[i + 1]
  BY <1>2, HeadTailProperties
<1>5. BytesOf(q) = SumFunction(s)
  BY SizesOf
<1> HIDE DEF r, s
<1>6. \A i \in 1 .. Len(r) : Sizes(r)[i] = Tail(s)[i]
  <2>1. ASSUME NEW i \in 1 .. Len(r) PROVE Sizes(r)[i] = Tail(s)[i]
    <3>1. i + 1 \in 1 .. Len(q) /\ i \in 1 .. Len(Tail(s))
      BY <1>1, <1>2, <1>4
    <3>2. Sizes(r)[i] = r[i].size /\ r[i] = q[i + 1]
      BY <1>1, <1>3
    <3>3. Tail(s)[i] = s[i + 1] /\ s[i + 1] = q[i + 1].size
      BY <1>2, <1>4, <3>1
    <3>4. QED
      BY <3>2, <3>3
  <2>2. QED
    BY <2>1
<1>7. Sizes(r) = Tail(s)
  BY <1>1, <1>2, <1>3, <1>4, <1>6, SeqEqual
<1>8. SumFunction(s) = s[1] + SumFunction(Tail(s))
  BY <1>2, SumOfTail
<1>9. s[1] = Head(q).size
  <2>1. 1 \in 1 .. Len(q)
    BY <1>1
  <2>2. QED
    BY <1>1, <1>2, <2>1
<1>10. BytesOf(q) = Head(q).size + BytesOf(r)
  BY <1>3, <1>5, <1>7, <1>8, <1>9
<1>11. QED
  BY <1>10 DEF r

LEMMA BytesOfOne ==
  ASSUME NEW q \in Seq(Chunk), Len(q) = 1
  PROVE  BytesOf(q) = q[1].size /\ q[1] \in Chunk /\ q = <<q[1]>>
<1>1. q # << >>
  <2>1. Len(<< >>) = 0
    OBVIOUS
  <2>2. QED
    BY <2>1
<1>2. q[1] \in Chunk /\ q[1].size \in Nat
  <2>1. 1 \in 1 .. Len(q)
    OBVIOUS
  <2>2. QED
    BY <2>1, SizeOfChunk
<1>3. Head(q) = q[1] /\ Tail(q) \in Seq(Chunk) /\ Len(Tail(q)) = 0
  BY <1>1, HeadTailProperties
<1>4. Tail(q) = << >>
  BY <1>3, EmptySeq
<1>5. BytesOf(q) = q[1].size + 0
  BY <1>1, <1>3, <1>4, BytesOfTail, BytesOfEmpty
<1>6. q = <<q[1]>>
  <2>1. Len(<<q[1]>>) = 1 /\ <<q[1]>>[1] = q[1] /\ <<q[1]>> \in Seq(Chunk)
    BY <1>2
  <2>2. \A i \in 1 .. Len(q) : q[i] = <<q[1]>>[i]
    BY <2>1
  <2>3. QED
    BY <2>1, <2>2, SeqEqual
<1>7. QED
  BY <1>2, <1>5, <1>6

LEMMA BytesOfNat ==
  ASSUME NEW q \in Seq(Chunk)
  PROVE  BytesOf(q) \in Nat
<1>1. /\ IsFiniteSet(1 .. Len(q)) /\ Len(Sizes(q)) = Len(q)
      /\ SumFunction(Sizes(q)) = SumFunctionOnSet(Sizes(q), 1 .. Len(q))
      /\ BytesOf(q) = SumFunction(Sizes(q))
      /\ \A i \in 1 .. Len(q) : Sizes(q)[i] = q[i].size
  BY SizesOf, SumOfSeq
<1>2. \A i \in 1 .. Len(q) : q[i].size \in Nat
  BY SizeOfChunk
<1>3. \A i \in 1 .. Len(q) : Sizes(q)[i] \in Nat
  BY <1>1, <1>2
<1>4. QED
  BY <1>1, <1>3, SumNat

-----------------------------------------------------------------------------
\* The steps of run().

\* What an error that is reported changes.
STT == [error : {"none", "failed"}, stop : {"no", "sent", "late"},
        context : {"no", "sent"}, ended : {"no", "yes"}]

Faults == {"none", "provider", "timeout", "disconnect"}

LEMMA OnErrorGives ==
  ASSUME IInv, NEW kind \in Faults, OnError(kind)
  PROVE  /\ fault' \in Faults
         /\ kind # "none" => fault' # "none" \/ watcher = "over"
         /\ fault # "none" => fault' = fault
BY DEF OnError, IInv, TypeOK, Faults

LEMMA ReportGives ==
  ASSUME IInv, ReportProviderError
  PROVE  /\ stt' \in STT /\ fault' \in Faults /\ stt'.error = "failed"
         /\ stt'.stop = stt.stop /\ stt'.ended = stt.ended /\ stt'.context = stt.context
<1>1. stt \in STT /\ fault \in Faults
  BY DEF IInv, TypeOK, STT, Faults
<1>2. fault' \in Faults
  BY <1>1, OnErrorGives DEF ReportProviderError, Faults
<1>3. stt' = [stt EXCEPT !.error = "failed"]
  BY DEF ReportProviderError
<1>4. QED
  BY <1>1, <1>2, <1>3 DEF STT

\* The receive loop is left: where run() stands changes, and what the provider
\* client has found or been told.
LEMMA AnyLeaveKeeps ==
  ASSUME IInv, main \in InLoop, NEW kind, Leave(kind),
         UNCHANGED <<inputVars, audioVars, transcriptVars, task, cancelled, stt_ready,
                     final>>,
         fault' \in Faults, stt' \in STT, stt'.ended = stt.ended,
         \/ stt'.stop = stt.stop
         \/ /\ stt.stop = "no" /\ audio_eof = "put"
            /\ stt'.stop = "sent" => /\ relayed = accepted /\ in_flight = << >>
                                     /\ audio_queue = << >> /\ task["audio"] = "done"
  PROVE  IInv'
<1> USE DEF inputVars, audioVars, transcriptVars, taskVars
<1>1. main' \in {"error", "cleanup"} /\ watcher' = "over" /\ interrupt' = "none"
  BY DEF Leave
<1>2. main' \notin InLoop /\ ~Drained' /\ ~Drained
  BY <1>1 DEF InLoop, Stopping, Drained
<1>3. TypeOK'
  BY <1>1 DEF IInv, TypeOK, STT, Faults
<1>4. SessionOK' /\ PendingBytes' /\ TaskOK'
  BY DEF IInv, SessionOK, PendingBytes, TaskOK
<1>5. DeadlineOK' /\ LoopOK'
  BY <1>1, <1>2 DEF DeadlineOK, LoopOK
<1>6. FlowOK'
  BY <1>1, <1>2 DEF IInv, FlowOK
<1>7. AudioDone'
  BY <1>1 DEF AudioDone
<1>8. FinishOK'
  BY <1>1 DEF IInv, FinishOK, Finished
<1>9. QED
  BY <1>3, <1>4, <1>5, <1>6, <1>7, <1>8 DEF IInv

LEMMA LeaveKeeps ==
  ASSUME IInv, main \in InLoop, NEW kind, Leave(kind),
         UNCHANGED <<inputVars, audioVars, transcriptVars, taskVars, fault, final>>
  PROVE  IInv'
<1>1. fault' \in Faults /\ stt' \in STT /\ stt' = stt
  BY DEF IInv, TypeOK, STT, Faults, taskVars
<1>2. UNCHANGED <<inputVars, audioVars, transcriptVars, task, cancelled, stt_ready, final>>
  BY DEF taskVars
<1>3. QED
  BY <1>1, <1>2, AnyLeaveKeeps

LEMMA InterruptKeeps ==
  ASSUME IInv, main \in InLoop, NEW why \in {"timeout", "cancel"}, Interrupt(why),
         UNCHANGED watcher
  PROVE  IInv'
<1> USE DEF inputVars, audioVars, transcriptVars, Interrupt
<1>1. cancelled \subseteq cancelled' /\ cancelled' \subseteq Tasks
  BY DEF IInv, TypeOK, Awaited, Tasks
<1>2. TypeOK'
  BY <1>1 DEF IInv, TypeOK
<1>3. SessionOK' /\ PendingBytes' /\ TaskOK' /\ DeadlineOK'
  BY DEF IInv, SessionOK, PendingBytes, TaskOK, DeadlineOK
<1>4. LoopOK'
  BY DEF IInv, LoopOK
<1>5. FlowOK'
  BY DEF IInv, FlowOK, Drained, Finished
<1>6. AudioDone'
  BY <1>1 DEF IInv, AudioDone
<1>7. FinishOK'
  BY <1>1 DEF IInv, FinishOK, Finished
<1>8. QED
  BY <1>2, <1>3, <1>4, <1>5, <1>6, <1>7 DEF IInv

LEMMA RaiseKeeps ==
  ASSUME IInv, main \in InLoop, NEW kind, Raise(kind)
  PROVE  IInv'
BY LeaveKeeps DEF Raise, UnchangedButInput

LEMMA RefuseTextKeeps ==
  ASSUME IInv, NEW e \in Texts, RefuseText(e)
  PROVE  IInv'
<1>1. main \in InLoop
  BY DEF RefuseText, Runs, InLoop
<1>2. \E kind : Raise(kind)
  BY DEF RefuseText
<1>3. QED
  BY <1>1, <1>2, RaiseKeeps

LEMMA RefuseBinaryKeeps ==
  ASSUME IInv, NEW size \in ChunkSizes, RefuseBinary(size)
  PROVE  IInv'
<1>1. main \in InLoop
  BY DEF RefuseBinary, Runs, InLoop
<1>2. \E kind : Raise(kind)
  BY DEF RefuseBinary
<1>3. QED
  BY <1>1, <1>2, RaiseKeeps

\* The fields of the events.
LEMMA TextFields ==
  ASSUME NEW e \in Texts
  PROVE  /\ e.type = "session.start" =>
              e.start_sequence \in Nat /\ e.transcript_sequence_start \in Nat
         /\ e.type = "audio.meta" => e.sequence \in 0 .. MaxSequence
BY ConnectionAssumption DEF Texts

LEMMA StartKeeps ==
  ASSUME IInv, NEW e \in Texts, Start(e)
  PROVE  IInv'
<1> USE DEF inputVars, audioVars, transcriptVars, taskVars
<1>1. /\ main = "receive" /\ interrupt = "none" /\ e.type = "session.start"
      /\ EventError(session, e) = "none" /\ session' = AfterEvent(session, e)
  BY DEF Start, Accepts, Runs
<1>2. session.state = "NEW" /\ ~ExpectsBinary(session) /\ session \in Session
  BY <1>1 DEF EventError, IInv, TypeOK
<1>3. /\ session' \in Session /\ session'.state = "READY"
      /\ session'.pending = session.pending /\ session'.pcm_bytes = session.pcm_bytes
  BY <1>1, <1>2, TextFields DEF AfterEvent, Session, SessionState
<1>4. accepted = << >> /\ (relayed \o in_flight) \o audio_queue = << >>
      /\ audio_eof = "open" /\ stt.stop = "no"
  BY <1>1, <1>2 DEF IInv, SessionOK, FlowOK, Drained, DeadlineOK
<1>5. in_flight = << >> /\ relayed = << >> /\ audio_queue = << >>
  <2>1. /\ relayed \in Seq(Chunk) /\ in_flight \in Seq(Chunk) /\ audio_queue \in Seq(Chunk)
        /\ relayed \o in_flight \in Seq(Chunk)
    BY ConcatProperties DEF IInv, TypeOK
  <2>2. audio_queue = << >> /\ relayed \o in_flight = << >>
    BY <1>4, <2>1, ConcatEqualIffEmpty
  <2>3. QED
    BY <2>1, <2>2, ConcatEqualIffEmpty
<1>6. /\ task' \in [Tasks -> {"none", "starting", "waiting", "sending", "done"}]
      /\ task'["sender"] = "waiting" /\ task'["audio"] = "starting"
      /\ task'["context"] = "starting" /\ task'["receiver"] = task["receiver"]
  BY DEF Start, IInv, TypeOK, Tasks
<1>7. /\ main' = "respond" /\ resumed' \in {"no", "yes"}
      /\ number' \in Nat /\ asked' \in Nat
      /\ UNCHANGED <<accepted, binary_deadline, audioVars, transcript_queue, current,
                 results, delivered, cancelled, stt_ready, stt, fault, watcher,
                 interrupt, final>>
  BY <1>1, TextFields DEF Start, FirstNumber
<1>8. TypeOK'
  BY <1>3, <1>6, <1>7 DEF IInv, TypeOK, InLoop
<1>9. SessionOK'
  BY <1>2, <1>3, <1>4, <1>7 DEF IInv, SessionOK, ExpectsBinary
<1>10. DeadlineOK'
  BY <1>1, <1>2, <1>3, <1>4, <1>7 DEF IInv, DeadlineOK, ExpectsBinary
<1>11. LoopOK'
  BY <1>1, <1>7 DEF IInv, LoopOK, InLoop
<1>12. TaskOK'
  BY <1>5, <1>6, <1>7 DEF TaskOK
<1>13. FlowOK'
  BY <1>1, <1>7 DEF IInv, FlowOK, Drained
<1>14. AudioDone' /\ FinishOK'
  BY <1>4, <1>6, <1>7 DEF IInv, AudioDone, FinishOK
<1>15. PendingBytes'
  <2>1. task["audio"] # "sending"
    BY <1>5, EmptySeq DEF IInv, TaskOK
  <2>2. QED
    BY <1>6, <1>7, <2>1 DEF IInv, PendingBytes
<1>16. QED
  BY <1>8, <1>9, <1>10, <1>11, <1>12, <1>13, <1>14, <1>15 DEF IInv

LEMMA MetaKeeps ==
  ASSUME IInv, NEW e \in Texts, Meta(e)
  PROVE  IInv'
<1> USE DEF inputVars, audioVars, transcriptVars, taskVars, UnchangedButInput
<1>1. /\ main = "receive" /\ e.type = "audio.meta" /\ EventError(session, e) = "none"
      /\ session' = AfterEvent(session, e) /\ binary_deadline' = "armed"
      /\ UNCHANGED <<accepted, watcher, interrupt, main, audioVars, transcriptVars,
                     taskVars, fault, final>>
  BY DEF Meta, Accepts, Runs
<1>2. /\ session.state = "READY" /\ ~ExpectsBinary(session) /\ session \in Session
      /\ e.sequence =< session.next /\ e.sequence \in 0 .. MaxSequence
  BY <1>1, TextFields, ConnectionAssumption DEF EventError, IInv, TypeOK, Session
<1>3. session' = [session EXCEPT !.pending = e.sequence]
  BY <1>1 DEF AfterEvent
<1>4. session' \in Session /\ ExpectsBinary(session')
  BY <1>2, <1>3, ConnectionAssumption DEF Session, ExpectsBinary, None
<1>5. TypeOK'
  BY <1>1, <1>4 DEF IInv, TypeOK
<1>6. SessionOK'
  BY <1>1, <1>2, <1>3 DEF IInv, SessionOK, Session
<1>7. DeadlineOK'
  BY <1>1, <1>4 DEF IInv, DeadlineOK
<1>8. LoopOK' /\ TaskOK' /\ AudioDone' /\ PendingBytes'
  BY <1>1 DEF IInv, LoopOK, TaskOK, AudioDone, PendingBytes
<1>9. FlowOK' /\ FinishOK'
  BY <1>1 DEF IInv, FlowOK, FinishOK, Drained, Finished
<1>10. QED
  BY <1>5, <1>6, <1>7, <1>8, <1>9 DEF IInv

LEMMA ControlKeeps ==
  ASSUME IInv, NEW e \in Texts, Control(e)
  PROVE  IInv'
<1> USE DEF inputVars, audioVars, transcriptVars, taskVars, UnchangedButInput
<1>1. /\ main = "receive" /\ main' = "respond"
      /\ e.type \in {"session.pause", "session.resume", "heartbeat.ping"}
      /\ EventError(session, e) = "none" /\ session' = AfterEvent(session, e)
      /\ UNCHANGED <<accepted, binary_deadline, watcher, interrupt, audioVars,
                     transcriptVars, taskVars, fault, final>>
  BY DEF Control, Accepts, Runs
<1>2. session \in Session
  BY DEF IInv, TypeOK
<1>3. /\ session' \in Session /\ session'.pending = session.pending
      /\ session'.next = session.next /\ session'.last = session.last
      /\ session'.pcm_bytes = session.pcm_bytes
      /\ session'.state # "NEW"
      /\ e.type # "heartbeat.ping" => ~ExpectsBinary(session)
      /\ e.type = "heartbeat.ping" => session'.state = session.state
  BY <1>1, <1>2 DEF AfterEvent, EventError, Live, Session, SessionState
<1>4. TypeOK'
  BY <1>1, <1>3 DEF IInv, TypeOK, InLoop
<1>5. SessionOK'
  BY <1>1, <1>3 DEF IInv, SessionOK, ExpectsBinary
<1>6. DeadlineOK'
  BY <1>1, <1>3 DEF IInv, DeadlineOK, ExpectsBinary
<1>7. LoopOK' /\ TaskOK' /\ AudioDone' /\ PendingBytes'
  BY <1>1 DEF IInv, LoopOK, TaskOK, AudioDone, PendingBytes, InLoop
<1>8. FlowOK' /\ FinishOK'
  BY <1>1 DEF IInv, FlowOK, FinishOK, Drained, Finished
<1>9. QED
  BY <1>4, <1>5, <1>6, <1>7, <1>8 DEF IInv

LEMMA StopKeeps ==
  ASSUME IInv, NEW e \in Texts, Stop(e)
  PROVE  IInv'
<1> USE DEF inputVars, audioVars, transcriptVars, taskVars
<1>1. /\ main = "receive" /\ interrupt = "none" /\ main' = "stop_audio"
      /\ e.type = "session.stop" /\ audio_eof' = "put"
      /\ EventError(session, e) = "none" /\ session' = AfterEvent(session, e)
      /\ cancelled' = ContextCancelled
      /\ UNCHANGED <<accepted, binary_deadline, audio_queue, pending_bytes, in_flight,
                     relayed, transcriptVars, task, stt_ready, stt, fault, watcher,
                     interrupt, final>>
  BY DEF Stop, Accepts, Runs
<1>2. session \in Session
  BY DEF IInv, TypeOK
<1>3. /\ session' \in Session /\ session'.pending = session.pending
      /\ session'.next = session.next /\ session'.last = session.last
      /\ session'.pcm_bytes = session.pcm_bytes /\ session'.state = "ENDED"
  BY <1>1, <1>2 DEF AfterEvent, EventError, Session, SessionState
<1>4. /\ cancelled \subseteq cancelled' /\ cancelled' \subseteq Tasks
      /\ "context" \in cancelled' \/ Finished("context")
      /\ "audio" \in cancelled' => "audio" \in cancelled
  BY <1>1 DEF ContextCancelled, IInv, TypeOK, Tasks
<1>5. TypeOK'
  BY <1>1, <1>3, <1>4 DEF IInv, TypeOK, InLoop, Stopping
<1>6. SessionOK'
  BY <1>1, <1>3 DEF IInv, SessionOK, ExpectsBinary
<1>7. DeadlineOK' /\ LoopOK' /\ TaskOK' /\ PendingBytes'
  BY <1>1, <1>4 DEF IInv, DeadlineOK, LoopOK, TaskOK, PendingBytes, InLoop
<1>8. FlowOK' /\ AudioDone'
  BY <1>1, <1>4 DEF IInv, FlowOK, AudioDone, Drained
<1>9. FinishOK'
  BY <1>1, <1>4 DEF IInv, FinishOK, DeadlineOK, Finished
<1>10. QED
  BY <1>5, <1>6, <1>7, <1>8, <1>9 DEF IInv

LEMMA BinaryKeeps ==
  ASSUME IInv, NEW size \in ChunkSizes, Binary(size)
  PROVE  IInv'
<1> USE DEF inputVars, audioVars, transcriptVars, taskVars
<1>1. /\ main = "receive" /\ interrupt = "none" /\ main' = "respond"
      /\ BinaryError(session, size) = "none" /\ session' = AfterBinary(session, size)
      /\ binary_deadline' = "none"
      /\ UNCHANGED <<audio_eof, in_flight, relayed, transcriptVars, taskVars, fault,
                     watcher, interrupt, final>>
  BY DEF Binary, Runs
<1>2. /\ session \in Session /\ session.state = "READY" /\ ExpectsBinary(session)
      /\ session.pending \in 0 .. MaxSequence /\ session.pending =< session.next
      /\ size \in 1 .. MAX_AUDIO_CHUNK_SIZE
  <2>1. /\ session \in Session /\ session.state = "READY" /\ ExpectsBinary(session)
        /\ size # 0 /\ ~ (size > MAX_AUDIO_CHUNK_SIZE)
    BY <1>1 DEF BinaryError, IInv, TypeOK
  <2>2. size \in Nat
    BY ConnectionAssumption
  <2>3. QED
    BY <2>1, <2>2, ChunkAssumption DEF IInv, SessionOK
<1>3. /\ accepted \in Seq(Chunk) /\ relayed \in Seq(Chunk) /\ in_flight \in Seq(Chunk)
      /\ audio_queue \in Seq(Chunk) /\ pending_bytes \in Int
  BY DEF IInv, TypeOK
<1>4. session.next \in Nat /\ session.pcm_bytes \in Nat /\ session.pending \in Nat
  BY <1>2, ConnectionAssumption DEF Session
<1>5. /\ DeadlineOK /\ LoopOK /\ TaskOK /\ FlowOK /\ AudioDone /\ FinishOK
      /\ audio_eof = "open" /\ stt.stop = "no" /\ ~Drained
  BY <1>1 DEF IInv, DeadlineOK, Drained
<1>6. session'.state = "READY" /\ session'.pending = None
  BY <1>1, <1>2 DEF AfterBinary, Session
<1>7. DeadlineOK' /\ LoopOK' /\ TaskOK' /\ FinishOK'
  BY <1>1, <1>5, <1>6 DEF DeadlineOK, LoopOK, TaskOK, FinishOK, ExpectsBinary, InLoop
<1>8. CASE IsNextChunk(session)
  <2> DEFINE chunk == [sequence |-> session.pending, size |-> size]
  <2>1. /\ ~Overflows(size) /\ pending_bytes' = pending_bytes + size
        /\ audio_queue' = Append(audio_queue, chunk)
        /\ accepted' = Append(accepted, chunk)
        /\ session' = [session EXCEPT !.pcm_bytes = @ + size, !.last = session.pending,
                                      !.next = @ + 1, !.pending = None]
    BY <1>1, <1>8 DEF Binary, AfterBinary
  <2>2. chunk \in Chunk /\ chunk.sequence = session.pending /\ chunk.size = size
    BY <1>2 DEF Chunk
  <2>3. size \in Nat
    BY <1>2, ChunkAssumption
  <2> HIDE DEF chunk
  <2>4. /\ session' \in Session /\ session'.next = session.next + 1
        /\ session'.last = session.pending /\ session'.pcm_bytes = session.pcm_bytes + size
    <3>1. session.next + 1 \in Nat /\ session.pcm_bytes + size \in Nat
      BY <1>4, <2>3
    <3>2. QED
      BY <1>2, <1>4, <2>1, <3>1 DEF Session, None
  <2>5. /\ accepted' \in Seq(Chunk) /\ audio_queue' \in Seq(Chunk)
        /\ accepted' # << >> /\ Last(accepted') = chunk
    <3>1. /\ accepted' \in Seq(Chunk) /\ audio_queue' \in Seq(Chunk)
          /\ Len(accepted') = Len(accepted) + 1 /\ accepted' # << >>
          /\ accepted'[Len(accepted) + 1] = chunk
      BY <1>3, <2>1, <2>2, AppendProperties
    <3>2. QED
      BY <3>1 DEF Last
  <2>6. TypeOK'
    BY <1>1, <1>3, <2>1, <2>3, <2>4, <2>5 DEF IInv, TypeOK, InLoop
  <2>7. SessionOK'
    <3>1. BytesOf(accepted') = BytesOf(accepted) + size
      BY <1>3, <2>1, <2>2, BytesOfAppend
    <3>2. session.next = session.pending
      BY <1>8 DEF IsNextChunk
    <3>3. QED
      BY <1>6, <2>2, <2>4, <2>5, <3>1, <3>2 DEF IInv, SessionOK, ExpectsBinary
  <2>8. FlowOK'
    <3>1. accepted = (relayed \o in_flight) \o audio_queue /\ ~Drained' /\ main' # "done"
      BY <1>1, <1>5 DEF FlowOK, Drained
    <3>2. accepted' = (relayed \o in_flight) \o audio_queue'
      <4> DEFINE gone == relayed \o in_flight
      <4>1. gone \in Seq(Chunk)
        BY <1>3, ConcatProperties
      <4> HIDE DEF gone
      <4>2. /\ Append(accepted, chunk) = accepted \o <<chunk>>
            /\ Append(audio_queue, chunk) = audio_queue \o <<chunk>>
        BY <1>3, <2>2, AppendIsConcat
      <4>3. (gone \o audio_queue) \o <<chunk>> = gone \o (audio_queue \o <<chunk>>)
        <5> DEFINE one == <<chunk>>
        <5>1. one \in Seq(Chunk)
          BY <2>2
        <5> HIDE DEF one
        <5>2. Joined(Joined(gone, audio_queue), one) = Joined(gone, Joined(audio_queue, one))
          BY <1>3, <4>1, <5>1, JoinedFromEither
        <5>3. QED
          BY ONLY <5>2 DEF Joined, one
      <4>4. QED
        BY <2>1, <3>1, <4>2, <4>3 DEF gone
    <3>3. QED
      BY <1>1, <3>1, <3>2 DEF FlowOK
  <2>9. AudioDone'
    <3>1. ~(audio_eof = "put")
      BY <1>5
    <3>2. QED
      BY <1>1, <1>5, <3>1 DEF AudioDone
  <2>10. PendingBytes'
    <3>1. BytesOf(audio_queue') = BytesOf(audio_queue) + size
      BY <1>3, <2>1, <2>2, BytesOfAppend
    <3>2. BytesOf(audio_queue) \in Int /\ BytesOf(in_flight) \in Int
      BY <1>3, SizesOf
    <3>3. pending_bytes' =< MAX_PENDING_AUDIO_BYTES
      BY <1>3, <2>1, <2>3, ConnectionAssumption DEF Overflows
    <3>4. task' = task /\ in_flight' = in_flight
      BY <1>1
    <3>5. pending_bytes' = BytesOf(audio_queue')
                           + (IF task["audio"] = "sending" THEN BytesOf(in_flight) ELSE 0)
      BY <1>3, <2>1, <2>3, <3>1, <3>2 DEF IInv, PendingBytes
    <3>6. QED
      BY <3>3, <3>4, <3>5 DEF PendingBytes
  <2>11. QED
    BY <1>7, <2>6, <2>7, <2>8, <2>9, <2>10 DEF IInv
<1>9. CASE ~IsNextChunk(session)
  <2>1. /\ UNCHANGED <<pending_bytes, audio_queue, accepted>>
        /\ session' = [session EXCEPT !.pending = None]
    BY <1>1, <1>9 DEF Binary, AfterBinary
  <2>2. session' \in Session
    BY <1>2, <2>1 DEF Session
  <2>3. TypeOK'
    BY <1>1, <2>1, <2>2 DEF IInv, TypeOK, InLoop
  <2>4. SessionOK'
    BY <1>2, <1>6, <2>1 DEF IInv, SessionOK, ExpectsBinary, Session
  <2>5. FlowOK' /\ AudioDone' /\ PendingBytes'
    BY <1>1, <1>5, <2>1 DEF IInv, FlowOK, AudioDone, PendingBytes, Drained
  <2>6. QED
    BY <1>7, <2>3, <2>4, <2>5 DEF IInv
<1>10. QED
  BY <1>8, <1>9

LEMMA RespondKeeps ==
  ASSUME IInv, Respond
  PROVE  IInv'
<1> USE DEF inputVars, audioVars, transcriptVars, taskVars, UnchangedButInput
<1>1. main = "respond"
  BY DEF Respond, Runs
<1>2. CASE main' = "receive" /\ UNCHANGED <<watcher, interrupt>>
  <2>1. /\ UNCHANGED <<inputVars, audioVars, transcriptVars, taskVars, fault, final,
                       watcher, interrupt>>
    BY <1>2 DEF Respond
  <2>2. TypeOK'
    BY <1>2, <2>1 DEF IInv, TypeOK, InLoop
  <2>3. SessionOK' /\ DeadlineOK' /\ LoopOK' /\ TaskOK'
    BY <1>1, <1>2, <2>1 DEF IInv, SessionOK, DeadlineOK, LoopOK, TaskOK, InLoop
  <2>4. FlowOK' /\ AudioDone' /\ FinishOK' /\ PendingBytes'
    BY <1>1, <1>2, <2>1 DEF IInv, FlowOK, AudioDone, FinishOK, PendingBytes, Drained, Finished
  <2>5. QED
    BY <2>2, <2>3, <2>4 DEF IInv
<1>3. CASE \E kind \in {"timeout", "disconnect"} : Leave(kind)
  BY <1>1, <1>3, LeaveKeeps DEF Respond, InLoop
<1>4. QED
  BY <1>2, <1>3 DEF Respond

\* What the provider is told has been sent has been sent.
LEMMA StopProviderKeeps ==
  ASSUME IInv, StopProvider
  PROVE  IInv'
<1> USE DEF inputVars, audioVars, transcriptVars, taskVars
<1>1. /\ main = "stop_audio" /\ interrupt = "none" /\ task["audio"] = "done"
      /\ main \in InLoop
      /\ UNCHANGED <<inputVars, audioVars, transcriptVars, task, cancelled, stt_ready,
                     final>>
  BY DEF StopProvider, Runs, InLoop, Stopping
<1>2. fault \in Faults /\ stt \in STT
  BY DEF IInv, TypeOK, Faults, STT
<1>3. CASE Leave("provider") /\ UNCHANGED <<stt, fault>>
  BY <1>1, <1>2, <1>3, AnyLeaveKeeps
<1>4. CASE Leave("provider") /\ ReportProviderError
  <2>1. fault' \in Faults /\ stt' \in STT /\ stt'.ended = stt.ended /\ stt'.stop = stt.stop
    BY <1>4, ReportGives
  <2>2. QED
    BY <1>1, <1>4, <2>1, AnyLeaveKeeps
<1>5. CASE /\ stt.error = "none"
           /\ stt' = [stt EXCEPT !.stop = IF fault = "none" THEN "sent" ELSE "late"]
           /\ \/ Leave("internal")
              \/ main' = "stop_stt" /\ UNCHANGED <<watcher, interrupt>>
           /\ UNCHANGED fault
  <2>1. audio_eof = "put" /\ stt.stop = "no" /\ watcher # "over" /\ "audio" \notin cancelled
    BY <1>1 DEF IInv, FinishOK, LoopOK
  <2>2. fault = "none" => /\ in_flight = << >> /\ audio_queue = << >>
                          /\ relayed = accepted
    <3>1. fault = "none" => in_flight = << >> /\ audio_queue = << >>
      BY <1>1, <1>5, <2>1 DEF IInv, AudioDone
    <3>2. accepted = (relayed \o in_flight) \o audio_queue /\ relayed \in Seq(Chunk)
      BY <1>1 DEF IInv, FlowOK, TypeOK, Drained
    <3>3. (relayed \o << >>) \o << >> = relayed
      BY <3>2, ConcatEmptySeq
    <3>4. QED
      BY <3>1, <3>2, <3>3
  <2>3. /\ stt' \in STT /\ stt'.ended = stt.ended /\ stt'.error = stt.error
        /\ stt'.stop = IF fault = "none" THEN "sent" ELSE "late"
    BY <1>2, <1>5 DEF STT
  <2>4. CASE Leave("internal")
    <3>1. stt'.stop = "sent" => /\ relayed = accepted /\ in_flight = << >>
                                /\ audio_queue = << >> /\ task["audio"] = "done"
      BY <1>1, <2>2, <2>3
    <3>2. fault' \in Faults
      BY <1>2, <1>5
    <3>3. QED
      BY <1>1, <2>1, <2>3, <2>4, <3>1, <3>2, AnyLeaveKeeps
  <2>5. CASE main' = "stop_stt" /\ UNCHANGED <<watcher, interrupt>>
    <3>1. TypeOK'
      BY <1>1, <1>5, <2>3, <2>5 DEF IInv, TypeOK, STT, InLoop, Stopping
    <3>2. SessionOK' /\ TaskOK' /\ PendingBytes'
      BY <1>1 DEF IInv, SessionOK, TaskOK, PendingBytes
    <3>3. DeadlineOK' /\ LoopOK'
      BY <1>1, <2>5 DEF IInv, DeadlineOK, LoopOK, InLoop, Stopping
    <3>4. FlowOK' /\ AudioDone'
      BY <1>1, <1>5, <2>3, <2>5 DEF IInv, FlowOK, AudioDone, Drained
    <3>5. FinishOK'
      <4>1. stt'.stop = "sent" => fault = "none"
        BY <2>3
      <4>2. stt.ended # "yes"
        BY <2>1 DEF IInv, FinishOK
      <4>3. QED
        BY <1>1, <2>1, <2>2, <2>3, <2>5, <4>1, <4>2 DEF IInv, FinishOK, Finished
    <3>6. QED
      BY <3>1, <3>2, <3>3, <3>4, <3>5 DEF IInv
  <2>6. QED
    BY <1>5, <2>4, <2>5
<1>6. \/ Leave("provider") /\ UNCHANGED <<stt, fault>>
      \/ Leave("provider") /\ ReportProviderError
      \/ /\ stt.error = "none"
         /\ stt' = [stt EXCEPT !.stop = IF fault = "none" THEN "sent" ELSE "late"]
         /\ \/ Leave("internal")
            \/ main' = "stop_stt" /\ UNCHANGED <<watcher, interrupt>>
         /\ UNCHANGED fault
  BY DEF StopProvider
<1>7. QED
  BY <1>3, <1>4, <1>5, <1>6

LEMMA ProviderStoppedKeeps ==
  ASSUME IInv, ProviderStopped
  PROVE  IInv'
<1> USE DEF inputVars, audioVars, transcriptVars, taskVars
<1>1. /\ main = "stop_stt" /\ main \in InLoop
      /\ UNCHANGED <<inputVars, audioVars, current, number, asked, resumed, results, delivered,
                     task, cancelled, stt_ready, final>>
  BY DEF ProviderStopped, Runs, InLoop, Stopping
<1>2. CASE stt.error = "none" /\ stt.ended = "yes"
  <2>1. /\ transcript_queue' = Append(transcript_queue, "end") /\ main' = "stop_sender"
        /\ UNCHANGED <<stt, fault, watcher, interrupt>>
    BY <1>2 DEF ProviderStopped
  <2>2. transcript_queue' \in Seq({"transcript", "mapping", "end"})
    BY <2>1, AppendProperties DEF IInv, TypeOK
  <2>3. TypeOK'
    BY <1>1, <2>1, <2>2 DEF IInv, TypeOK, InLoop, Stopping
  <2>4. SessionOK' /\ TaskOK' /\ PendingBytes' /\ AudioDone'
    BY <1>1, <2>1 DEF IInv, SessionOK, TaskOK, PendingBytes, AudioDone
  <2>5. DeadlineOK' /\ LoopOK' /\ FlowOK'
    BY <1>1, <2>1 DEF IInv, DeadlineOK, LoopOK, FlowOK, InLoop, Stopping, Drained
  <2>6. FinishOK'
    BY <1>1, <1>2, <2>1 DEF IInv, FinishOK, Finished
  <2>7. QED
    BY <2>3, <2>4, <2>5, <2>6 DEF IInv
<1>3. CASE ~(stt.error = "none" /\ stt.ended = "yes")
  <2>1. ReportProviderError /\ Leave("provider") /\ UNCHANGED transcript_queue
    BY <1>3 DEF ProviderStopped
  <2>2. fault' \in Faults /\ stt' \in STT /\ stt'.ended = stt.ended /\ stt'.stop = stt.stop
    BY <2>1, ReportGives
  <2>3. UNCHANGED <<inputVars, audioVars, transcriptVars, task, cancelled, stt_ready, final>>
    BY <1>1, <2>1
  <2>4. QED
    BY <1>1, <2>1, <2>2, <2>3, AnyLeaveKeeps
<1>4. QED
  BY <1>2, <1>3

LEMMA SenderStoppedKeeps ==
  ASSUME IInv, SenderStopped
  PROVE  IInv'
<1> USE DEF inputVars, audioVars, transcriptVars, taskVars, UnchangedButInput
<1>1. /\ main = "stop_sender" /\ main' = "confirm"
      /\ UNCHANGED <<inputVars, watcher, interrupt, audioVars, transcriptVars, taskVars,
                     fault, final>>
  BY DEF SenderStopped, Runs
<1>2. TypeOK'
  BY <1>1 DEF IInv, TypeOK, InLoop
<1>3. SessionOK' /\ TaskOK' /\ PendingBytes' /\ AudioDone'
  BY <1>1 DEF IInv, SessionOK, TaskOK, PendingBytes, AudioDone
<1>4. DeadlineOK' /\ LoopOK' /\ FlowOK'
  BY <1>1 DEF IInv, DeadlineOK, LoopOK, FlowOK, InLoop, Stopping, Drained
<1>5. FinishOK'
  BY <1>1 DEF IInv, FinishOK, Finished
<1>6. QED
  BY <1>2, <1>3, <1>4, <1>5 DEF IInv

LEMMA ConfirmKeeps ==
  ASSUME IInv, Confirm
  PROVE  IInv'
<1> USE DEF inputVars, audioVars, transcriptVars, taskVars
<1>1. /\ main = "confirm" /\ main \in InLoop
      /\ UNCHANGED <<inputVars, audioVars, transcriptVars, taskVars, fault>>
  BY DEF Confirm, Runs, InLoop
<1>2. CASE main' = "closing" /\ final' = "ended" /\ UNCHANGED <<watcher, interrupt>>
  <2>1. TypeOK'
    BY <1>1, <1>2 DEF IInv, TypeOK, InLoop
  <2>2. SessionOK' /\ TaskOK' /\ PendingBytes' /\ AudioDone'
    BY <1>1, <1>2 DEF IInv, SessionOK, TaskOK, PendingBytes, AudioDone
  <2>3. DeadlineOK' /\ LoopOK' /\ FlowOK'
    BY <1>1, <1>2 DEF IInv, DeadlineOK, LoopOK, FlowOK, InLoop, Drained
  <2>4. FinishOK'
    BY <1>1, <1>2 DEF IInv, FinishOK, Finished
  <2>5. QED
    BY <2>1, <2>2, <2>3, <2>4 DEF IInv
<1>3. CASE \E kind \in {"timeout", "disconnect"} : Leave(kind) /\ UNCHANGED final
  BY <1>1, <1>3, LeaveKeeps
<1>4. QED
  BY <1>2, <1>3 DEF Confirm

LEMMA WatcherRaisesKeeps ==
  ASSUME IInv, WatcherRaises
  PROVE  IInv'
<1> USE DEF inputVars, audioVars, transcriptVars, taskVars
<1>1. /\ watcher = "waiting" /\ watcher' = "raised"
      /\ UNCHANGED <<inputVars, audioVars, transcriptVars, taskVars, fault, interrupt,
                     main, final>>
  BY DEF WatcherRaises
<1>2. TypeOK'
  BY <1>1 DEF IInv, TypeOK
<1>3. SessionOK' /\ TaskOK' /\ PendingBytes' /\ DeadlineOK'
  BY <1>1 DEF IInv, SessionOK, TaskOK, PendingBytes, DeadlineOK
<1>4. LoopOK' /\ AudioDone'
  BY <1>1 DEF IInv, LoopOK, AudioDone
<1>5. FlowOK' /\ FinishOK'
  BY <1>1 DEF IInv, FlowOK, FinishOK, Drained, Finished
<1>6. QED
  BY <1>2, <1>3, <1>4, <1>5 DEF IInv

LEMMA SendErrorAndCloseKeeps ==
  ASSUME IInv, SendErrorAndClose
  PROVE  IInv'
<1> USE DEF inputVars, audioVars, transcriptVars, taskVars, UnchangedButInput
<1>1. /\ main = "error" /\ main' = "cleanup"
      /\ UNCHANGED <<inputVars, watcher, interrupt, audioVars, transcriptVars, taskVars,
                     fault, final>>
  BY DEF SendErrorAndClose
<1>2. TypeOK'
  BY <1>1 DEF IInv, TypeOK
<1>3. SessionOK' /\ TaskOK' /\ PendingBytes' /\ AudioDone'
  BY <1>1 DEF IInv, SessionOK, TaskOK, PendingBytes, AudioDone
<1>4. DeadlineOK' /\ LoopOK' /\ FlowOK'
  BY <1>1 DEF IInv, DeadlineOK, LoopOK, FlowOK, InLoop, Stopping, Drained
<1>5. FinishOK'
  BY <1>1 DEF IInv, FinishOK, Finished
<1>6. QED
  BY <1>2, <1>3, <1>4, <1>5 DEF IInv

LEMMA CleanupCancelsKeeps ==
  ASSUME IInv, CleanupCancels
  PROVE  IInv'
<1> USE DEF inputVars, audioVars, transcriptVars, taskVars
<1>1. /\ main = "cleanup" /\ main' = "gather"
      /\ cancelled' = cancelled \cup {t \in OwnTasks : ~Finished(t)}
      /\ UNCHANGED <<inputVars, audioVars, transcriptVars, task, stt_ready, stt, fault,
                     watcher, interrupt, final>>
  BY DEF CleanupCancels
<1>2. cancelled \subseteq cancelled' /\ cancelled' \subseteq Tasks
  BY <1>1 DEF IInv, TypeOK, OwnTasks, Tasks
<1>3. TypeOK'
  BY <1>1, <1>2 DEF IInv, TypeOK
<1>4. SessionOK' /\ TaskOK' /\ PendingBytes' /\ AudioDone'
  BY <1>1, <1>2 DEF IInv, SessionOK, TaskOK, PendingBytes, AudioDone
<1>5. DeadlineOK' /\ LoopOK' /\ FlowOK'
  BY <1>1 DEF IInv, DeadlineOK, LoopOK, FlowOK, InLoop, Stopping, Drained
<1>6. FinishOK'
  BY <1>1, <1>2 DEF IInv, FinishOK, Finished
<1>7. QED
  BY <1>3, <1>4, <1>5, <1>6 DEF IInv

\* What cleanup drops leaves a beginning of what was accepted.
LEMMA CleanupDrainsKeeps ==
  ASSUME IInv, CleanupDrains
  PROVE  IInv'
<1> USE DEF inputVars, audioVars, transcriptVars, taskVars
<1>1. /\ main = "gather" /\ main' = "close_stt" /\ \A t \in OwnTasks : Finished(t)
      /\ audio_queue' = << >> /\ pending_bytes' = 0
      /\ cancelled' = cancelled \cup {t \in {"receiver"} : ~Finished(t)}
      /\ UNCHANGED <<inputVars, audio_eof, in_flight, relayed, transcriptVars, task,
                     stt_ready, stt, fault, watcher, interrupt, final>>
  BY DEF CleanupDrains
<1>2. /\ cancelled \subseteq cancelled' /\ cancelled' \subseteq Tasks
      /\ "audio" \in cancelled' => "audio" \in cancelled
  BY <1>1 DEF IInv, TypeOK, Tasks
<1>3. TypeOK'
  BY <1>1, <1>2, EmptySeq DEF IInv, TypeOK
<1>4. SessionOK' /\ TaskOK'
  BY <1>1 DEF IInv, SessionOK, TaskOK
<1>5. DeadlineOK' /\ LoopOK'
  BY <1>1 DEF IInv, DeadlineOK, LoopOK, InLoop, Stopping
<1>6. AudioDone'
  BY <1>1, <1>2 DEF IInv, AudioDone
<1>7. FlowOK'
  <2>1. accepted = (relayed \o in_flight) \o audio_queue
    BY <1>1 DEF IInv, FlowOK, Drained
  <2>2. /\ relayed \o in_flight \in Seq(Chunk) /\ accepted \in Seq(Chunk)
        /\ audio_queue \in Seq(Chunk)
    BY ConcatProperties DEF IInv, TypeOK
  <2>3. IsPrefix(relayed \o in_flight, accepted)
    BY <2>1, <2>2, PrefixOfConcat
  <2>4. Drained' /\ main' # "done" /\ \A t \in OwnTasks : Finished(t)'
    BY <1>1 DEF Drained, Finished
  <2>5. QED
    BY <1>1, <2>3, <2>4 DEF FlowOK
<1>8. FinishOK'
  BY <1>1, <1>2 DEF IInv, FinishOK, Finished
<1>9. PendingBytes'
  <2>1. task["audio"] # "sending"
    BY <1>1 DEF Finished, OwnTasks
  <2>2. QED
    BY <1>1, <2>1, BytesOfEmpty, ConnectionAssumption DEF PendingBytes
<1>10. QED
  BY <1>3, <1>4, <1>5, <1>6, <1>7, <1>8, <1>9 DEF IInv

LEMMA CleanupClosesKeeps ==
  ASSUME IInv, CleanupCloses
  PROVE  IInv'
<1> USE DEF inputVars, audioVars, transcriptVars, taskVars, UnchangedButInput
<1>1. /\ main = "close_stt" /\ main' = "done" /\ Finished("receiver")
      /\ session' = [session EXCEPT !.state = "ENDED"]
      /\ UNCHANGED <<accepted, binary_deadline, watcher, interrupt, audioVars,
                     transcriptVars, taskVars, fault, final>>
  BY DEF CleanupCloses, ClosedSession
<1>2. /\ session' \in Session /\ session'.state = "ENDED"
      /\ session'.pending = session.pending /\ session'.next = session.next
      /\ session'.last = session.last /\ session'.pcm_bytes = session.pcm_bytes
  BY <1>1 DEF IInv, TypeOK, Session, SessionState
<1>3. TypeOK'
  BY <1>1, <1>2 DEF IInv, TypeOK
<1>4. SessionOK'
  BY <1>1, <1>2 DEF IInv, SessionOK, ExpectsBinary
<1>5. TaskOK' /\ PendingBytes' /\ AudioDone'
  BY <1>1 DEF IInv, TaskOK, PendingBytes, AudioDone
<1>6. DeadlineOK' /\ LoopOK'
  BY <1>1 DEF IInv, DeadlineOK, LoopOK, InLoop, Stopping
<1>7. FlowOK'
  BY <1>1, <1>2 DEF IInv, FlowOK, Drained, Finished
<1>8. FinishOK'
  BY <1>1 DEF IInv, FinishOK, Finished
<1>9. QED
  BY <1>3, <1>4, <1>5, <1>6, <1>7, <1>8 DEF IInv

\* A task that was cancelled ends.
LEMMA CancelTaskKeeps ==
  ASSUME IInv, NEW t \in Tasks, CancelTask(t)
  PROVE  IInv'
<1> USE DEF inputVars, audioVars, transcriptVars, taskVars, runVars
<1>1. /\ t \in cancelled /\ task[t] \notin {"none", "done"}
      /\ task' = [task EXCEPT ![t] = "done"]
      /\ pending_bytes' = IF t = "audio" /\ task[t] = "sending"
                          THEN pending_bytes - in_flight[1].size ELSE pending_bytes
      /\ UNCHANGED <<inputVars, audio_queue, audio_eof, in_flight, relayed,
                     transcriptVars, cancelled, stt_ready, stt, fault, runVars>>
  BY DEF CancelTask, Finished, Move
<1>2. /\ task' \in [Tasks -> {"none", "starting", "waiting", "sending", "done"}]
      /\ task'[t] = "done" /\ \A u \in Tasks \ {t} : task'[u] = task[u]
  BY <1>1 DEF IInv, TypeOK
<1>3. in_flight \in Seq(Chunk) /\ audio_queue \in Seq(Chunk) /\ pending_bytes \in Int
  BY DEF IInv, TypeOK
<1>4. task["audio"] = "sending" => BytesOf(in_flight) = in_flight[1].size
  BY <1>3, BytesOfOne DEF IInv, TaskOK
<1>5. BytesOf(in_flight) \in Nat /\ BytesOf(audio_queue) \in Nat
  BY <1>3, BytesOfNat
<1>6. PendingBytes' /\ pending_bytes' \in Int
  <2>1. /\ pending_bytes = BytesOf(audio_queue)
                           + (IF task["audio"] = "sending" THEN BytesOf(in_flight) ELSE 0)
        /\ pending_bytes =< MAX_PENDING_AUDIO_BYTES
    BY DEF IInv, PendingBytes
  <2>2. CASE t = "audio"
    <3>1. pending_bytes' = BytesOf(audio_queue)
      BY <1>1, <1>3, <1>4, <1>5, <2>1, <2>2
    <3>2. task'["audio"] # "sending"
      BY <1>2, <2>2
    <3>3. BytesOf(audio_queue) =< MAX_PENDING_AUDIO_BYTES
      BY <1>3, <1>5, <2>1, ConnectionAssumption
    <3>4. QED
      BY <1>1, <1>5, <3>1, <3>2, <3>3 DEF PendingBytes
  <2>3. CASE t # "audio"
    <3>1. task'["audio"] = task["audio"] /\ pending_bytes' = pending_bytes
      BY <1>1, <1>2, <2>3 DEF Tasks
    <3>2. QED
      BY <1>1, <1>3, <2>1, <3>1 DEF PendingBytes
  <2>4. QED
    BY <2>2, <2>3
<1>7. TypeOK'
  BY <1>1, <1>2, <1>6 DEF IInv, TypeOK
<1>8. SessionOK' /\ DeadlineOK' /\ LoopOK'
  BY <1>1 DEF IInv, SessionOK, DeadlineOK, LoopOK
<1>9. TaskOK' /\ AudioDone'
  BY <1>1, <1>2 DEF IInv, TaskOK, AudioDone, Tasks
<1>10. \A u \in Tasks : Finished(u) => Finished(u)'
  BY <1>2 DEF Finished
<1>11. FlowOK'
  <2>1. Drained => t # "audio" /\ pending_bytes' = pending_bytes
    BY <1>1 DEF IInv, FlowOK, OwnTasks, Finished
  <2>2. OwnTasks \subseteq Tasks /\ "receiver" \in Tasks
    BY DEF OwnTasks, Tasks
  <2>3. QED
    BY <1>1, <1>10, <2>1, <2>2 DEF IInv, FlowOK, Drained
<1>12. FinishOK'
  BY <1>1, <1>2, <1>10 DEF IInv, FinishOK, Tasks
<1>13. QED
  BY <1>6, <1>7, <1>8, <1>9, <1>11, <1>12 DEF IInv

-----------------------------------------------------------------------------
\* The steps of the audio task.

LEMMA ProviderStartsKeeps ==
  ASSUME IInv, ProviderStarts
  PROVE  IInv'
<1> USE DEF inputVars, audioVars, transcriptVars, taskVars, runVars, AudioUnchanged
<1>1. /\ task["audio"] = "starting" /\ "audio" \notin cancelled
      /\ UNCHANGED <<inputVars, audioVars, transcriptVars, cancelled, runVars>>
  BY DEF ProviderStarts, At
<1>2. \A t \in Tasks : task[t] \in {"none", "starting", "waiting", "sending", "done"}
  BY DEF IInv, TypeOK
<1>3. ~Drained /\ stt.stop # "sent" /\ in_flight = << >>
  BY <1>1 DEF IInv, FlowOK, FinishOK, TaskOK, OwnTasks, Finished
<1>4. stt \in STT /\ fault \in Faults /\ stt_ready \in {"unset", "set"}
  BY DEF IInv, TypeOK, STT, Faults
<1>5. /\ task' \in [Tasks -> {"none", "starting", "waiting", "sending", "done"}]
      /\ task'["sender"] = task["sender"] /\ task'["context"] = task["context"]
      /\ task'["audio"] \in {"waiting", "done"}
      /\ stt_ready' \in {"unset", "set"}
      /\ stt' \in STT /\ fault' \in Faults
      /\ stt'.stop = stt.stop /\ stt'.ended = stt.ended /\ stt'.context = stt.context
      /\ task'["audio"] = "done" =>
           stt'.error # "none" \/ fault' # "none" \/ watcher = "over"
  <2>1. CASE /\ task' = [task EXCEPT !["audio"] = "waiting", !["receiver"] = "waiting"]
             /\ stt_ready' = "set" /\ UNCHANGED <<stt, fault>>
    BY <1>1, <1>4, <2>1 DEF IInv, TypeOK, Tasks
  <2>2. CASE Move("audio", "done") /\ ReportProviderError /\ UNCHANGED stt_ready
    <3>1. /\ task' \in [Tasks -> {"none", "starting", "waiting", "sending", "done"}]
          /\ task'["sender"] = task["sender"] /\ task'["context"] = task["context"]
          /\ task'["audio"] = "done"
      BY <2>2 DEF Move, IInv, TypeOK, Tasks
    <3>2. QED
      BY <1>4, <2>2, <3>1, ReportGives
  <2>3. CASE Move("audio", "done") /\ OnError("timeout") /\ UNCHANGED <<stt_ready, stt>>
    <3>1. /\ task' \in [Tasks -> {"none", "starting", "waiting", "sending", "done"}]
          /\ task'["sender"] = task["sender"] /\ task'["context"] = task["context"]
          /\ task'["audio"] = "done"
      BY <2>3 DEF Move, IInv, TypeOK, Tasks
    <3>2. fault' \in Faults /\ (fault' # "none" \/ watcher = "over")
      BY <2>3, OnErrorGives DEF Faults
    <3>3. QED
      BY <1>4, <2>3, <3>1, <3>2
  <2>4. QED
    BY <2>1, <2>2, <2>3 DEF ProviderStarts
<1>6. TypeOK'
  BY <1>1, <1>5 DEF IInv, TypeOK, STT, Faults
<1>7. SessionOK' /\ DeadlineOK' /\ LoopOK'
  BY <1>1, <1>5 DEF IInv, SessionOK, DeadlineOK, LoopOK
<1>8. TaskOK' /\ PendingBytes'
  BY <1>1, <1>3, <1>5 DEF IInv, TaskOK, PendingBytes
<1>9. FlowOK'
  BY <1>1, <1>3 DEF IInv, FlowOK, Drained
<1>10. AudioDone'
  BY <1>1, <1>5 DEF AudioDone
<1>11. FinishOK'
  BY <1>1, <1>3, <1>5 DEF IInv, FinishOK, Finished
<1>12. QED
  BY <1>6, <1>7, <1>8, <1>9, <1>10, <1>11 DEF IInv

LEMMA TakeChunkKeeps ==
  ASSUME IInv, TakeChunk
  PROVE  IInv'
<1> USE DEF inputVars, audioVars, transcriptVars, taskVars, runVars, AudioUnchanged
<1>1. /\ task["audio"] = "waiting" /\ audio_queue # << >>
      /\ in_flight' = <<Head(audio_queue)>> /\ audio_queue' = Tail(audio_queue)
      /\ task' = [task EXCEPT !["audio"] = "sending"]
      /\ UNCHANGED <<audio_eof, pending_bytes, relayed, stt_ready, stt, fault, inputVars,
                     transcriptVars, cancelled, runVars>>
  BY DEF TakeChunk, At, Move
<1>2. ~Drained /\ stt.stop # "sent" /\ in_flight = << >>
  BY <1>1 DEF IInv, FlowOK, FinishOK, TaskOK, OwnTasks, Finished
<1>3. /\ relayed \in Seq(Chunk) /\ audio_queue \in Seq(Chunk) /\ pending_bytes \in Int
      /\ accepted = (relayed \o in_flight) \o audio_queue
  BY <1>2 DEF IInv, TypeOK, FlowOK
<1>4. /\ Head(audio_queue) \in Chunk /\ Tail(audio_queue) \in Seq(Chunk)
      /\ audio_queue = <<Head(audio_queue)>> \o Tail(audio_queue)
  <2>1. Head(audio_queue) \in Chunk /\ Tail(audio_queue) \in Seq(Chunk)
    BY <1>1, <1>3, HeadTailProperties
  <2>2. audio_queue = <<Head(audio_queue)>> \o Tail(audio_queue)
    BY <1>1, <1>3
  <2>3. QED
    BY <2>1, <2>2
<1>5. in_flight' \in Seq(Chunk) /\ Len(in_flight') = 1 /\ in_flight'[1] = Head(audio_queue)
  BY <1>1, <1>4
<1>6. /\ task' \in [Tasks -> {"none", "starting", "waiting", "sending", "done"}]
      /\ task'["audio"] = "sending" /\ \A t \in Tasks \ {"audio"} : task'[t] = task[t]
  BY <1>1 DEF IInv, TypeOK, Tasks
<1>7. TypeOK'
  BY <1>1, <1>4, <1>5, <1>6 DEF IInv, TypeOK
<1>8. SessionOK' /\ DeadlineOK' /\ LoopOK'
  BY <1>1 DEF IInv, SessionOK, DeadlineOK, LoopOK
<1>9. TaskOK' /\ AudioDone'
  BY <1>1, <1>5, <1>6 DEF IInv, TaskOK, AudioDone, Tasks
<1>10. FlowOK'
  <2>1. accepted = relayed \o audio_queue
    BY <1>2, <1>3, ConcatEmptySeq
  <2>2. relayed \o (<<Head(audio_queue)>> \o Tail(audio_queue))
          = (relayed \o <<Head(audio_queue)>>) \o Tail(audio_queue)
    <3> DEFINE one == <<Head(audio_queue)>>
               rest == Tail(audio_queue)
    <3>1. one \in Seq(Chunk) /\ rest \in Seq(Chunk)
      BY <1>4
    <3> HIDE DEF one, rest
    <3>2. Joined(Joined(relayed, one), rest) = Joined(relayed, Joined(one, rest))
      BY <1>3, <3>1, JoinedFromEither
    <3>3. QED
      BY ONLY <3>2 DEF Joined, one, rest
  <2>3. accepted = (relayed \o <<Head(audio_queue)>>) \o Tail(audio_queue)
    BY <1>4, <2>1, <2>2
  <2>4. accepted' = (relayed' \o in_flight') \o audio_queue'
    BY <1>1, <2>3
  <2>5. ~Drained' /\ main' # "done"
    BY <1>1, <1>2 DEF Drained
  <2>6. QED
    BY <2>4, <2>5 DEF FlowOK
<1>11. FinishOK'
  BY <1>1, <1>2, <1>6 DEF IInv, FinishOK, Finished, Tasks
<1>12. PendingBytes'
  <2>1. BytesOf(audio_queue) = Head(audio_queue).size + BytesOf(Tail(audio_queue))
    BY <1>1, <1>3, BytesOfTail
  <2>2. BytesOf(in_flight') = Head(audio_queue).size
    BY <1>5, BytesOfOne
  <2>3. BytesOf(Tail(audio_queue)) \in Nat /\ BytesOf(in_flight') \in Nat
    BY <1>4, <1>5, BytesOfNat
  <2>4. pending_bytes = BytesOf(audio_queue) + 0 /\ pending_bytes =< MAX_PENDING_AUDIO_BYTES
    BY <1>1 DEF IInv, PendingBytes
  <2>5. pending_bytes' = BytesOf(audio_queue') + BytesOf(in_flight')
    BY <1>1, <1>3, <2>1, <2>2, <2>3, <2>4
  <2>6. QED
    BY <1>1, <1>6, <2>4, <2>5 DEF PendingBytes
<1>13. QED
  BY <1>7, <1>8, <1>9, <1>10, <1>11, <1>12 DEF IInv

LEMMA AudioEndsKeeps ==
  ASSUME IInv, AudioEnds
  PROVE  IInv'
<1> USE DEF inputVars, audioVars, transcriptVars, taskVars, runVars, AudioUnchanged
<1>1. /\ task["audio"] = "waiting" /\ audio_queue = << >> /\ audio_eof = "put"
      /\ task' = [task EXCEPT !["audio"] = "done"]
      /\ UNCHANGED <<audioVars, stt_ready, stt, fault, inputVars, transcriptVars,
                     cancelled, runVars>>
  BY DEF AudioEnds, At, Move
<1>2. ~Drained /\ stt.stop # "sent" /\ in_flight = << >>
  BY <1>1 DEF IInv, FlowOK, FinishOK, TaskOK, OwnTasks, Finished
<1>3. /\ task' \in [Tasks -> {"none", "starting", "waiting", "sending", "done"}]
      /\ task'["audio"] = "done" /\ \A t \in Tasks \ {"audio"} : task'[t] = task[t]
  BY <1>1 DEF IInv, TypeOK, Tasks
<1>4. TypeOK'
  BY <1>1, <1>3 DEF IInv, TypeOK
<1>5. SessionOK' /\ DeadlineOK' /\ LoopOK'
  BY <1>1 DEF IInv, SessionOK, DeadlineOK, LoopOK
<1>6. TaskOK' /\ AudioDone' /\ PendingBytes'
  BY <1>1, <1>2, <1>3 DEF IInv, TaskOK, AudioDone, PendingBytes, Tasks
<1>7. FlowOK'
  BY <1>1, <1>2 DEF IInv, FlowOK, Drained
<1>8. FinishOK'
  BY <1>1, <1>2, <1>3 DEF IInv, FinishOK, Finished, Tasks
<1>9. QED
  BY <1>4, <1>5, <1>6, <1>7, <1>8 DEF IInv

LEMMA SendChunkKeeps ==
  ASSUME IInv, SendChunk
  PROVE  IInv'
<1> USE DEF inputVars, audioVars, transcriptVars, taskVars, runVars, AudioUnchanged
<1>1. /\ task["audio"] = "sending" /\ "audio" \notin cancelled
      /\ pending_bytes' = pending_bytes - in_flight[1].size
      /\ UNCHANGED <<audio_queue, audio_eof, stt_ready, inputVars, transcriptVars,
                     cancelled, runVars>>
  BY DEF SendChunk, At
<1>2. ~Drained /\ stt.stop # "sent" /\ Len(in_flight) = 1
  BY <1>1 DEF IInv, FlowOK, FinishOK, TaskOK, OwnTasks, Finished
<1>3. /\ relayed \in Seq(Chunk) /\ audio_queue \in Seq(Chunk) /\ pending_bytes \in Int
      /\ in_flight \in Seq(Chunk) /\ stt \in STT /\ fault \in Faults
      /\ accepted = (relayed \o in_flight) \o audio_queue
  BY <1>2 DEF IInv, TypeOK, FlowOK, STT, Faults
<1>4. /\ BytesOf(in_flight) = in_flight[1].size /\ in_flight[1] \in Chunk
      /\ in_flight = <<in_flight[1]>>
  BY <1>2, <1>3, BytesOfOne
<1>5. /\ task' \in [Tasks -> {"none", "starting", "waiting", "sending", "done"}]
      /\ task'["audio"] \in {"waiting", "done"}
      /\ \A t \in Tasks \ {"audio"} : task'[t] = task[t]
  BY DEF SendChunk, Move, IInv, TypeOK, Tasks
<1>6. /\ stt' \in STT /\ fault' \in Faults
      /\ stt'.stop = stt.stop /\ stt'.ended = stt.ended /\ stt'.context = stt.context
      /\ task'["audio"] = "done" =>
           stt'.error # "none" \/ fault' # "none" \/ watcher = "over"
      /\ \/ /\ task'["audio"] = "waiting"
            /\ relayed' = Append(relayed, in_flight[1]) /\ in_flight' = << >>
         \/ task'["audio"] = "done" /\ UNCHANGED <<in_flight, relayed>>
  <2>1. CASE /\ relayed' = Append(relayed, in_flight[1]) /\ in_flight' = << >>
             /\ Move("audio", "waiting") /\ UNCHANGED <<stt, fault>>
    <3>1. task'["audio"] = "waiting"
      BY <2>1 DEF Move, IInv, TypeOK, Tasks
    <3>2. QED
      BY <1>3, <2>1, <3>1
  <2>2. CASE ReportProviderError /\ Move("audio", "done") /\ UNCHANGED <<in_flight, relayed>>
    <3>1. task'["audio"] = "done"
      BY <2>2 DEF Move, IInv, TypeOK, Tasks
    <3>2. QED
      BY <2>2, <3>1, ReportGives
  <2>3. CASE /\ OnError("timeout") /\ UNCHANGED stt
             /\ Move("audio", "done") /\ UNCHANGED <<in_flight, relayed>>
    <3>1. task'["audio"] = "done"
      BY <2>3 DEF Move, IInv, TypeOK, Tasks
    <3>2. fault' \in Faults /\ (fault' # "none" \/ watcher = "over")
      BY <2>3, OnErrorGives DEF Faults
    <3>3. QED
      BY <1>3, <2>3, <3>1, <3>2
  <2>4. QED
    BY <2>1, <2>2, <2>3 DEF SendChunk
<1>7. /\ relayed' \in Seq(Chunk) /\ in_flight' \in Seq(Chunk) /\ Len(in_flight') =< 1
      /\ relayed' \o in_flight' = relayed \o in_flight
      /\ task'["audio"] = "waiting" => in_flight' = << >>
  <2>1. CASE /\ task'["audio"] = "waiting"
             /\ relayed' = Append(relayed, in_flight[1]) /\ in_flight' = << >>
    <3>1. relayed' = relayed \o in_flight /\ relayed' \in Seq(Chunk)
      <4>1. PICK c \in Chunk : c = in_flight[1] /\ in_flight = <<c>>
        BY <1>4
      <4>2. Append(relayed, c) = relayed \o <<c>> /\ Append(relayed, c) \in Seq(Chunk)
        BY <1>3, AppendIsConcat, AppendProperties
      <4>3. relayed' = Append(relayed, c)
        BY <2>1, <4>1
      <4>4. relayed \o in_flight = relayed \o <<c>>
        BY <4>1
      <4>5. QED
        BY <4>2, <4>3, <4>4
    <3>2. relayed' \o << >> = relayed'
      BY <3>1, ConcatEmptySeq
    <3>3. in_flight' \in Seq(Chunk) /\ Len(in_flight') = 0
      BY <2>1, EmptySeq
    <3>4. QED
      BY <2>1, <3>1, <3>2, <3>3
  <2>2. CASE task'["audio"] = "done" /\ UNCHANGED <<in_flight, relayed>>
    <3>1. Len(in_flight) =< 1 /\ relayed \in Seq(Chunk) /\ in_flight \in Seq(Chunk)
      BY <1>2, <1>3
    <3>2. QED
      BY <2>2, <3>1
  <2>3. QED
    BY <1>6, <2>1, <2>2
<1>8. PendingBytes' /\ pending_bytes' \in Int
  <2>1. BytesOf(audio_queue) \in Nat /\ BytesOf(in_flight) \in Nat
    BY <1>3, BytesOfNat
  <2>2. /\ pending_bytes = BytesOf(audio_queue) + BytesOf(in_flight)
        /\ pending_bytes =< MAX_PENDING_AUDIO_BYTES
    BY <1>1 DEF IInv, PendingBytes
  <2>3. pending_bytes' = BytesOf(audio_queue) /\ pending_bytes' =< MAX_PENDING_AUDIO_BYTES
    BY <1>1, <1>3, <1>4, <2>1, <2>2, ConnectionAssumption
  <2>4. QED
    BY <1>1, <1>5, <2>1, <2>3 DEF PendingBytes
<1>9. TypeOK'
  BY <1>1, <1>5, <1>6, <1>7, <1>8 DEF IInv, TypeOK, STT, Faults
<1>10. SessionOK' /\ DeadlineOK' /\ LoopOK'
  BY <1>1, <1>6 DEF IInv, SessionOK, DeadlineOK, LoopOK
<1>11. TaskOK' /\ AudioDone'
  BY <1>1, <1>5, <1>6, <1>7 DEF IInv, TaskOK, AudioDone, Tasks
<1>12. FlowOK'
  BY <1>1, <1>2, <1>3, <1>7 DEF FlowOK, Drained
<1>13. FinishOK'
  BY <1>1, <1>2, <1>5, <1>6 DEF IInv, FinishOK, Finished, Tasks
<1>14. QED
  BY <1>8, <1>9, <1>10, <1>11, <1>12, <1>13 DEF IInv

-----------------------------------------------------------------------------
\* The steps of the context task, the receiver and the sender.

\* Tasks other than the audio task move, and what the provider client has found
\* or been told, and the transcripts, are all that changes with them.
Beside(t) ==
  /\ t \in Tasks \ {"audio"} /\ ~Finished(t)
  /\ task' \in [Tasks -> {"none", "starting", "waiting", "sending", "done"}]
  /\ \A u \in Tasks \ {t} : task'[u] = task[u]
  /\ t = "sender" /\ task'["sender"] = "sending" =>
       current' \in {"transcript", "mapping"}
  /\ t # "sender" => UNCHANGED current
  /\ stt' \in STT /\ fault' \in Faults
  /\ stt'.stop = stt.stop
  /\ stt.ended = "yes" => stt'.ended = "yes"
  /\ stt'.ended = "yes" => stt.ended = "yes" \/ stt.stop = "sent"
  /\ stt.error # "none" => stt'.error # "none"
  /\ fault # "none" => fault' # "none"
  /\ UNCHANGED <<inputVars, audioVars, cancelled, stt_ready, runVars>>

LEMMA BesideKeeps ==
  ASSUME IInv, NEW t, Beside(t), TypeOK',
         t = "context" => "context" \notin cancelled
  PROVE  IInv'
<1> USE DEF inputVars, audioVars, runVars
<1>1. /\ t \in Tasks \ {"audio"} /\ task[t] \notin {"none", "done"}
      /\ \A u \in Tasks \ {t} : task'[u] = task[u]
      /\ UNCHANGED <<session, accepted, binary_deadline, audio_queue, audio_eof,
                     pending_bytes, in_flight, relayed, cancelled, stt_ready,
                     watcher, interrupt, main, final>>
  BY DEF Beside, Finished
<1>2. task'["audio"] = task["audio"]
  BY <1>1 DEF Tasks
<1>3. SessionOK' /\ DeadlineOK' /\ LoopOK' /\ PendingBytes'
  <2>1. stt'.stop = stt.stop
    BY DEF Beside
  <2>2. QED
    BY <1>1, <1>2, <2>1 DEF IInv, SessionOK, DeadlineOK, LoopOK, PendingBytes
<1>4. TaskOK'
  <2>1. task'["sender"] = "sending" => current' \in {"transcript", "mapping"}
    BY <1>1 DEF Beside, IInv, TaskOK, Tasks
  <2>2. QED
    BY <1>1, <1>2, <2>1 DEF IInv, TaskOK
<1>5. FlowOK'
  <2>1. \A u \in Tasks : Drained /\ u \in OwnTasks => u # t
    BY <1>1 DEF IInv, FlowOK, Finished
  <2>2. Drained => \A u \in OwnTasks : Finished(u)'
    BY <1>1, <2>1 DEF IInv, FlowOK, Finished, OwnTasks, Tasks
  <2>3. main = "done" => Finished("receiver")'
    BY <1>1 DEF IInv, FlowOK, Finished, OwnTasks, Tasks, Drained
  <2>4. QED
    BY <1>1, <2>2, <2>3 DEF IInv, FlowOK, Drained
<1>6. AudioDone'
  BY <1>1, <1>2 DEF IInv, AudioDone, Beside
<1>7. FinishOK'
  <2>1. audio_eof = "put" => t # "context"
    BY <1>1 DEF IInv, FinishOK, Finished
  <2>2. audio_eof = "put" => "context" \in cancelled \/ Finished("context")'
    BY <1>1, <2>1 DEF IInv, FinishOK, Finished, Tasks
  <2>3. /\ stt'.stop = stt.stop
        /\ stt.ended = "yes" => stt'.ended = "yes"
        /\ stt'.ended = "yes" => stt.ended = "yes" \/ stt.stop = "sent"
    BY DEF Beside
  <2>4. QED
    BY <1>1, <1>2, <2>2, <2>3 DEF IInv, FinishOK
<1>8. QED
  BY <1>3, <1>4, <1>5, <1>6, <1>7 DEF IInv

\* A task other than the audio task moves to another place.
LEMMA MoveBeside ==
  ASSUME IInv, NEW t \in Tasks \ {"audio"}, t # "sender", ~Finished(t),
         NEW place \in {"waiting", "sending", "done"}, Move(t, place),
         t = "context" => "context" \notin cancelled,
         stt' \in STT, fault' \in Faults, stt'.stop = stt.stop,
         stt.ended = "yes" => stt'.ended = "yes",
         stt'.ended = "yes" => stt.ended = "yes" \/ stt.stop = "sent",
         stt.error # "none" => stt'.error # "none",
         fault # "none" => fault' # "none",
         UNCHANGED <<inputVars, audioVars, transcriptVars, cancelled, stt_ready, runVars>>
  PROVE  IInv'
<1> USE DEF inputVars, audioVars, transcriptVars, runVars
<1>1. /\ task' \in [Tasks -> {"none", "starting", "waiting", "sending", "done"}]
      /\ \A u \in Tasks \ {t} : task'[u] = task[u]
  BY DEF Move, IInv, TypeOK
<1>2. TypeOK'
  BY <1>1 DEF IInv, TypeOK, STT, Faults
<1>3. Beside(t)
  BY <1>1 DEF Beside
<1>4. QED
  BY <1>2, <1>3, BesideKeeps

LEMMA GenerateContextKeeps ==
  ASSUME IInv, GenerateContext
  PROVE  IInv'
<1>1. /\ task["context"] = "starting" /\ "context" \notin cancelled
      /\ UNCHANGED <<stt, fault>> /\ ContextUnchanged
  BY DEF GenerateContext, At
<1>2. PICK place \in {"waiting", "done"} : Move("context", place)
  BY DEF GenerateContext
<1>3. ~Finished("context") /\ "context" \in Tasks \ {"audio"}
  BY <1>1 DEF Finished, Tasks
<1>4. stt \in STT /\ fault \in Faults
  BY DEF IInv, TypeOK, STT, Faults
<1>5. QED
  BY <1>1, <1>2, <1>3, <1>4, MoveBeside DEF ContextUnchanged

LEMMA UpdateContextKeeps ==
  ASSUME IInv, UpdateContext
  PROVE  IInv'
<1>1. /\ task["context"] = "waiting" /\ "context" \notin cancelled
      /\ UNCHANGED fault /\ ContextUnchanged
  BY DEF UpdateContext, At
<1>2. ~Finished("context") /\ "context" \in Tasks \ {"audio"}
  BY <1>1 DEF Finished, Tasks
<1>3. stt \in STT /\ fault \in Faults
  BY DEF IInv, TypeOK, STT, Faults
<1>4. /\ stt' \in STT /\ stt'.stop = stt.stop /\ stt'.ended = stt.ended
      /\ stt'.error = stt.error
  BY <1>3 DEF UpdateContext, STT
<1>5. PICK place \in {"sending", "done"} : Move("context", place)
  BY DEF UpdateContext
<1>6. QED
  BY <1>1, <1>2, <1>3, <1>4, <1>5, MoveBeside DEF ContextUnchanged

LEMMA ContextUpdatedKeeps ==
  ASSUME IInv, ContextUpdated
  PROVE  IInv'
<1>1. /\ task["context"] = "sending" /\ "context" \notin cancelled
      /\ Move("context", "done") /\ ContextUnchanged
  BY DEF ContextUpdated, At
<1>2. ~Finished("context") /\ "context" \in Tasks \ {"audio"}
  BY <1>1 DEF Finished, Tasks
<1>3. stt \in STT /\ fault \in Faults
  BY DEF IInv, TypeOK, STT, Faults
<1>4. /\ stt' \in STT /\ fault' \in Faults
      /\ stt'.stop = stt.stop /\ stt'.ended = stt.ended
      /\ stt.error # "none" => stt'.error # "none"
      /\ fault # "none" => fault' # "none"
  <2>1. CASE UNCHANGED <<stt, fault>>
    BY <1>3, <2>1
  <2>2. CASE ReportProviderError
    <3>1. fault # "none" => fault' = fault
      BY <2>2 DEF ReportProviderError, OnError
    <3>2. QED
      BY <2>2, <3>1, ReportGives
  <2>3. CASE OnError("timeout") /\ UNCHANGED stt
    BY <1>3, <2>3, OnErrorGives DEF Faults
  <2>4. QED
    BY <2>1, <2>2, <2>3 DEF ContextUpdated
<1>5. QED
  BY <1>1, <1>2, <1>4, MoveBeside DEF ContextUnchanged

LEMMA ReceiverEndsKeeps ==
  ASSUME IInv, ReceiverEnds
  PROVE  IInv'
<1>1. /\ task["receiver"] = "waiting" /\ Move("receiver", "done")
      /\ UNCHANGED transcriptVars /\ ReceiverUnchanged
  BY DEF ReceiverEnds, At
<1>2. ~Finished("receiver") /\ "receiver" \in Tasks \ {"audio"}
  BY <1>1 DEF Finished, Tasks
<1>3. stt \in STT /\ fault \in Faults
  BY DEF IInv, TypeOK, STT, Faults
<1>4. /\ stt' \in STT /\ fault' \in Faults /\ stt'.stop = stt.stop
      /\ stt.ended = "yes" => stt'.ended = "yes"
      /\ stt'.ended = "yes" => stt.ended = "yes" \/ stt.stop = "sent"
      /\ stt.error # "none" => stt'.error # "none"
      /\ fault # "none" => fault' # "none"
  <2>1. CASE stt.stop = "sent" /\ stt' = [stt EXCEPT !.ended = "yes"] /\ UNCHANGED fault
    BY <1>3, <2>1 DEF STT
  <2>2. CASE ReportProviderError
    <3>1. fault # "none" => fault' = fault
      BY <2>2 DEF ReportProviderError, OnError
    <3>2. QED
      BY <2>2, <3>1, ReportGives
  <2>3. QED
    BY <2>1, <2>2 DEF ReceiverEnds
<1>5. QED
  BY <1>1, <1>2, <1>4, MoveBeside DEF ReceiverUnchanged

LEMMA ResultKeeps ==
  ASSUME IInv, NEW kind \in {"transcript", "mapping"}, Result(kind)
  PROVE  IInv'
<1> USE DEF inputVars, audioVars, runVars, ReceiverUnchanged
<1>1. /\ task["receiver"] = "waiting" /\ results' = Append(results, kind)
      /\ transcript_queue' \in {Append(transcript_queue, kind), transcript_queue}
      /\ UNCHANGED <<current, number, asked, resumed, delivered, task, stt, fault, inputVars,
                     audioVars, cancelled, stt_ready, runVars>>
  BY DEF Result, At
<1>2. /\ results' \in Seq({"transcript", "mapping"})
      /\ transcript_queue' \in Seq({"transcript", "mapping", "end"})
  <2>1. /\ results \in Seq({"transcript", "mapping"})
        /\ transcript_queue \in Seq({"transcript", "mapping", "end"})
    BY DEF IInv, TypeOK
  <2>2. /\ Append(results, kind) \in Seq({"transcript", "mapping"})
        /\ Append(transcript_queue, kind) \in Seq({"transcript", "mapping", "end"})
    BY <2>1, AppendProperties
  <2>3. QED
    BY <1>1, <2>1, <2>2
<1>3. TypeOK'
  BY <1>1, <1>2 DEF IInv, TypeOK
<1>4. Beside("receiver")
  BY <1>1 DEF Beside, IInv, TypeOK, Finished, Tasks, STT, Faults
<1>5. QED
  BY <1>3, <1>4, BesideKeeps

LEMMA TakeResultKeeps ==
  ASSUME IInv, TakeResult
  PROVE  IInv'
<1> USE DEF inputVars, audioVars, runVars, SenderUnchanged
<1>1. /\ task["sender"] = "waiting" /\ transcript_queue # << >>
      /\ current' = Head(transcript_queue) /\ transcript_queue' = Tail(transcript_queue)
      /\ task' = [task EXCEPT !["sender"] =
                    IF Head(transcript_queue) = "end" THEN "done" ELSE "sending"]
      /\ UNCHANGED <<number, delivered, fault, inputVars, audioVars, asked, resumed, results,
                     cancelled, stt_ready, stt, runVars>>
  BY DEF TakeResult, At, Move
<1>2. /\ Head(transcript_queue) \in {"transcript", "mapping", "end"}
      /\ Tail(transcript_queue) \in Seq({"transcript", "mapping", "end"})
  BY <1>1, HeadTailProperties DEF IInv, TypeOK
<1>3. /\ task' \in [Tasks -> {"none", "starting", "waiting", "sending", "done"}]
      /\ \A u \in Tasks \ {"sender"} : task'[u] = task[u]
      /\ task'["sender"] = "sending" => Head(transcript_queue) # "end"
  BY <1>1 DEF IInv, TypeOK, Tasks
<1>4. TypeOK'
  BY <1>1, <1>2, <1>3 DEF IInv, TypeOK
<1>5. Beside("sender")
  BY <1>1, <1>2, <1>3 DEF Beside, IInv, TypeOK, Finished, Tasks, STT, Faults
<1>6. QED
  BY <1>4, <1>5, BesideKeeps

LEMMA SendResultKeeps ==
  ASSUME IInv, SendResult
  PROVE  IInv'
<1> USE DEF inputVars, audioVars, runVars, SenderUnchanged
<1>1. /\ task["sender"] = "sending"
      /\ UNCHANGED <<transcript_queue, current, inputVars, audioVars, asked, resumed, results,
                     cancelled, stt_ready, stt, runVars>>
  BY DEF SendResult, At
<1>2. current \in {"transcript", "mapping"} /\ number \in Nat /\ number + 1 \in Nat
  BY <1>1 DEF IInv, TaskOK, TypeOK
<1>3. /\ task' \in [Tasks -> {"none", "starting", "waiting", "sending", "done"}]
      /\ \A u \in Tasks \ {"sender"} : task'[u] = task[u]
  BY DEF SendResult, SenderFails, Move, IInv, TypeOK, Tasks
<1> DEFINE Sent == [kind : {"transcript", "mapping"}, number : Nat \cup {None}]
<1>4. delivered' \in Seq(Sent) /\ number' \in Nat /\ fault' \in Faults
      /\ (fault # "none" => fault' # "none")
  <2>1. delivered \in Seq(Sent) /\ fault \in Faults
    BY DEF IInv, TypeOK, Faults
  <2>2. ASSUME NEW d \in Sent PROVE Append(delivered, d) \in Seq(Sent)
    BY <2>1, AppendProperties
  <2>3. /\ [kind |-> current, number |-> None] \in Sent
        /\ [kind |-> current, number |-> number] \in Sent
    BY <1>2
  <2>4. CASE /\ delivered' = Append(delivered, [kind |-> current, number |-> None])
             /\ UNCHANGED number /\ UNCHANGED fault
    BY <1>2, <2>1, <2>2, <2>3, <2>4
  <2>5. CASE /\ delivered' = Append(delivered, [kind |-> current, number |-> number])
             /\ number' = number + 1 /\ UNCHANGED fault
    BY <1>2, <2>1, <2>2, <2>3, <2>5
  <2>6. CASE SenderFails /\ UNCHANGED <<delivered, number>>
    <3>1. PICK kind \in {"timeout", "disconnect"} : OnError(kind)
      BY <2>6 DEF SenderFails
    <3>2. fault' \in Faults /\ (fault # "none" => fault' = fault)
      BY <3>1, OnErrorGives DEF Faults
    <3>3. QED
      BY <1>2, <2>1, <2>6, <3>2
  <2>7. QED
    BY <2>4, <2>5, <2>6 DEF SendResult
<1>5. TypeOK'
  BY <1>1, <1>3, <1>4 DEF IInv, TypeOK, Faults
<1>6. Beside("sender")
  BY <1>1, <1>2, <1>3, <1>4 DEF Beside, IInv, TypeOK, Finished, Tasks, STT, Faults
<1>7. QED
  BY <1>5, <1>6, BesideKeeps

-----------------------------------------------------------------------------
\* The invariant.

LEMMA InitHolds == Init => IInv
<1> SUFFICES ASSUME Init PROVE IInv
  OBVIOUS
<1> USE DEF Init
<1>1. TypeOK
  <2>1. NewSession \in Session
    BY DEF NewSession, Session, SessionState, None
  <2>2. /\ << >> \in Seq(Chunk) /\ Len(<< >>) = 0
        /\ << >> \in Seq({"transcript", "mapping", "end"})
        /\ << >> \in Seq({"transcript", "mapping"})
        /\ << >> \in Seq([kind : {"transcript", "mapping"}, number : Nat \cup {None}])
    BY EmptySeq
  <2>3. QED
    BY <2>1, <2>2 DEF TypeOK, Tasks, InLoop
<1>2. SessionOK
  BY BytesOfEmpty DEF SessionOK, NewSession, ExpectsBinary, None
<1>3. DeadlineOK
  BY DEF DeadlineOK, NewSession, ExpectsBinary, None
<1>4. LoopOK /\ TaskOK /\ AudioDone /\ FinishOK
  BY DEF LoopOK, TaskOK, AudioDone, FinishOK, Tasks
<1>5. FlowOK
  <2>1. << >> \in Seq(Chunk)
    BY EmptySeq
  <2>2. (<< >> \o << >>) \o << >> = << >>
    BY <2>1, ConcatEmptySeq
  <2>3. QED
    BY <2>2 DEF FlowOK, Drained
<1>6. PendingBytes
  BY BytesOfEmpty, ConnectionAssumption DEF PendingBytes, Tasks
<1>7. QED
  BY <1>1, <1>2, <1>3, <1>4, <1>5, <1>6 DEF IInv

LEMMA StutterKeeps ==
  ASSUME IInv, UNCHANGED vars
  PROVE  IInv'
<1> USE DEF vars, inputVars, audioVars, transcriptVars, taskVars, runVars
<1>1. TypeOK' /\ SessionOK' /\ DeadlineOK' /\ LoopOK' /\ TaskOK'
  BY DEF IInv, TypeOK, SessionOK, DeadlineOK, LoopOK, TaskOK
<1>2. FlowOK' /\ AudioDone' /\ FinishOK' /\ PendingBytes'
  BY DEF IInv, FlowOK, AudioDone, FinishOK, PendingBytes, Drained, Finished
<1>3. QED
  BY <1>1, <1>2 DEF IInv

LEMMA ClientKeeps ==
  ASSUME IInv, Client
  PROVE  IInv'
<1>1. ASSUME NEW e \in Texts,
             RefuseText(e) \/ Start(e) \/ Meta(e) \/ Control(e) \/ Stop(e)
      PROVE  IInv'
  BY <1>1, RefuseTextKeeps, StartKeeps, MetaKeeps, ControlKeeps, StopKeeps
<1>2. ASSUME NEW size \in ChunkSizes, RefuseBinary(size) \/ Binary(size)
      PROVE  IInv'
  BY <1>2, RefuseBinaryKeeps, BinaryKeeps
<1>3. CASE Disconnect
  <2>1. main \in InLoop /\ Raise("returned")
    BY <1>3 DEF Disconnect, Runs, InLoop
  <2>2. QED
    BY <2>1, RaiseKeeps
<1>4. QED
  BY <1>1, <1>2, <1>3 DEF Client

LEMMA RunKeeps ==
  ASSUME IInv, Run
  PROVE  IInv'
<1>1. CASE BinaryTimeout \/ CloseNormally \/ Interrupted
  <2>1. main \in InLoop
    BY <1>1 DEF BinaryTimeout, CloseNormally, Interrupted, Runs, InLoop
  <2>2. \E kind : Raise(kind)
    BY <1>1 DEF BinaryTimeout, CloseNormally, Interrupted
  <2>3. QED
    BY <2>1, <2>2, RaiseKeeps
<1>2. CASE StopTimeout \/ GroupAborts
  <2>1. main \in InLoop /\ UNCHANGED watcher
    BY <1>2 DEF StopTimeout, GroupAborts, InLoop
  <2>2. \E why \in {"timeout", "cancel"} : Interrupt(why)
    BY <1>2 DEF StopTimeout, GroupAborts
  <2>3. QED
    BY <2>1, <2>2, InterruptKeeps
<1>3. QED
  BY <1>1, <1>2, RespondKeeps, StopProviderKeeps, ProviderStoppedKeeps,
     SenderStoppedKeeps, ConfirmKeeps, WatcherRaisesKeeps, SendErrorAndCloseKeeps,
     CleanupCancelsKeeps, CleanupDrainsKeeps, CleanupClosesKeeps DEF Run

LEMMA BackgroundKeeps ==
  ASSUME IInv, Background
  PROVE  IInv'
<1>1. ASSUME NEW t \in Tasks, CancelTask(t) PROVE IInv'
  BY <1>1, CancelTaskKeeps
<1>2. ASSUME NEW kind \in {"transcript", "mapping"}, Result(kind) PROVE IInv'
  BY <1>2, ResultKeeps
<1>3. QED
  BY <1>1, <1>2, ProviderStartsKeeps, TakeChunkKeeps, AudioEndsKeeps, SendChunkKeeps,
     GenerateContextKeeps, UpdateContextKeeps, ContextUpdatedKeeps, ReceiverEndsKeeps,
     TakeResultKeeps, SendResultKeeps DEF Background

LEMMA StepKeeps == IInv /\ [Next]_vars => IInv'
<1> SUFFICES ASSUME IInv, [Next]_vars PROVE IInv'
  OBVIOUS
<1>1. CASE RequestCancelled
  <2>1. main \in InLoop /\ UNCHANGED watcher /\ Interrupt("cancel")
    BY <1>1 DEF RequestCancelled
  <2>2. QED
    BY <2>1, InterruptKeeps
<1>2. CASE Done \/ UNCHANGED vars
  BY <1>2, StutterKeeps DEF Done
<1>3. QED
  BY <1>1, <1>2, ClientKeeps, RunKeeps, BackgroundKeeps DEF Next

\* The invariant holds of every connection.
THEOREM Invariance == Spec => []IInv
BY InitHolds, StepKeeps, PTL DEF Spec

\* The session, the queues, the tasks and the provider client keep their types.
THEOREM TypeCorrect == Spec => []TypeOK
<1>1. IInv => TypeOK
  BY DEF IInv
<1>2. QED
  BY <1>1, Invariance, PTL

\* While run() waits for input its deadline is armed exactly when the session
\* expects a binary.
THEOREM DeadlineAlwaysMatches == Spec => []DeadlineMatchesSession
<1>1. IInv => DeadlineMatchesSession
  BY DEF IInv, DeadlineOK, DeadlineMatchesSession
<1>2. QED
  BY <1>1, Invariance, PTL

\* _pending_audio_bytes is exactly what waits and what is being sent, and within
\* the limit, whichever task fails or is cancelled.
THEOREM BytesAlwaysCounted == Spec => []PendingBytes
<1>1. IInv => PendingBytes
  BY DEF IInv
<1>2. QED
  BY <1>1, Invariance, PTL

\* A connection that has returned has no task, no audio and no open session left.
THEOREM NothingIsLeft == Spec => []NothingLeft
<1>1. IInv => NothingLeft
  BY DEF IInv, FlowOK, NothingLeft, Drained, Tasks, OwnTasks
<1>2. QED
  BY <1>1, Invariance, PTL

\* No chunk is lost, repeated or overtaken before cleanup, the session counts
\* what it took, and only a session whose audio the provider has had is
\* confirmed as ended.
THEOREM AudioIsConserved == Spec => []AudioConserved
<1>1. ASSUME IInv PROVE AudioConserved
  <2>1. IF Drained THEN IsPrefix(relayed \o in_flight, accepted)
        ELSE accepted = relayed \o in_flight \o audio_queue
    BY <1>1 DEF IInv, FlowOK
  <2>2. /\ accepted # << >> => /\ session.next = Last(accepted).sequence + 1
                               /\ session.last = Last(accepted).sequence
        /\ session.pcm_bytes = BytesOf(accepted)
    BY <1>1 DEF IInv, SessionOK
  <2>3. final = "ended" => relayed = accepted /\ stt.ended = "yes"
    BY <1>1 DEF IInv, FinishOK
  <2>4. QED
    BY <2>1, <2>2, <2>3 DEF AudioConserved
<1>2. QED
  BY <1>1, Invariance, PTL

-----------------------------------------------------------------------------
\* What the steps leave alone.

\* The audio that was taken and relayed, and the confirmation, change in three
\* steps only.
LEMMA AudioLeftAlone ==
  ASSUME Next,
         \A size \in ChunkSizes : ~Binary(size),
         ~SendChunk, ~Confirm
  PROVE  UNCHANGED <<accepted, relayed, final>>
<1> USE DEF inputVars, audioVars, transcriptVars, taskVars, runVars
<1>1. ASSUME NEW kind, Raise(kind) PROVE UNCHANGED <<accepted, relayed, final>>
  BY <1>1 DEF Raise, UnchangedButInput
<1>2. ASSUME NEW why, Interrupt(why) PROVE UNCHANGED <<accepted, relayed, final>>
  BY <1>2 DEF Interrupt
<1>3. ASSUME NEW e \in Texts,
             RefuseText(e) \/ Start(e) \/ Meta(e) \/ Control(e) \/ Stop(e)
      PROVE  UNCHANGED <<accepted, relayed, final>>
  <2>1. CASE RefuseText(e)
    BY <1>1, <2>1 DEF RefuseText
  <2>2. CASE Start(e) \/ Meta(e) \/ Control(e) \/ Stop(e)
    BY <2>2 DEF Start, Meta, Control, Stop, UnchangedButInput
  <2>3. QED
    BY <1>3, <2>1, <2>2
<1>4. ASSUME NEW size \in ChunkSizes, RefuseBinary(size)
      PROVE  UNCHANGED <<accepted, relayed, final>>
  BY <1>1, <1>4 DEF RefuseBinary
<1>5. CASE Disconnect \/ BinaryTimeout \/ CloseNormally \/ Interrupted
  BY <1>1, <1>5 DEF Disconnect, BinaryTimeout, CloseNormally, Interrupted
<1>6. CASE StopTimeout \/ GroupAborts \/ RequestCancelled
  BY <1>2, <1>6 DEF StopTimeout, GroupAborts, RequestCancelled
<1>7. CASE Respond \/ StopProvider \/ ProviderStopped \/ SenderStopped \/ WatcherRaises
  BY <1>7 DEF Respond, StopProvider, ProviderStopped, SenderStopped, WatcherRaises,
              UnchangedButInput
<1>8. CASE SendErrorAndClose \/ CleanupCancels \/ CleanupDrains \/ CleanupCloses
  BY <1>8 DEF SendErrorAndClose, CleanupCancels, CleanupDrains, CleanupCloses,
              UnchangedButInput
<1>9. CASE ProviderStarts \/ TakeChunk \/ AudioEnds \/ GenerateContext \/ UpdateContext
           \/ ContextUpdated \/ ReceiverEnds \/ TakeResult \/ SendResult
  BY <1>9 DEF ProviderStarts, TakeChunk, AudioEnds, GenerateContext, UpdateContext,
              ContextUpdated, ReceiverEnds, TakeResult, SendResult, AudioUnchanged,
              ContextUnchanged, ReceiverUnchanged, SenderUnchanged
<1>10. ASSUME NEW kind \in {"transcript", "mapping"}, Result(kind)
       PROVE  UNCHANGED <<accepted, relayed, final>>
  BY <1>10 DEF Result, ReceiverUnchanged
<1>11. ASSUME NEW t \in Tasks, CancelTask(t)
       PROVE  UNCHANGED <<accepted, relayed, final>>
  BY <1>11 DEF CancelTask
<1>12. CASE Done
  BY <1>12 DEF Done, vars
<1>13. QED
  BY <1>3, <1>4, <1>5, <1>6, <1>7, <1>8, <1>9, <1>10, <1>11, <1>12
     DEF Next, Client, Run, Background

\* The provider is sent a context in one step only.
LEMMA ContextStays ==
  ASSUME IInv, Next, ~UpdateContext
  PROVE  stt'.context = stt.context
<1> USE DEF inputVars, audioVars, transcriptVars, taskVars, runVars
<1>1. ASSUME NEW kind, Raise(kind) PROVE UNCHANGED stt
  BY <1>1 DEF Raise, UnchangedButInput
<1>2. ASSUME NEW why, Interrupt(why) PROVE UNCHANGED stt
  BY <1>2 DEF Interrupt
<1>3. ASSUME NEW e \in Texts,
             RefuseText(e) \/ Start(e) \/ Meta(e) \/ Control(e) \/ Stop(e)
      PROVE  UNCHANGED stt
  <2>1. CASE RefuseText(e)
    BY <1>1, <2>1 DEF RefuseText
  <2>2. CASE Start(e) \/ Meta(e) \/ Control(e) \/ Stop(e)
    BY <2>2 DEF Start, Meta, Control, Stop, UnchangedButInput
  <2>3. QED
    BY <1>3, <2>1, <2>2
<1>4. ASSUME NEW size \in ChunkSizes, RefuseBinary(size) \/ Binary(size)
      PROVE  UNCHANGED stt
  BY <1>1, <1>4 DEF RefuseBinary, Binary
<1>5. CASE Disconnect \/ BinaryTimeout \/ CloseNormally \/ Interrupted
  BY <1>1, <1>5 DEF Disconnect, BinaryTimeout, CloseNormally, Interrupted
<1>6. CASE StopTimeout \/ GroupAborts \/ RequestCancelled
  BY <1>2, <1>6 DEF StopTimeout, GroupAborts, RequestCancelled
<1>7. CASE Respond \/ SenderStopped \/ Confirm \/ WatcherRaises
  BY <1>7 DEF Respond, SenderStopped, Confirm, WatcherRaises, UnchangedButInput
<1>8. CASE SendErrorAndClose \/ CleanupCancels \/ CleanupDrains \/ CleanupCloses
  BY <1>8 DEF SendErrorAndClose, CleanupCancels, CleanupDrains, CleanupCloses,
              UnchangedButInput
<1>9. CASE TakeChunk \/ AudioEnds \/ GenerateContext \/ TakeResult \/ SendResult
  BY <1>9 DEF TakeChunk, AudioEnds, GenerateContext, TakeResult, SendResult,
              SenderUnchanged
<1>10. ASSUME NEW kind \in {"transcript", "mapping"}, Result(kind)
       PROVE  UNCHANGED stt
  BY <1>10 DEF Result
<1>11. ASSUME NEW t \in Tasks, CancelTask(t) PROVE UNCHANGED stt
  BY <1>11 DEF CancelTask
<1>12. CASE Done
  BY <1>12 DEF Done, vars
<1>13. CASE StopProvider \/ ProviderStopped \/ ProviderStarts \/ SendChunk
            \/ ContextUpdated \/ ReceiverEnds
  <2>1. stt \in STT
    BY DEF IInv, TypeOK, STT
  <2>2. \/ ReportProviderError \/ UNCHANGED stt
        \/ \E x : stt' = [stt EXCEPT !.stop = x]
        \/ \E x : stt' = [stt EXCEPT !.ended = x]
    BY <1>13 DEF StopProvider, ProviderStopped, ProviderStarts, SendChunk,
                 ContextUpdated, ReceiverEnds
  <2>3. QED
    BY <2>1, <2>2, ReportGives DEF STT
<1>14. QED
  BY <1>3, <1>4, <1>5, <1>6, <1>7, <1>8, <1>9, <1>10, <1>11, <1>12, <1>13
     DEF Next, Client, Run, Background

ContextBeforeStop == stt'.context # stt.context => stt.stop = "no"

\* No context.update follows session.stop to the provider: the stop is sent only
\* behind the end mark of the audio, and by then the context task is cancelled
\* or has ended.
THEOREM NoContextOnceStopped == Spec => NoContextAfterStop
<1>1. IInv /\ [Next]_vars => [ContextBeforeStop]_stt
  <2> SUFFICES ASSUME IInv, Next, stt'.context # stt.context PROVE stt.stop = "no"
    BY DEF ContextBeforeStop, vars, taskVars
  <2>1. UpdateContext
    BY ContextStays
  <2>2. task["context"] = "waiting" /\ "context" \notin cancelled
    BY <2>1 DEF UpdateContext, At
  <2>3. QED
    BY <2>2 DEF IInv, FinishOK, Finished
<1>2. QED
  BY <1>1, Invariance, PTL DEF Spec, NoContextAfterStop, ContextBeforeStop

-----------------------------------------------------------------------------
\* What the provider reports.

Kinds == {"transcript", "mapping"}

\* What the client has been sent, and what is on its way to it.
SentKinds == [i \in 1 .. Len(delivered) |-> delivered[i].kind]
AtHand    == IF task["sender"] = "sending" THEN <<current>> ELSE << >>
OnTheWay  == AtHand \o Selected(Kinds, transcript_queue)

Numbered == [kind : {"transcript"}, number : Nat \cup {None}]
Numbers  == Selected(Numbered, delivered)

\* Before the tasks are created there is nothing to forward.
NothingYet ==
  /\ session.state = "NEW" => task["sender"] = "none"
  /\ task["sender"] = "none" =>
       /\ task["audio"] = "none" /\ task["receiver"] = "none"
       /\ results = << >> /\ delivered = << >> /\ transcript_queue = << >>

\* While the sender works, what is not sent is on its way.
ResultsFlow ==
  /\ IsPrefix(SentKinds, Kept)
  /\ task["sender"] # "done" => Kept = SentKinds \o OnTheWay

\* The transcripts have been numbered from the start that was asked for, and the
\* next one goes on.
NumbersRun ==
  /\ number = asked + Len(Numbers)
  /\ \A i \in 1 .. Len(Numbers) : Numbers[i].number = asked + i - 1

RInv == NothingYet /\ ResultsFlow /\ NumbersRun

Sent == [kind : Kinds, number : Nat \cup {None}]

\* The queues hold kinds of results, and the second one an end mark.
LEMMA ResultTypes ==
  ASSUME TypeOK
  PROVE  /\ results \in Seq(Kinds) /\ Kept \in Seq(Kinds)
         /\ transcript_queue \in Seq(Kinds \cup {"end"})
         /\ Selected(Kinds, transcript_queue) \in Seq(Kinds)
         /\ delivered \in Seq(Sent) /\ SentKinds \in Seq(Kinds)
         /\ Len(SentKinds) = Len(delivered) /\ Len(delivered) \in Nat
         /\ Numbers \in Seq(Numbered)
<1>1. /\ results \in Seq(Kinds) /\ delivered \in Seq(Sent)
      /\ transcript_queue \in Seq(Kinds \cup {"end"})
  <2>1. Kinds \cup {"end"} = {"transcript", "mapping", "end"}
    BY DEF Kinds
  <2>2. QED
    BY <2>1 DEF TypeOK, Kinds, Sent
<1>2. Kept \in Seq(Kinds)
  BY <1>1, SelectedSeq DEF Kept
<1>3. Selected(Kinds, transcript_queue) \in Seq(Kinds)
  <2>1. Selected(Kinds, transcript_queue) \in Seq((Kinds \cup {"end"}) \cap Kinds)
    BY <1>1, SelectedSeq
  <2>2. (Kinds \cup {"end"}) \cap Kinds = Kinds
    OBVIOUS
  <2>3. QED
    BY <2>1, <2>2
<1>4. SentKinds \in Seq(Kinds) /\ Len(SentKinds) = Len(delivered) /\ Len(delivered) \in Nat
  <2>1. Len(delivered) \in Nat
    BY <1>1, LenProperties
  <2>2. \A i \in 1 .. Len(delivered) : delivered[i].kind \in Kinds
    <3>1. \A i \in 1 .. Len(delivered) : delivered[i] \in Sent
      BY <1>1, ElementOfSeq
    <3>2. QED
      BY <3>1 DEF Sent
  <2>3. SentKinds \in [1 .. Len(delivered) -> Kinds]
    BY <2>2 DEF SentKinds
  <2>4. QED
    BY <2>1, <2>3
<1>5. Numbers \in Seq(Numbered)
  <2>1. Numbers \in Seq(Sent \cap Numbered)
    BY <1>1, SelectedSeq DEF Numbers
  <2>2. Sent \cap Numbered = Numbered
    BY DEF Sent, Numbered, Kinds
  <2>3. QED
    BY <2>1, <2>2
<1>6. QED
  BY <1>1, <1>2, <1>3, <1>4, <1>5

\* A step that has nothing to do with the results.
Apart ==
  /\ UNCHANGED transcriptVars /\ task'["sender"] = task["sender"]
  /\ session'.state = "NEW" => session.state = "NEW"
  /\ task["sender"] = "none" => task'["audio"] = "none" /\ task'["receiver"] = "none"

LEMMA ApartKeeps ==
  ASSUME RInv, Apart
  PROVE  RInv'
<1> USE DEF transcriptVars
<1>1. NothingYet'
  BY DEF RInv, NothingYet, Apart
<1>2. ResultsFlow'
  BY DEF RInv, ResultsFlow, Apart, SentKinds, Kept, OnTheWay, AtHand
<1>3. NumbersRun'
  BY DEF RInv, NumbersRun, Apart, Numbers
<1>4. QED
  BY <1>1, <1>2, <1>3 DEF RInv

\* Every other step is apart.
LEMMA OthersApart ==
  ASSUME IInv, NothingYet, Next,
         \A e \in Texts : ~Start(e),
         \A kind \in Kinds : ~Result(kind),
         ~ProviderStopped, ~TakeResult, ~SendResult, ~CancelTask("sender")
  PROVE  Apart
<1> USE DEF inputVars, audioVars, transcriptVars, taskVars, runVars, Apart
<1>0. /\ task \in [Tasks -> {"none", "starting", "waiting", "sending", "done"}]
      /\ session \in Session
      /\ task["sender"] = "none" => task["audio"] = "none" /\ task["receiver"] = "none"
  BY DEF IInv, TypeOK, NothingYet
<1>1. ASSUME UNCHANGED <<session, task, transcriptVars>> PROVE Apart
  BY <1>0, <1>1
<1>2. ASSUME NEW kind, Raise(kind) PROVE Apart
  BY <1>1, <1>2 DEF Raise, UnchangedButInput
<1>3. ASSUME NEW why, Interrupt(why) PROVE Apart
  BY <1>1, <1>3 DEF Interrupt
<1>4. ASSUME NEW e \in Texts,
             RefuseText(e) \/ Start(e) \/ Meta(e) \/ Control(e) \/ Stop(e)
      PROVE  Apart
  <2>1. CASE RefuseText(e)
    BY <1>2, <2>1 DEF RefuseText
  <2>2. CASE Meta(e) \/ Control(e) \/ Stop(e)
    <3>1. UNCHANGED <<task, transcriptVars>>
      BY <2>2 DEF Meta, Control, Stop, UnchangedButInput
    <3>2. session' = AfterEvent(session, e) /\ e.type # "session.start"
      BY <2>2 DEF Meta, Control, Stop, Accepts
    <3>3. session'.state = "NEW" => session.state = "NEW"
      BY <1>0, <3>2 DEF AfterEvent, Session
    <3>4. QED
      BY <1>0, <3>1, <3>3
  <2>3. QED
    BY <1>4, <2>1, <2>2
<1>5. ASSUME NEW size \in ChunkSizes, RefuseBinary(size) \/ Binary(size)
      PROVE  Apart
  <2>1. CASE RefuseBinary(size)
    BY <1>2, <2>1 DEF RefuseBinary
  <2>2. CASE Binary(size)
    <3>1. UNCHANGED <<task, transcriptVars>> /\ session' = AfterBinary(session, size)
      BY <2>2 DEF Binary
    <3>2. session'.state = "NEW" => session.state = "NEW"
      BY <1>0, <3>1 DEF AfterBinary, Session
    <3>3. QED
      BY <1>0, <3>1, <3>2
  <2>3. QED
    BY <1>5, <2>1, <2>2
<1>6. CASE Disconnect \/ BinaryTimeout \/ CloseNormally \/ Interrupted
  BY <1>2, <1>6 DEF Disconnect, BinaryTimeout, CloseNormally, Interrupted
<1>7. CASE StopTimeout \/ GroupAborts \/ RequestCancelled
  BY <1>3, <1>7 DEF StopTimeout, GroupAborts, RequestCancelled
<1>8. CASE Respond \/ StopProvider \/ SenderStopped \/ Confirm \/ WatcherRaises
  BY <1>1, <1>8 DEF Respond, StopProvider, SenderStopped, Confirm, WatcherRaises,
                    UnchangedButInput
<1>9. CASE SendErrorAndClose \/ CleanupCancels \/ CleanupDrains
  BY <1>1, <1>9 DEF SendErrorAndClose, CleanupCancels, CleanupDrains, UnchangedButInput
<1>10. CASE CleanupCloses
  <2>1. UNCHANGED <<task, transcriptVars>> /\ session' = ClosedSession(session)
    BY <1>10 DEF CleanupCloses, UnchangedButInput
  <2>2. session'.state # "NEW"
    BY <1>0, <2>1 DEF ClosedSession, Session
  <2>3. QED
    BY <1>0, <2>1, <2>2
<1>11. ASSUME UNCHANGED <<session, transcriptVars>>,
              task'["sender"] = task["sender"],
              task["sender"] # "none"
       PROVE  Apart
  BY <1>11
<1>12. ASSUME NEW t \in {"audio", "receiver"}, task[t] # "none",
              UNCHANGED <<session, transcriptVars>>, task'["sender"] = task["sender"]
       PROVE  Apart
  BY <1>0, <1>11, <1>12
<1>13. CASE ProviderStarts \/ TakeChunk \/ AudioEnds \/ SendChunk
  <2>1. UNCHANGED <<session, transcriptVars>> /\ task["audio"] # "none"
    BY <1>13 DEF ProviderStarts, TakeChunk, AudioEnds, SendChunk, AudioUnchanged, At
  <2>2. task'["sender"] = task["sender"]
    BY <1>0, <1>13 DEF ProviderStarts, TakeChunk, AudioEnds, SendChunk, Move, Tasks
  <2>3. QED
    BY <1>12, <2>1, <2>2
<1>14. CASE GenerateContext \/ UpdateContext \/ ContextUpdated
  <2>1. UNCHANGED <<session, transcriptVars>>
    BY <1>14 DEF GenerateContext, UpdateContext, ContextUpdated, ContextUnchanged
  <2>2. \A t \in {"sender", "audio", "receiver"} : task'[t] = task[t]
    BY <1>0, <1>14 DEF GenerateContext, UpdateContext, ContextUpdated, Move, Tasks
  <2>3. QED
    BY <1>0, <2>1, <2>2
<1>15. CASE ReceiverEnds
  <2>1. UNCHANGED <<session, transcriptVars>> /\ task["receiver"] # "none"
    BY <1>15 DEF ReceiverEnds, ReceiverUnchanged, At
  <2>2. task'["sender"] = task["sender"]
    BY <1>0, <1>15 DEF ReceiverEnds, Move, Tasks
  <2>3. QED
    BY <1>12, <2>1, <2>2
<1>16. ASSUME NEW t \in Tasks, CancelTask(t)
       PROVE  Apart
  <2>1. t # "sender" /\ UNCHANGED <<session, transcriptVars>> /\ ~Finished(t)
        /\ task' = [task EXCEPT ![t] = "done"]
    BY <1>16 DEF CancelTask, Move
  <2>2. task'["sender"] = task["sender"]
    BY <1>0, <2>1 DEF Tasks
  <2>3. CASE t = "context"
    <3>1. task'["audio"] = task["audio"] /\ task'["receiver"] = task["receiver"]
      BY <1>0, <2>1, <2>3 DEF Tasks
    <3>2. QED
      BY <1>0, <2>1, <2>2, <3>1
  <2>4. CASE t \in {"audio", "receiver"}
    BY <1>12, <2>1, <2>2, <2>4 DEF Finished
  <2>5. QED
    BY <2>1, <2>3, <2>4 DEF Tasks
<1>17. CASE Done
  BY <1>1, <1>17 DEF Done, vars
<1>18. QED
  BY <1>4, <1>5, <1>6, <1>7, <1>8, <1>9, <1>10, <1>13, <1>14, <1>15, <1>16, <1>17
     DEF Next, Client, Run, Background, Kinds

\* session.start finds a session that has forwarded nothing.
LEMMA StartKeepsResults ==
  ASSUME IInv, RInv, NEW e \in Texts, Start(e)
  PROVE  RInv'
<1>1. /\ session.state = "NEW" /\ session \in Session /\ e.type = "session.start"
      /\ session' = AfterEvent(session, e)
  BY DEF Start, Accepts, EventError, IInv, TypeOK
<1>2. session'.state = "READY"
  BY <1>1 DEF AfterEvent, Session
<1>3. /\ task["sender"] = "none" /\ task \in [Tasks -> {"none", "starting", "waiting", "sending", "done"}]
      /\ results = << >> /\ delivered = << >> /\ transcript_queue = << >>
  BY <1>1 DEF RInv, NothingYet, IInv, TypeOK
<1>4. /\ results' = << >> /\ delivered' = << >> /\ transcript_queue' = << >>
      /\ task'["sender"] = "waiting"
  BY <1>3 DEF Start, Tasks
<1>5. NothingYet'
  BY <1>2, <1>4 DEF NothingYet
<1>6. Kept' = << >> /\ SentKinds' = << >> /\ Numbers' = << >> /\ OnTheWay' = << >>
  <2>1. \A X : Selected(X, << >>) = << >>
    BY SelectedOfEmpty
  <2>2. << >> \in Seq(Kinds) /\ << >> \o << >> = << >> /\ Len(<< >>) = 0
    OBVIOUS
  <2>3. SentKinds' = << >>
    BY <1>4, <2>2 DEF SentKinds
  <2>4. Kept' = << >> /\ Numbers' = << >>
    BY <1>4, <2>1 DEF Kept, Numbers
  <2>5. OnTheWay' = << >>
    BY <1>4, <2>1, <2>2 DEF OnTheWay, AtHand
  <2>6. QED
    BY <2>3, <2>4, <2>5
<1>7. IsPrefix(<< >>, << >>) /\ << >> \o << >> = << >> /\ Len(<< >>) = 0
  BY DEF IsPrefix
<1>8. ResultsFlow'
  BY <1>6, <1>7 DEF ResultsFlow
<1>9. NumbersRun'
  <2>1. number' = asked' /\ asked' \in Nat
    BY <1>1, TextFields DEF Start, FirstNumber
  <2>2. Len(Numbers') = 0
    BY <1>6, <1>7
  <2>3. number' = asked' + Len(Numbers')
    <3>1. \A n \in Nat : n = n + 0
      OBVIOUS
    <3>2. QED
      BY <2>1, <2>2, <3>1
  <2>4. \A i \in 1 .. Len(Numbers') : FALSE
    BY <2>2
  <2>5. QED
    BY <2>3, <2>4 DEF NumbersRun
<1>10. QED
  BY <1>5, <1>8, <1>9 DEF RInv

LEMMA WayTypes ==
  ASSUME IInv
  PROVE  AtHand \in Seq(Kinds) /\ OnTheWay \in Seq(Kinds)
<1>1. CASE task["sender"] = "sending"
  <2>1. current \in Kinds
    BY <1>1 DEF IInv, TaskOK, Kinds
  <2>2. <<current>> \in Seq(Kinds)
    BY <2>1
  <2>3. AtHand = <<current>>
    BY <1>1 DEF AtHand
  <2>4. Selected(Kinds, transcript_queue) \in Seq(Kinds)
    BY ResultTypes DEF IInv
  <2>5. QED
    BY <2>2, <2>3, <2>4, ConcatProperties DEF OnTheWay
<1>2. CASE task["sender"] # "sending"
  <2>1. AtHand = << >> /\ << >> \in Seq(Kinds)
    BY <1>2 DEF AtHand
  <2>2. Selected(Kinds, transcript_queue) \in Seq(Kinds)
    BY ResultTypes DEF IInv
  <2>3. QED
    BY <2>1, <2>2, ConcatProperties DEF OnTheWay
<1>3. QED
  BY <1>1, <1>2

\* A result goes behind what is on its way, or it is a mapping of a resumed
\* session, and then it is not kept.
LEMMA ResultKeepsResults ==
  ASSUME IInv, RInv, NEW kind \in Kinds, Result(kind)
  PROVE  RInv'
<1>1. /\ TypeOK /\ task["receiver"] = "waiting" /\ results' = Append(results, kind)
      /\ transcript_queue' = IF Forwards(kind) THEN Append(transcript_queue, kind)
                             ELSE transcript_queue
      /\ UNCHANGED <<current, number, asked, resumed, delivered, task, session>>
  BY DEF Result, ReceiverUnchanged, inputVars, At, IInv
<1>2. /\ results \in Seq(Kinds) /\ Kept \in Seq(Kinds) /\ SentKinds \in Seq(Kinds)
      /\ transcript_queue \in Seq(Kinds \cup {"end"})
      /\ Selected(Kinds, transcript_queue) \in Seq(Kinds)
  BY <1>1, ResultTypes
<1>3. task["sender"] # "none"
  BY <1>1 DEF RInv, NothingYet
<1>4. NothingYet'
  BY <1>1, <1>3 DEF RInv, NothingYet
<1>5. Kept' = IF Forwards(kind) THEN Append(Kept, kind) ELSE Kept
  <2>1. Selected({"transcript"}, Append(results, kind)) =
          IF kind \in {"transcript"} THEN Append(Selected({"transcript"}, results), kind)
          ELSE Selected({"transcript"}, results)
    BY <1>2, SelectedOfAppend
  <2>2. resumed \in {"no", "yes"}
    BY <1>1 DEF TypeOK
  <2>3. QED
    BY <1>1, <2>1, <2>2 DEF Kept, Forwards
<1>6. SentKinds' = SentKinds /\ AtHand' = AtHand
  BY <1>1 DEF SentKinds, AtHand
<1>7. OnTheWay' = IF Forwards(kind) THEN Append(OnTheWay, kind) ELSE OnTheWay
  <2>1. Selected(Kinds, Append(transcript_queue, kind)) =
          Append(Selected(Kinds, transcript_queue), kind)
    <3> DEFINE S == Kinds \cup {"end"}
    <3>1. kind \in S /\ transcript_queue \in Seq(S)
      BY <1>2
    <3> HIDE DEF S
    <3>2. Selected(Kinds, Append(transcript_queue, kind)) =
            IF kind \in Kinds THEN Append(Selected(Kinds, transcript_queue), kind)
            ELSE Selected(Kinds, transcript_queue)
      BY <3>1, SelectedOfAppend
    <3>3. QED
      BY <3>2
  <2>2. AtHand \in Seq(Kinds)
    BY WayTypes
  <2>3. AtHand \o Append(Selected(Kinds, transcript_queue), kind)
        = Append(AtHand \o Selected(Kinds, transcript_queue), kind)
    BY <1>2, <2>2, AppendToConcat
  <2>4. QED
    BY <1>1, <1>6, <2>1, <2>3 DEF OnTheWay
<1>8. ResultsFlow'
  <2>1. IsPrefix(SentKinds, Kept')
    BY <1>2, <1>5, PrefixOfAppend DEF RInv, ResultsFlow
  <2>2. ASSUME task["sender"] # "done"
        PROVE  Kept' = SentKinds \o OnTheWay'
    <3>1. Kept = SentKinds \o OnTheWay
      BY <2>2 DEF RInv, ResultsFlow
    <3>2. OnTheWay \in Seq(Kinds)
      BY WayTypes
    <3>3. SentKinds \o Append(OnTheWay, kind) = Append(SentKinds \o OnTheWay, kind)
      BY <1>2, <3>2, AppendToConcat
    <3>4. QED
      BY <1>5, <1>7, <3>1, <3>3
  <2>3. QED
    BY <1>1, <1>6, <2>1, <2>2 DEF ResultsFlow
<1>9. NumbersRun'
  BY <1>1 DEF RInv, NumbersRun, Numbers
<1>10. QED
  BY <1>4, <1>8, <1>9 DEF RInv

\* The end mark is no result.
LEMMA ProviderStoppedKeepsResults ==
  ASSUME IInv, RInv, ProviderStopped
  PROVE  RInv'
<1>1. /\ TypeOK /\ task["receiver"] = "done"
      /\ UNCHANGED <<current, number, asked, resumed, results, delivered, task, session>>
      /\ \/ UNCHANGED transcript_queue
         \/ transcript_queue' = Append(transcript_queue, "end")
  BY DEF ProviderStopped, inputVars, IInv
<1>2. task["sender"] # "none"
  BY <1>1 DEF RInv, NothingYet
<1>3. NothingYet'
  BY <1>1, <1>2 DEF RInv, NothingYet
<1>4. Selected(Kinds, transcript_queue') = Selected(Kinds, transcript_queue)
  <2>1. transcript_queue \in Seq(Kinds \cup {"end"}) /\ "end" \notin Kinds
    BY <1>1, ResultTypes DEF Kinds
  <2>2. Selected(Kinds, Append(transcript_queue, "end")) = Selected(Kinds, transcript_queue)
    BY <2>1, SelectedOfAppend
  <2>3. QED
    BY <1>1, <2>2
<1>5. OnTheWay' = OnTheWay
  BY <1>1, <1>4 DEF OnTheWay, AtHand
<1>6. Kept' = Kept /\ SentKinds' = SentKinds
  BY <1>1 DEF Kept, SentKinds
<1>7. ResultsFlow' /\ NumbersRun'
  BY <1>1, <1>5, <1>6 DEF RInv, ResultsFlow, NumbersRun, Numbers
<1>8. QED
  BY <1>3, <1>7 DEF RInv

\* The sender takes what is next on its way, or the end mark, and ends.
LEMMA TakeResultKeepsResults ==
  ASSUME IInv, RInv, TakeResult
  PROVE  RInv'
<1> DEFINE head == Head(transcript_queue)
<1>1. /\ TypeOK /\ task["sender"] = "waiting" /\ transcript_queue # << >>
      /\ current' = head /\ transcript_queue' = Tail(transcript_queue)
      /\ task' = [task EXCEPT !["sender"] = IF head = "end" THEN "done" ELSE "sending"]
      /\ UNCHANGED <<number, asked, resumed, results, delivered, session>>
  BY DEF TakeResult, At, Move, SenderUnchanged, inputVars, IInv
<1>2. task'["sender"] = IF head = "end" THEN "done" ELSE "sending"
  BY <1>1 DEF TypeOK, Tasks
<1>3. /\ transcript_queue \in Seq(Kinds \cup {"end"}) /\ "end" \notin Kinds
      /\ head \in Kinds \cup {"end"}
  <2>1. transcript_queue \in Seq(Kinds \cup {"end"}) /\ "end" \notin Kinds
    BY <1>1, ResultTypes DEF Kinds
  <2>2. QED
    BY <1>1, <2>1, HeadTailProperties
<1>4. Selected(Kinds, transcript_queue) =
        IF head \in Kinds THEN <<head>> \o Selected(Kinds, Tail(transcript_queue))
        ELSE Selected(Kinds, Tail(transcript_queue))
  BY <1>1, <1>3, SelectedOfTail
<1>5. Selected(Kinds, Tail(transcript_queue)) \in Seq(Kinds)
  <2>1. Tail(transcript_queue) \in Seq(Kinds \cup {"end"})
    BY <1>1, <1>3, HeadTailProperties
  <2>2. Selected(Kinds, Tail(transcript_queue)) \in Seq((Kinds \cup {"end"}) \cap Kinds)
    BY <2>1, SelectedSeq
  <2>3. (Kinds \cup {"end"}) \cap Kinds = Kinds
    OBVIOUS
  <2>4. QED
    BY <2>2, <2>3
<1> HIDE DEF head
<1>6. NothingYet'
  BY <1>1, <1>2 DEF RInv, NothingYet
<1>7. Kept' = Kept /\ SentKinds' = SentKinds
  BY <1>1 DEF Kept, SentKinds
<1>8. ASSUME head # "end"
      PROVE  OnTheWay' = OnTheWay
  <2>1. Selected(Kinds, transcript_queue) = <<head>> \o Selected(Kinds, Tail(transcript_queue))
    BY <1>3, <1>4, <1>8
  <2>2. AtHand = << >> /\ AtHand' = <<head>>
    BY <1>1, <1>2, <1>8 DEF AtHand
  <2>3. OnTheWay' = <<head>> \o Selected(Kinds, Tail(transcript_queue))
    BY <1>1, <2>2 DEF OnTheWay
  <2>4. OnTheWay = Selected(Kinds, transcript_queue)
    <3>1. Selected(Kinds, transcript_queue) \in Seq(Kinds)
      BY <1>1, ResultTypes
    <3>2. QED
      BY <2>2, <3>1, ConcatEmptySeq DEF OnTheWay
  <2>5. QED
    BY <2>1, <2>3, <2>4
<1>9. ResultsFlow'
  BY <1>1, <1>2, <1>7, <1>8 DEF RInv, ResultsFlow
<1>10. NumbersRun'
  BY <1>1 DEF RInv, NumbersRun, Numbers
<1>11. QED
  BY <1>6, <1>9, <1>10 DEF RInv

\* What is sent was next on its way, and a transcript takes the next number.
LEMMA SendResultKeepsResults ==
  ASSUME IInv, RInv, SendResult
  PROVE  RInv'
<1> DEFINE queue == Selected(Kinds, transcript_queue)
           num   == IF current = "mapping" THEN None ELSE number
           sent  == [kind |-> current, number |-> num]
<1>1. /\ TypeOK /\ task["sender"] = "sending" /\ current \in Kinds
      /\ UNCHANGED <<transcript_queue, asked, resumed, results, session>>
      /\ \A t \in {"audio", "receiver"} : task'[t] = task[t]
      /\ task'["sender"] \in {"waiting", "done"}
  BY DEF SendResult, At, Move, SenderFails, SenderUnchanged, inputVars, IInv, TypeOK, Tasks,
         TaskOK, Kinds
<1>2. /\ delivered \in Seq(Sent) /\ Len(delivered) \in Nat /\ SentKinds \in Seq(Kinds)
      /\ Len(SentKinds) = Len(delivered) /\ Kept \in Seq(Kinds) /\ queue \in Seq(Kinds)
      /\ Numbers \in Seq(Numbered)
  BY <1>1, ResultTypes
<1>3. Kept = SentKinds \o (<<current>> \o queue)
  BY <1>1 DEF RInv, ResultsFlow, OnTheWay, AtHand
<1>4. NothingYet'
  BY <1>1 DEF RInv, NothingYet
<1>5. Kept' = Kept
  BY <1>1 DEF Kept
<1>6. CASE UNCHANGED <<delivered, number>> /\ task'["sender"] = "done"
  <2>1. SentKinds' = SentKinds /\ Numbers' = Numbers
    BY <1>6 DEF SentKinds, Numbers
  <2>2. ResultsFlow' /\ NumbersRun'
    BY <1>1, <1>5, <1>6, <2>1 DEF RInv, ResultsFlow, NumbersRun
  <2>3. QED
    BY <1>4, <2>2 DEF RInv
<1>7. CASE /\ delivered' = Append(delivered, sent) /\ task'["sender"] = "waiting"
           /\ number' = IF current = "mapping" THEN number ELSE number + 1
  <2>1. number \in Nat /\ sent \in Sent
    BY <1>1 DEF TypeOK, Sent
  <2>2. /\ Len(delivered') = Len(delivered) + 1
        /\ \A i \in 1 .. Len(delivered) : delivered'[i] = delivered[i]
        /\ delivered'[Len(delivered) + 1] = sent
    BY <1>2, <1>7, <2>1, AppendProperties
  <2>3. SentKinds' = Append(SentKinds, current)
    <3>1. /\ Append(SentKinds, current) \in Seq(Kinds)
          /\ Len(Append(SentKinds, current)) = Len(delivered) + 1
          /\ \A i \in 1 .. Len(delivered) : Append(SentKinds, current)[i] = SentKinds[i]
          /\ Append(SentKinds, current)[Len(delivered) + 1] = current
      BY <1>1, <1>2, AppendProperties
    <3>2. SentKinds' = [i \in 1 .. Len(delivered) + 1 |-> delivered'[i].kind]
      BY <2>2 DEF SentKinds
    <3>3. \A i \in 1 .. Len(delivered) : SentKinds[i] = delivered[i].kind
      BY DEF SentKinds
    <3>4. sent.kind = current
      OBVIOUS
    <3> HIDE DEF sent
    <3>5. \A i \in 1 .. Len(delivered) + 1 : delivered'[i].kind = Append(SentKinds, current)[i]
      <4>1. \A i \in 1 .. Len(delivered) + 1 : i \in 1 .. Len(delivered) \/ i = Len(delivered) + 1
        BY <1>2
      <4>2. QED
        BY <2>2, <3>1, <3>3, <3>4, <4>1
    <3>6. Append(SentKinds, current)
            = [i \in 1 .. Len(delivered) + 1 |-> Append(SentKinds, current)[i]]
      <4> DEFINE s == Append(SentKinds, current)
      <4>1. s \in Seq(Kinds) /\ Len(s) = Len(delivered) + 1
        BY <3>1
      <4> HIDE DEF s
      <4>2. s = [i \in 1 .. Len(s) |-> s[i]]
        BY <4>1
      <4>3. QED
        BY <4>1, <4>2 DEF s
    <3>7. QED
      BY <3>2, <3>5, <3>6
  <2>4. OnTheWay' = queue
    <3>1. AtHand' = << >>
      BY <1>7 DEF AtHand
    <3>2. << >> \o queue = queue
      BY <1>2, ConcatEmptySeq
    <3>3. OnTheWay' = << >> \o queue
      BY <1>1, <3>1 DEF OnTheWay
    <3>4. QED
      BY <3>2, <3>3
  <2>5. Append(SentKinds, current) \o queue = Kept
    <3>1. <<current>> \in Seq(Kinds)
      BY <1>1
    <3>2. Append(SentKinds, current) = SentKinds \o <<current>>
      BY <1>1, <1>2, AppendIsConcat
    <3>3. (SentKinds \o <<current>>) \o queue = SentKinds \o (<<current>> \o queue)
      <4> DEFINE one == <<current>>
                 before == SentKinds
      <4>1. one \in Seq(Kinds) /\ before \in Seq(Kinds)
        BY <1>2, <3>1
      <4> HIDE DEF one, before
      <4>2. Joined(Joined(before, one), queue) = Joined(before, Joined(one, queue))
        BY <1>2, <4>1, JoinedFromEither
      <4>3. QED
        BY ONLY <4>2 DEF Joined, one, before
    <3>4. QED
      BY <1>3, <3>2, <3>3
  <2>6. IsPrefix(Append(SentKinds, current), Kept)
    <3>1. Append(SentKinds, current) \in Seq(Kinds)
      BY <1>1, <1>2, AppendProperties
    <3>2. IsPrefix(Append(SentKinds, current), Append(SentKinds, current) \o queue)
      BY <1>2, <3>1, PrefixOfConcat
    <3>3. QED
      BY <2>5, <3>2
  <2>7. ResultsFlow'
    BY <1>5, <2>3, <2>4, <2>5, <2>6 DEF ResultsFlow
  <2>8. NumbersRun'
    <3>1. Selected(Numbered, Append(delivered, sent)) =
            IF sent \in Numbered THEN Append(Numbers, sent) ELSE Numbers
      BY <1>2, <2>1, SelectedOfAppend DEF Numbers
    <3>2. sent \in Numbered <=> current # "mapping"
      BY <1>1, <2>1 DEF Numbered, Kinds
    <3>3. Numbers' = IF current = "mapping" THEN Numbers ELSE Append(Numbers, sent)
      BY <1>7, <3>1, <3>2 DEF Numbers
    <3>4. /\ number = asked + Len(Numbers) /\ asked \in Nat /\ asked' = asked
          /\ \A i \in 1 .. Len(Numbers) : Numbers[i].number = asked + i - 1
      BY <1>1 DEF RInv, NumbersRun, TypeOK
    <3>5. CASE current = "mapping"
      BY <1>7, <3>3, <3>4, <3>5 DEF NumbersRun
    <3>6. CASE current # "mapping"
      <4> DEFINE n == Len(Numbers)
      <4>1. sent \in Numbered /\ sent.number = number /\ number' = number + 1
        BY <1>7, <3>2, <3>6
      <4>2. /\ n \in Nat /\ Len(Append(Numbers, sent)) = n + 1
            /\ \A i \in 1 .. n : Append(Numbers, sent)[i] = Numbers[i]
            /\ Append(Numbers, sent)[n + 1] = sent
        BY <1>2, <4>1, AppendProperties, LenProperties
      <4>3. Numbers' = Append(Numbers, sent)
        BY <3>3, <3>6
      <4>4. ASSUME NEW i \in 1 .. n + 1
            PROVE  Append(Numbers, sent)[i].number = asked + i - 1
        <5>1. CASE i \in 1 .. n
          BY <3>4, <4>2, <5>1
        <5>2. CASE i = n + 1
          <6>1. Append(Numbers, sent)[i].number = number
            BY <4>1, <4>2, <5>2
          <6>2. number = asked + i - 1
            BY <3>4, <4>2, <5>2
          <6>3. QED
            BY <6>1, <6>2
        <5>3. QED
          BY <4>2, <5>1, <5>2
      <4>5. number' = asked + (n + 1)
        BY <3>4, <4>1, <4>2
      <4>6. QED
        BY <3>4, <4>2, <4>3, <4>4, <4>5 DEF NumbersRun
    <3>7. QED
      BY <3>5, <3>6
  <2>9. QED
    BY <1>4, <2>7, <2>8 DEF RInv
<1>8. QED
  <2>1. \/ UNCHANGED <<delivered, number>> /\ task'["sender"] = "done"
        \/ /\ delivered' = Append(delivered, sent) /\ task'["sender"] = "waiting"
           /\ number' = IF current = "mapping" THEN number ELSE number + 1
    BY DEF SendResult, Move, SenderFails, IInv, TypeOK, Tasks
  <2>2. QED
    BY <1>6, <1>7, <2>1

\* A cancelled sender sends nothing more.
LEMMA CancelSenderKeepsResults ==
  ASSUME IInv, RInv, CancelTask("sender")
  PROVE  RInv'
<1>1. /\ task'["sender"] = "done" /\ UNCHANGED transcriptVars /\ session' = session
  BY DEF CancelTask, Move, IInv, TypeOK, Tasks, inputVars
<1>2. task["sender"] # "none"
  BY DEF CancelTask, Finished
<1>3. NothingYet'
  BY <1>1, <1>2 DEF RInv, NothingYet
<1>4. ResultsFlow' /\ NumbersRun'
  BY <1>1 DEF RInv, ResultsFlow, NumbersRun, Numbers, Kept, SentKinds, transcriptVars
<1>5. QED
  BY <1>3, <1>4 DEF RInv

LEMMA ResultsInit == Init => RInv
<1> SUFFICES ASSUME Init PROVE RInv
  OBVIOUS
<1>1. /\ task["sender"] = "none" /\ task["audio"] = "none" /\ task["receiver"] = "none"
      /\ results = << >> /\ delivered = << >> /\ transcript_queue = << >> /\ resumed = "no"
      /\ number = 0 /\ asked = 0
  BY DEF Init, Tasks
<1>2. \A X : Selected(X, << >>) = << >>
  BY SelectedOfEmpty
<1>3. << >> \o << >> = << >> /\ Len(<< >>) = 0 /\ IsPrefix(<< >>, << >>)
  BY DEF IsPrefix
<1>4. Kept = << >> /\ SentKinds = << >> /\ Numbers = << >> /\ OnTheWay = << >>
  BY <1>1, <1>2, <1>3 DEF Kept, SentKinds, Numbers, OnTheWay, AtHand
<1>5. NothingYet
  BY <1>1 DEF NothingYet
<1>6. ResultsFlow /\ NumbersRun
  BY <1>1, <1>3, <1>4 DEF ResultsFlow, NumbersRun
<1>7. QED
  BY <1>5, <1>6 DEF RInv

LEMMA ResultsStep == IInv /\ RInv /\ [Next]_vars => RInv'
<1> SUFFICES ASSUME IInv, RInv, [Next]_vars PROVE RInv'
  OBVIOUS
<1>1. CASE UNCHANGED vars
  <2>1. UNCHANGED <<session, task, transcriptVars>>
    BY <1>1 DEF vars, inputVars, taskVars
  <2>2. Apart
    BY <2>1 DEF Apart, RInv, NothingYet
  <2>3. QED
    BY <2>2, ApartKeeps
<1>2. ASSUME NEW e \in Texts, Start(e) PROVE RInv'
  BY <1>2, StartKeepsResults
<1>3. ASSUME NEW kind \in Kinds, Result(kind) PROVE RInv'
  BY <1>3, ResultKeepsResults
<1>4. CASE Next /\ /\ \A e \in Texts : ~Start(e)
                   /\ \A kind \in Kinds : ~Result(kind)
                   /\ ~ProviderStopped /\ ~TakeResult /\ ~SendResult
                   /\ ~CancelTask("sender")
  BY <1>4, OthersApart, ApartKeeps DEF RInv
<1>5. QED
  BY <1>1, <1>2, <1>3, <1>4, ProviderStoppedKeepsResults, TakeResultKeepsResults,
     SendResultKeepsResults, CancelSenderKeepsResults

\* The client gets the provider's results in their order, without the mappings
\* when the session is resumed, and transcripts are numbered consecutively from
\* the transcript_sequence_start that session.start asked for: what is kept of
\* the results is what has been sent, what the sender has at hand and what is in
\* the queue, until the sender ends.
THEOREM ResultsAlwaysInOrder == Spec => []ResultsInOrder
<1>1. RInv => ResultsInOrder
  BY DEF RInv, ResultsFlow, NumbersRun, ResultsInOrder, SentKinds, Numbers, Numbered
<1>2. QED
  BY <1>1, ResultsInit, ResultsStep, Invariance, PTL DEF Spec

-----------------------------------------------------------------------------
\* Refinement.

\* What has been confirmed has been stopped, and nothing is taken or sent then.
LEMMA EndedMeansStopped ==
  ASSUME IInv, final = "ended"
  PROVE  /\ relayed = accepted /\ task["audio"] = "done"
         /\ main \notin {"receive", "respond"}
BY DEF IInv, FinishOK

\* The connection relays audio as AudioRelay promises: a chunk that is not a
\* repetition is taken, a chunk that has been sent is relayed, a confirmed
\* session.stop ends the session, and every other step leaves those alone.
THEOREM ImplementsRelay == Spec => RelaySpec
<1> DEFINE outcome == IF final = "ended" THEN "ended" ELSE "open"
<1>1. Init => Relay!Init
  BY DEF Init, Relay!Init
<1>2. IInv /\ [Next]_vars => [Relay!Next]_<<accepted, relayed, outcome>>
  <2> SUFFICES ASSUME IInv, [Next]_vars,
                      ~(UNCHANGED <<accepted, relayed, outcome>>)
               PROVE  Relay!Next
    OBVIOUS
  <2>1. Next
    BY DEF vars, inputVars, audioVars, runVars
  <2>2. ASSUME NEW size \in ChunkSizes, Binary(size)
        PROVE  Relay!Next
    <3>1. final = "none" /\ final' = final /\ relayed' = relayed
      <4>1. main = "receive" /\ UNCHANGED <<relayed, final>>
        BY <2>2 DEF Binary, Runs
      <4>2. QED
        BY <4>1, EndedMeansStopped DEF IInv, TypeOK
    <3>2. CASE ~IsNextChunk(session)
      <4>1. UNCHANGED accepted
        BY <2>2, <3>2 DEF Binary
      <4>2. QED
        BY <3>1, <4>1
    <3>3. CASE IsNextChunk(session)
      <4> DEFINE chunk == [sequence |-> session.pending, size |-> size]
      <4>1. accepted' = Append(accepted, chunk) /\ session.pending = session.next
        BY <2>2, <3>3 DEF Binary, IsNextChunk
      <4>2. chunk \in Chunk
        <5>1. /\ ExpectsBinary(session) /\ size # 0 /\ ~(size > MAX_AUDIO_CHUNK_SIZE)
          BY <2>2 DEF Binary, BinaryError
        <5>2. size \in 1 .. MAX_AUDIO_CHUNK_SIZE
          BY <5>1, ConnectionAssumption, ChunkAssumption
        <5>3. session.pending \in 0 .. MaxSequence
          BY <5>1 DEF IInv, SessionOK
        <5>4. QED
          BY <5>2, <5>3 DEF Chunk
      <4>3. accepted = << >> \/ chunk.sequence = accepted[Len(accepted)].sequence + 1
        BY <4>1 DEF IInv, SessionOK, Last
      <4>4. QED
        BY <3>1, <4>1, <4>2, <4>3 DEF Relay!Next, Relay!Take, Relay!Follows
    <3>4. QED
      BY <3>2, <3>3
  <2>3. CASE SendChunk
    <3>1. /\ task["audio"] = "sending" /\ UNCHANGED <<accepted, final>>
          /\ \/ relayed' = Append(relayed, in_flight[1])
             \/ UNCHANGED relayed
      BY <2>3 DEF SendChunk, At, AudioUnchanged, inputVars, runVars
    <3>2. relayed' = Append(relayed, in_flight[1])
      BY <3>1
    <3>3. final # "ended"
      BY <3>1, EndedMeansStopped
    <3>4. accepted = (relayed \o in_flight) \o audio_queue /\ Len(in_flight) = 1
      BY <3>1 DEF IInv, FlowOK, TaskOK, OwnTasks, Finished
    <3>5. /\ relayed \in Seq(Chunk) /\ in_flight \in Seq(Chunk)
          /\ audio_queue \in Seq(Chunk)
      BY DEF IInv, TypeOK
    <3>6. Len(relayed) < Len(accepted) /\ accepted[Len(relayed) + 1] = in_flight[1]
      <4> DEFINE sent == relayed \o in_flight
      <4>1. /\ sent \in Seq(Chunk) /\ Len(sent) = Len(relayed) + 1
            /\ Len(relayed) \in Nat /\ Len(audio_queue) \in Nat
            /\ sent[Len(relayed) + 1] = in_flight[1]
        <5>1. Len(relayed) \in Nat /\ Len(audio_queue) \in Nat
          BY <3>5, LenProperties
        <5>2. /\ sent \in Seq(Chunk) /\ Len(sent) = Len(relayed) + Len(in_flight)
              /\ \A i \in 1 .. Len(relayed) + Len(in_flight) :
                   sent[i] = IF i <= Len(relayed) THEN relayed[i]
                             ELSE in_flight[i - Len(relayed)]
          BY <3>5, ConcatProperties
        <5> HIDE DEF sent
        <5>3. /\ Len(relayed) + 1 \in 1 .. Len(relayed) + Len(in_flight)
              /\ (Len(relayed) + 1) - Len(relayed) = 1 /\ ~(Len(relayed) + 1 <= Len(relayed))
          BY <3>4, <5>1
        <5>4. QED
          BY <3>4, <5>1, <5>2, <5>3
      <4> HIDE DEF sent
      <4>2. /\ Len(sent \o audio_queue) = Len(relayed) + 1 + Len(audio_queue)
            /\ (sent \o audio_queue)[Len(relayed) + 1] = sent[Len(relayed) + 1]
        <5>1. /\ Len(sent \o audio_queue) = Len(sent) + Len(audio_queue)
              /\ \A i \in 1 .. Len(sent) + Len(audio_queue) :
                   (sent \o audio_queue)[i] = IF i <= Len(sent) THEN sent[i]
                                              ELSE audio_queue[i - Len(sent)]
          BY <3>5, <4>1, ConcatProperties
        <5>2. /\ Len(relayed) + 1 \in 1 .. Len(sent) + Len(audio_queue)
              /\ Len(relayed) + 1 <= Len(sent)
          BY <4>1
        <5>3. QED
          BY <4>1, <5>1, <5>2
      <4>3. accepted = sent \o audio_queue
        BY <3>4 DEF sent
      <4>4. QED
        BY <4>1, <4>2, <4>3
    <3>7. QED
      BY <3>1, <3>2, <3>3, <3>6 DEF Relay!Next, Relay!Relay
  <2>4. CASE Confirm
    <3>1. /\ main = "confirm" /\ UNCHANGED <<accepted, relayed>>
          /\ final' = "ended" \/ final' = final
      BY <2>4 DEF Confirm, Runs, inputVars, audioVars
    <3>2. final # "ended" /\ final' = "ended"
      BY <3>1
    <3>3. relayed = accepted
      BY <3>1 DEF IInv, FinishOK
    <3>4. QED
      BY <3>1, <3>2, <3>3 DEF Relay!Next, Relay!End
  <2>5. CASE /\ \A size \in ChunkSizes : ~Binary(size)
             /\ ~SendChunk /\ ~Confirm
    BY <2>1, <2>5, AudioLeftAlone
  <2>6. QED
    BY <2>2, <2>3, <2>4, <2>5
<1> HIDE DEF outcome
<1>3. QED
  BY <1>1, <1>2, Invariance, PTL DEF Spec, RelaySpec, Relay!Spec, outcome
==============================================================================
