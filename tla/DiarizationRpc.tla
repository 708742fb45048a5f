--------------------------- MODULE DiarizationRpc ---------------------------
(***************************************************************************)
(* How the connections of one inference container share the diarization    *)
(* worker process: InferenceRuntime._call_worker, _rpc, _read_response and *)
(* the release of a session, with the cancellations that the connection    *)
(* handler and the drain timer of session.stop send to the ingest task     *)
(* (src/meety_ai/modal_app/stt/pipeline.py).                               *)
(*                                                                         *)
(* A call runs in a thread of its own: it writes a line to the worker and  *)
(* reads the next line the worker writes.  Cancelling an asyncio task ends *)
(* what the task awaits; it does not end a thread.                         *)
(***************************************************************************)
EXTENDS Integers, SequencesExt

CONSTANTS
  Connections,
  MaxChunks     \* bound of the model: chunks scored in one session

ASSUME RpcAssumption == MaxChunks \in Nat

VARIABLES
  ingest,     \* where the ingest task of each connection is
  handler,    \* where the handler of each connection is
  timer,      \* DRAIN_TIMEOUT_SECONDS around session.finish
  chunks,     \* chunks scored so far
  lock_owner, \* the caller that holds diar_lock, or NoCaller
  lock_queue, \* the callers that wait for it
  thread,     \* the thread of each caller's RPC
  requests,   \* lines written to the worker and not yet read by it
  responses,  \* lines written by the worker and not yet read
  answer,     \* whose request the line answers that a caller's thread has read
  abandoned,  \* history: callers that stopped waiting for their own RPC
  failure     \* runtime.failure

vars == <<ingest, handler, timer, chunks, lock_owner, lock_queue, thread,
          requests, responses, answer, abandoned, failure>>

\* A session calls the worker for a chunk and, at its end, to be released.
Callers    == [conn : Connections, op : {"chunk", "release"}]
Chunk(c)   == [conn |-> c, op |-> "chunk"]
Release(c) == [conn |-> c, op |-> "release"]
NoCaller   == [conn |-> "none", op |-> "none"]

Init ==
  /\ ingest = [c \in Connections |-> "listening"]
  /\ handler = [c \in Connections |-> "serving"]
  /\ timer = [c \in Connections |-> "off"]
  /\ chunks = [c \in Connections |-> 0]
  /\ lock_owner = NoCaller /\ lock_queue = << >>
  /\ thread = [k \in Callers |-> "none"]
  /\ requests = << >> /\ responses = << >>
  /\ answer = [k \in Callers |-> NoCaller]
  /\ abandoned = {}
  /\ failure = "none"

lockVars == <<lock_owner, lock_queue>>
pipeVars == <<thread, requests, responses, answer>>

Ingest(c, place)  == ingest' = [ingest EXCEPT ![c] = place]
Handler(c, place) == handler' = [handler EXCEPT ![c] = place]

\* The caller's task awaits the RPC: shielded, or after a first cancellation
\* directly ("holding": it still holds the lock).
Awaits(k) ==
  IF k.op = "chunk" THEN ingest[k.conn] \in {"calling", "holding"}
  ELSE handler[k.conn] = "calling"

-----------------------------------------------------------------------------
\* The ingest task.

\* feed or finish reaches the next chunk and asks for the lock.
NextChunk(c) ==
  /\ ingest[c] = "listening" /\ chunks[c] < MaxChunks
  /\ chunks' = [chunks EXCEPT ![c] = @ + 1]
  /\ Ingest(c, "queued")
  /\ lock_queue' = Append(lock_queue, Chunk(c))
  /\ UNCHANGED <<handler, timer, lock_owner, pipeVars, abandoned, failure>>

\* session.stop: finish runs under the drain timer.
SessionStop(c) ==
  /\ ingest[c] = "listening" /\ timer[c] = "off"
  /\ timer' = [timer EXCEPT ![c] = "armed"]
  /\ UNCHANGED <<ingest, handler, chunks, lockVars, pipeVars, abandoned, failure>>

\* The task ends: finish is through, the client is gone or its input refused.
IngestEnds(c) ==
  /\ ingest[c] = "listening"
  /\ Ingest(c, "done")
  /\ UNCHANGED <<handler, timer, chunks, lockVars, pipeVars, abandoned, failure>>

\* Slips: the RPC is not shielded; a cancelled caller stays in line.
CancelUnshielded(c) ==
  /\ Ingest(c, "done")
  /\ lock_owner' = IF lock_owner = Chunk(c) THEN NoCaller ELSE lock_owner
  /\ lock_queue' = RemoveFirst(lock_queue, Chunk(c))
  /\ UNCHANGED abandoned
CancelInLine(c) ==
  IF ingest[c] = "calling"
  THEN Ingest(c, "holding") /\ UNCHANGED <<lockVars, abandoned>>
  ELSE /\ Ingest(c, "done")
       /\ lock_owner' = IF ingest[c] = "holding" THEN NoCaller ELSE lock_owner
       /\ UNCHANGED <<lock_queue, abandoned>>

\* What CancelledError does to the ingest task.  The first one finds it behind
\* the shield, and it goes on waiting for its RPC; the next one ends that too,
\* and the lock is given up while the thread still runs.
Cancel(c) ==
  CASE ingest[c] = "calling" ->
         Ingest(c, "holding") /\ UNCHANGED <<lockVars, abandoned>>
    [] ingest[c] = "holding" ->
         /\ Ingest(c, "done")
         /\ lock_owner' = NoCaller
         /\ abandoned' = abandoned \cup {Chunk(c)}
         /\ UNCHANGED lock_queue
    [] OTHER ->
         /\ Ingest(c, "done")
         /\ lock_queue' = RemoveFirst(lock_queue, Chunk(c))
         /\ UNCHANGED <<lock_owner, abandoned>>

\* asyncio.timeout cancels the task whatever else has cancelled it before.
DrainTimeout(c) ==
  /\ timer[c] = "armed" /\ ingest[c] # "done"
  /\ timer' = [timer EXCEPT ![c] = "fired"]
  /\ Cancel(c)
  /\ UNCHANGED <<handler, chunks, pipeVars, failure>>

-----------------------------------------------------------------------------
\* The handler of a connection.

\* The handler stops serving: a task of it has failed or ended, the client is
\* gone, or the runtime has failed.  It cancels the ingest task, unless that
\* is being cancelled already.
Leave(c) ==
  /\ handler[c] = "serving"
  /\ Handler(c, "leaving")
  /\ IF ingest[c] # "done" /\ timer[c] # "fired"
     THEN Cancel(c)
     ELSE UNCHANGED <<ingest, lockVars, abandoned>>
  /\ UNCHANGED <<timer, chunks, pipeVars, failure>>

\* The tasks are gathered; release calls the worker once more.
ReleaseSession(c) ==
  /\ handler[c] = "leaving" /\ ingest[c] = "done"
  /\ IF failure = "none"
     THEN Handler(c, "queued") /\ lock_queue' = Append(lock_queue, Release(c))
     ELSE Handler(c, "closed") /\ UNCHANGED lock_queue
  /\ UNCHANGED <<ingest, timer, chunks, lock_owner, pipeVars, abandoned, failure>>

-----------------------------------------------------------------------------
\* _call_worker.

\* The caller goes on to one place or another, by its kind.
Goes(k, chunk_place, release_place) ==
  IF k.op = "chunk" THEN Ingest(k.conn, chunk_place) /\ UNCHANGED handler
  ELSE Handler(k.conn, release_place) /\ UNCHANGED ingest

\* A slip: there is no check behind the lock.
Unchecked == TRUE

\* check_health
Healthy == failure = "none"

\* The lock is granted in order; the health check stands behind it.
Acquire(k) ==
  /\ lock_owner = NoCaller /\ lock_queue # << >> /\ Head(lock_queue) = k
  /\ lock_queue' = Tail(lock_queue)
  /\ IF Healthy
     THEN /\ lock_owner' = k
          /\ thread' = [thread EXCEPT ![k] = "writing"]
          /\ Goes(k, "calling", "calling")
     ELSE Goes(k, "done", "closed") /\ UNCHANGED <<lock_owner, thread>>
  /\ UNCHANGED <<timer, chunks, requests, responses, answer, abandoned, failure>>

WriteRequest(k) ==
  /\ thread[k] = "writing"
  /\ thread' = [thread EXCEPT ![k] = "reading"]
  /\ requests' = Append(requests, k)
  /\ UNCHANGED <<ingest, handler, timer, chunks, lockVars, responses, answer,
                 abandoned, failure>>

\* The worker process answers its requests in order.
WorkerAnswers ==
  /\ requests # << >>
  /\ requests' = Tail(requests)
  /\ responses' = Append(responses, Head(requests))
  /\ UNCHANGED <<ingest, handler, timer, chunks, lockVars, thread, answer,
                 abandoned, failure>>

\* _read_response: the next line, or none within MODEL_TIMEOUT_SECONDS.
ReadResponse(k) ==
  /\ thread[k] = "reading"
  /\ \/ /\ responses # << >>
        /\ answer' = [answer EXCEPT ![k] = Head(responses)]
        /\ responses' = Tail(responses)
        /\ thread' = [thread EXCEPT ![k] = "answered"]
     \/ thread' = [thread EXCEPT ![k] = "failed"] /\ UNCHANGED <<answer, responses>>
  /\ UNCHANGED <<ingest, handler, timer, chunks, lockVars, requests, abandoned,
                 failure>>

\* A slip: a failed call keeps the lock.
OwnerAfterSuccess(k) == IF thread[k] = "failed" THEN lock_owner ELSE NoCaller

\* Leaving "async with diar_lock", with or without an exception.
OwnerAfter(k) == NoCaller

\* The thread ends.  Its caller, if it still waits, takes the answer, or marks
\* the runtime as failed, and gives up the lock; a cancelled one ends there.
Return(k) ==
  /\ thread[k] \in {"answered", "failed"}
  /\ thread' = [thread EXCEPT ![k] = "none"]
  /\ answer' = [answer EXCEPT ![k] = NoCaller]
  /\ IF Awaits(k)
     THEN /\ lock_owner' = OwnerAfter(k)
          /\ failure' = IF failure = "none" /\ thread[k] = "failed"
                        THEN "diarization_worker_unavailable" ELSE failure
          /\ Goes(k, IF thread[k] = "failed" \/ ingest[k.conn] = "holding"
                     THEN "done" ELSE "listening",
                  "closed")
     ELSE UNCHANGED <<lock_owner, failure, ingest, handler>>
  /\ UNCHANGED <<timer, chunks, lock_queue, requests, responses, abandoned>>

-----------------------------------------------------------------------------

Closed == (\A c \in Connections : handler[c] = "closed") /\ UNCHANGED vars

Next ==
  \/ \E c \in Connections :
       \/ NextChunk(c) \/ SessionStop(c) \/ IngestEnds(c) \/ DrainTimeout(c)
       \/ Leave(c) \/ ReleaseSession(c)
  \/ \E k \in Callers : Acquire(k) \/ WriteRequest(k) \/ ReadResponse(k) \/ Return(k)
  \/ WorkerAnswers
  \/ Closed

Spec == Init /\ [][Next]_vars

\* Threads run, a read ends within its timeout, and the event loop grants a
\* free lock and resumes tasks; clients and timers owe nothing.
Fairness ==
  /\ \A k \in Callers : /\ WF_vars(Acquire(k)) /\ WF_vars(WriteRequest(k))
                        /\ WF_vars(ReadResponse(k)) /\ WF_vars(Return(k))
  /\ \A c \in Connections : WF_vars(ReleaseSession(c))

FairSpec == Spec /\ Fairness

-----------------------------------------------------------------------------

\* Who waits for the lock.
Waits(k) ==
  IF k.op = "chunk" THEN ingest[k.conn] = "queued" ELSE handler[k.conn] = "queued"

\* Type correctness of the callers, the lock and the pipe; the line of the lock
\* holds each caller that waits, once, and nobody else.
TypeOK ==
  /\ ingest \in [Connections -> {"listening", "queued", "calling", "holding", "done"}]
  /\ handler \in [Connections -> {"serving", "leaving", "queued", "calling", "closed"}]
  /\ timer \in [Connections -> {"off", "armed", "fired"}]
  /\ chunks \in [Connections -> 0 .. MaxChunks]
  /\ lock_owner \in Callers \cup {NoCaller} /\ lock_queue \in Seq(Callers)
  /\ \A i, j \in 1 .. Len(lock_queue) : lock_queue[i] = lock_queue[j] => i = j
  /\ {lock_queue[i] : i \in 1 .. Len(lock_queue)} = {k \in Callers : Waits(k)}
  /\ thread \in [Callers -> {"none", "writing", "reading", "answered", "failed"}]
  /\ requests \in Seq(Callers) /\ responses \in Seq(Callers)
  /\ answer \in [Callers -> Callers \cup {NoCaller}]
  /\ abandoned \subseteq Callers
  /\ failure \in {"none", "diarization_worker_unavailable"}

\* The comment in _call_worker: the lock is kept until the RPC completes, so
\* that the answer to a cancelled connection is not read by another request.
OwnAnswer == \A k \in Callers : answer[k] \in {NoCaller, k}

\* What the shield does achieve: as long as no caller has been interrupted a
\* second time, the worker serves one thread, that of the holder of the lock,
\* a single line is under way, and it is read by its own request.  Only a
\* failure, after which nobody calls, leaves an answer in the pipe.
OneCallAtATime ==
  abandoned = {} =>
    /\ OwnAnswer
    /\ \A k \in Callers : thread[k] # "none" => lock_owner = k /\ Awaits(k)
    /\ failure = "none" => Len(requests) + Len(responses) =< 1

\* A request reaches the worker only while the runtime is healthy: callers that
\* wait for the lock when the RPC before theirs fails do not call (the check
\* behind the lock in _call_worker).
NoCallAfterFailure ==
  [][\A k \in Callers :
       thread[k] = "none" /\ thread'[k] # "none" => failure = "none"]_vars

\* However calls are cancelled, and with the worker dead too, the lock comes
\* free again and every connection that leaves is released.
EveryoneLeaves ==
  \A c \in Connections : handler[c] = "leaving" ~> handler[c] = "closed"

==============================================================================
