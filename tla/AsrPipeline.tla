---------------------------- MODULE AsrPipeline ----------------------------
(***************************************************************************)
(* How the sessions of one inference container share the speech            *)
(* recognition: the bounded job queue and batches of                       *)
(* InferenceRuntime._asr_loop, the bounded result queue, the ingest and    *)
(* emit tasks and the handler of each connection (create_inference_app),   *)
(* session.stop (PipelineSession.finish) and release, in                   *)
(* src/meety_ai/modal_app/stt/pipeline.py.                                 *)
(*                                                                         *)
(* TurnSegmentation says which turns a session submits; here any may come  *)
(* at any time.  The model's text is left out, its verdict is kept.        *)
(***************************************************************************)
EXTENDS Integers, Sequences, FiniteSets, Selection

CONSTANTS
  Connections,
  Recordings,    \* recording_session_id values
  MAX_SESSIONS,  \* sessions of one container (10)
  JOBS,          \* asr_queue maxsize (16)
  BATCH_SIZE,    \* jobs of one model call (8)
  RESULTS,       \* results maxsize (32)
  MaxSegments,   \* bound of the model: turns of each connection's session
  Outcomes       \* bound of the model: the verdicts of _transcribe that occur

\* What _transcribe says of a segment: its text, a failure that the session
\* survives (SEGMENT_FAILURE_CODES), or another one, which fails the session.
Verdicts == {"committed", "failed", "fatal"}

ASSUME PipelineAssumption ==
  /\ MAX_SESSIONS \in Nat /\ MaxSegments \in [Connections -> Nat]
  /\ Outcomes \subseteq Verdicts
  /\ JOBS \in Nat \ {0} /\ BATCH_SIZE \in Nat \ {0} /\ RESULTS \in Nat \ {0}

VARIABLES
  handler,   \* the handler of each connection
  ingest,    \* its ingest task
  emit,      \* its emit task
  recording, \* its recording_session_id
  session,   \* its PipelineSession
  results,   \* session.results
  sending,   \* what emit has taken off results and not sent yet
  sent,      \* history: what emit has sent to the client
  asr_queue, \* jobs that wait
  batch,     \* the jobs that the loop has taken
  jobs,      \* those of them whose result is still to be delivered
  loop,      \* where _asr_loop is
  failure    \* runtime.failure, with failed_event

vars == <<handler, ingest, emit, recording, session, results, sending, sent,
          asr_queue, batch, jobs, loop, failure>>

\* Jobs of a set of connections.
JobsFor(conns) == [conn : conns, id : Nat]

Job    == JobsFor(Connections)
Result == [kind : {"committed", "failed", "fatal", "ended", "eof"}, id : Nat]

Ended == [kind |-> "ended", id |-> 0]
EofMark == [kind |-> "eof", id |-> 0]

Session == [stopping : {"no", "yes"}, segments : Nat, pending_jobs : Nat,
            succeeded : Nat, failed : Nat, drained : {"set", "clear"},
            aborted : {"no", "yes"},
            failure : {"none", "asr_result_mismatch", "result_delivery_timeout"}]

NewSession == [stopping |-> "no", segments |-> 0, pending_jobs |-> 0,
               succeeded |-> 0, failed |-> 0, drained |-> "set",
               aborted |-> "no", failure |-> "none"]

Init ==
  /\ handler = [c \in Connections |-> "new"]
  /\ ingest = [c \in Connections |-> "none"]
  /\ emit = [c \in Connections |-> "none"]
  /\ recording \in [Connections -> Recordings]
  /\ session = [c \in Connections |-> NewSession]
  /\ results = [c \in Connections |-> << >>]
  /\ sending = [c \in Connections |-> EofMark]
  /\ sent = [c \in Connections |-> << >>]
  /\ asr_queue = << >> /\ batch = << >> /\ jobs = << >> /\ loop = "idle"
  /\ failure = "none"

At(task, c, place) == task[c] = place

\* runtime.sessions
Sessions == {c \in Connections : handler[c] \in {"serving", "leaving"}}

\* job_done, for n jobs of a session.
JobsDone(s, n) ==
  IF n = 0 THEN s
  ELSE [s EXCEPT !.pending_jobs = @ - n,
                 !.drained = IF s.pending_jobs = n THEN "set" ELSE @]

JobsOf(c, queue) == Len(Selected(JobsFor({c}), queue))

asrVars  == <<asr_queue, batch, jobs, loop, failure>>
emitVars == <<emit, results, sending, sent>>

-----------------------------------------------------------------------------
\* The ingest task.

\* open: refused while the runtime is failed or full, or the recording active.
Open(c) ==
  /\ At(handler, c, "new")
  /\ IF \/ failure # "none"
        \/ Cardinality(Sessions) >= MAX_SESSIONS
        \/ \E d \in Sessions : recording[d] = recording[c]
     THEN /\ handler' = [handler EXCEPT ![c] = "closed"]
          /\ UNCHANGED <<ingest, emit>>
     ELSE /\ handler' = [handler EXCEPT ![c] = "serving"]
          /\ ingest' = [ingest EXCEPT ![c] = "pumping"]
          /\ emit' = [emit EXCEPT ![c] = "waiting"]
  /\ UNCHANGED <<recording, session, results, sending, sent, asrVars>>

\* _close_turn counts the job as pending before it waits for room for it.
CloseTurn(c) ==
  /\ At(ingest, c, "pumping") /\ session[c].segments < MaxSegments[c]
  /\ session' = [session EXCEPT ![c].pending_jobs = @ + 1, ![c].drained = "clear"]
  /\ ingest' = [ingest EXCEPT ![c] = "putting"]
  /\ UNCHANGED <<handler, recording, emitVars, asrVars>>

PutJob(c) ==
  /\ At(ingest, c, "putting") /\ Len(asr_queue) < JOBS
  /\ asr_queue' = Append(asr_queue, [conn |-> c, id |-> session[c].segments])
  /\ session' = [session EXCEPT ![c].segments = @ + 1]
  /\ ingest' = [ingest EXCEPT ![c] = "pumping"]
  /\ UNCHANGED <<handler, recording, emitVars, batch, jobs, loop, failure>>

\* The put runs out of QUEUE_WAIT_SECONDS.
PutJobTimeout(c) ==
  /\ At(ingest, c, "putting") /\ Len(asr_queue) >= JOBS
  /\ session' = [session EXCEPT ![c] = JobsDone(@, 1)]
  /\ ingest' = [ingest EXCEPT ![c] = "failed"]
  /\ UNCHANGED <<handler, recording, emitVars, asrVars>>

\* feed refuses: a failure is known, the session is aborted, or the input bad.
FeedFails(c) ==
  /\ At(ingest, c, "pumping")
  /\ ingest' = [ingest EXCEPT ![c] = "failed"]
  /\ UNCHANGED <<handler, recording, session, emitVars, asrVars>>

\* session.stop: finish runs, first its own turns, under DRAIN_TIMEOUT_SECONDS.
Stop(c) ==
  /\ At(ingest, c, "pumping") /\ session[c].stopping = "no"
  /\ session' = [session EXCEPT ![c].stopping = "yes"]
  /\ UNCHANGED <<handler, ingest, recording, emitVars, asrVars>>

WaitDrained(c) ==
  /\ At(ingest, c, "pumping") /\ session[c].stopping = "yes"
  /\ ingest' = [ingest EXCEPT ![c] = "draining"]
  /\ UNCHANGED <<handler, recording, session, emitVars, asrVars>>

ResultMissing(c) ==
  session[c].succeeded + session[c].failed # session[c].segments

Drained(c) ==
  /\ At(ingest, c, "draining") /\ session[c].drained = "set"
  /\ ingest' = [ingest EXCEPT ![c] =
                  IF failure # "none" \/ session[c].failure # "none" \/ ResultMissing(c)
                  THEN "failed" ELSE "ending"]
  /\ UNCHANGED <<handler, recording, session, emitVars, asrVars>>

\* The last two puts of finish: session.ended, then None.
PutEnded(c) ==
  /\ ingest[c] \in {"ending", "closing"} /\ Len(results[c]) < RESULTS
  /\ IF At(ingest, c, "ending")
     THEN /\ results' = [results EXCEPT ![c] = Append(@, Ended)]
          /\ ingest' = [ingest EXCEPT ![c] = "closing"]
     ELSE /\ results' = [results EXCEPT ![c] = Append(@, EofMark)]
          /\ ingest' = [ingest EXCEPT ![c] = "done"]
  /\ UNCHANGED <<handler, emit, recording, session, sending, sent, asrVars>>

\* A slip: a put that does not come to pass leaves its job counted.
InterruptedCounted(c) == session[c]

\* Ending the ingest task in the middle of a put takes its job back.
Interrupted(c) == IF At(ingest, c, "putting") THEN JobsDone(session[c], 1) ELSE session[c]

DrainTimeout(c) ==
  /\ session[c].stopping = "yes" /\ ingest[c] \notin {"done", "failed"}
  /\ session' = [session EXCEPT ![c] = Interrupted(c)]
  /\ ingest' = [ingest EXCEPT ![c] = "failed"]
  /\ UNCHANGED <<handler, recording, emitVars, asrVars>>

-----------------------------------------------------------------------------
\* The emit task and the handler.

\* A slip: emit sends whatever it takes.
NeverRefused(c) == FALSE

\* emit raises the failure of the session instead of sending on.
Refused(c) == session[c].failure # "none"

TakeResult(c) ==
  /\ At(emit, c, "waiting") /\ results[c] # << >>
  /\ sending' = [sending EXCEPT ![c] = Head(results[c])]
  /\ results' = [results EXCEPT ![c] = Tail(@)]
  /\ emit' = [emit EXCEPT ![c] = IF Head(results[c]) = EofMark THEN "done"
                                 ELSE IF Refused(c) THEN "failed"
                                 ELSE "sending"]
  /\ UNCHANGED <<handler, ingest, recording, session, sent, asrVars>>

SendResult(c) ==
  /\ At(emit, c, "sending")
  /\ \/ /\ sent' = [sent EXCEPT ![c] = Append(@, sending[c])]
        /\ emit' = [emit EXCEPT ![c] = "waiting"]
     \/ emit' = [emit EXCEPT ![c] = "failed"] /\ UNCHANGED sent
  /\ sending' = [sending EXCEPT ![c] = EofMark]
  /\ UNCHANGED <<handler, ingest, recording, session, results, asrVars>>

\* A slip: the handler waits for both tasks however they end.
TasksAllOver(c) == {ingest[c], emit[c]} \subseteq {"done", "failed"}

\* gather of the two tasks is done: with both, or with the first failure.
FlowDone(c) ==
  \/ ingest[c] = "done" /\ emit[c] = "done"
  \/ "failed" \in {ingest[c], emit[c]}

\* The handler leaves when both tasks are done, when one has failed (a client
\* that is gone fails its task) or the runtime has; what is left is cancelled.
Leave(c) ==
  /\ At(handler, c, "serving")
  /\ FlowDone(c) \/ failure # "none"
  /\ handler' = [handler EXCEPT ![c] = "leaving"]
  /\ session' = [session EXCEPT ![c] = Interrupted(c)]
  /\ ingest' = [ingest EXCEPT ![c] = "done"]
  /\ emit' = [emit EXCEPT ![c] = "done"]
  /\ sending' = [sending EXCEPT ![c] = EofMark]
  /\ UNCHANGED <<recording, results, sent, asrVars>>

\* A slip: the jobs in the batch are counted off too.
DroppedWithBatch(c) == JobsOf(c, asr_queue) + JobsOf(c, batch)

Retained(c) == Selected(JobsFor(Connections \ {c}), asr_queue)
Dropped(c) == JobsOf(c, asr_queue)

\* release: whatever waits for the session is dropped, other jobs keep their
\* order.  (Its call to the diarization worker is in DiarizationRpc.)
Release(c) ==
  /\ At(handler, c, "leaving")
  /\ handler' = [handler EXCEPT ![c] = "closed"]
  /\ session' = [session EXCEPT ![c] =
                   [JobsDone(@, Dropped(c)) EXCEPT !.aborted = "yes"]]
  /\ results' = [results EXCEPT ![c] = << >>]
  /\ asr_queue' = Retained(c)
  /\ UNCHANGED <<ingest, emit, recording, sending, sent, batch, jobs, loop, failure>>

-----------------------------------------------------------------------------
\* _asr_loop.

connVars == <<handler, ingest, emit, recording, sending, sent>>

\* The first job, then what else is there or comes within BATCH_WAIT_SECONDS.
TakeJob ==
  /\ loop \in {"idle", "collecting"} /\ asr_queue # << >> /\ Len(batch) < BATCH_SIZE
  /\ batch' = Append(batch, Head(asr_queue))
  /\ asr_queue' = Tail(asr_queue)
  /\ loop' = "collecting"
  /\ UNCHANGED <<connVars, session, results, jobs, failure>>

BatchReady == asr_queue = << >> \/ Len(batch) = BATCH_SIZE

\* A slip: a session released during the model call is not noticed.
NeverAborted(c) == FALSE

Aborted(c) == session[c].aborted = "yes"

\* Jobs of sessions that have been aborted are not transcribed.
StartBatch ==
  /\ loop = "collecting" /\ BatchReady
  /\ jobs' = Selected(JobsFor({c \in Connections : ~Aborted(c)}), batch)
  /\ loop' = "transcribing"
  /\ UNCHANGED <<connVars, session, results, asr_queue, batch, failure>>

\* However a batch ends, all of its jobs are done.
BatchDone == [c \in Connections |-> JobsDone(session[c], JobsOf(c, batch))]

\* The model fails or runs out of MODEL_TIMEOUT_SECONDS: the loop ends, and
\* with it the runtime.
WorkerFails ==
  /\ loop = "transcribing" /\ jobs # << >>
  /\ session' = BatchDone
  /\ batch' = << >> /\ jobs' = << >>
  /\ loop' = "dead"
  /\ failure' = "asr_worker_unavailable"
  /\ UNCHANGED <<connVars, results, asr_queue>>

Judged(s, verdict) ==
  CASE verdict = "committed" -> [s EXCEPT !.succeeded = @ + 1]
    [] verdict = "failed"    -> [s EXCEPT !.failed = @ + 1]
    [] verdict = "fatal"     -> [s EXCEPT !.failed = @ + 1,
                                        !.failure = "asr_result_mismatch"]

\* The next result is counted, before there is room for it.
CountResult ==
  /\ loop \in {"transcribing", "delivering"} /\ jobs # << >>
  /\ LET c == Head(jobs).conn
     IN IF Aborted(c)
        THEN jobs' = Tail(jobs) /\ loop' = "delivering" /\ UNCHANGED session
        ELSE \E verdict \in Outcomes :
               /\ session' = [session EXCEPT ![c] = Judged(@, verdict)]
               /\ loop' = verdict /\ UNCHANGED jobs
  /\ UNCHANGED <<connVars, results, asr_queue, batch, failure>>

PutResult ==
  /\ loop \in Verdicts
  /\ LET job == Head(jobs)
     IN /\ Len(results[job.conn]) < RESULTS
        /\ results' = [results EXCEPT ![job.conn] =
                         Append(@, [kind |-> loop, id |-> job.id])]
  /\ jobs' = Tail(jobs)
  /\ loop' = "delivering"
  /\ UNCHANGED <<connVars, session, asr_queue, batch, failure>>

\* A slip: the put has no timeout.
NeverGivesUp(c) == FALSE

\* The put can run out of QUEUE_WAIT_SECONDS while there is no room.
GivesUp(c) == Len(results[c]) >= RESULTS

\* A client that does not take its results in time loses its session; the loop
\* goes on for the others.
PutResultTimeout ==
  /\ loop \in Verdicts
  /\ LET c == Head(jobs).conn
     IN /\ GivesUp(c)
        /\ session' = [session EXCEPT ![c].aborted = "yes", ![c].drained = "set",
                                      ![c].failure = "result_delivery_timeout"]
  /\ jobs' = Tail(jobs)
  /\ loop' = "delivering"
  /\ UNCHANGED <<connVars, results, asr_queue, batch, failure>>

FinishBatch ==
  /\ loop \in {"transcribing", "delivering"} /\ jobs = << >>
  /\ session' = BatchDone
  /\ batch' = << >>
  /\ loop' = "idle"
  /\ UNCHANGED <<connVars, results, asr_queue, jobs, failure>>

-----------------------------------------------------------------------------

Closed == (\A c \in Connections : handler[c] = "closed") /\ UNCHANGED vars

Next ==
  \/ \E c \in Connections :
       \/ Open(c) \/ CloseTurn(c) \/ PutJob(c) \/ PutJobTimeout(c) \/ FeedFails(c)
       \/ Stop(c) \/ WaitDrained(c) \/ Drained(c) \/ PutEnded(c) \/ DrainTimeout(c)
       \/ TakeResult(c) \/ SendResult(c) \/ Leave(c) \/ Release(c)
  \/ TakeJob \/ StartBatch \/ WorkerFails \/ CountResult
  \/ PutResult \/ PutResultTimeout \/ FinishBatch
  \/ Closed

Spec == Init /\ [][Next]_vars

\* The loop runs, the model call and each wait are limited by timers, and the
\* tasks and handlers are scheduled; clients owe nothing.  A send ends by its
\* timeout at the latest, but that is assumed only of the session that is being
\* stopped: what the others can rely on must not hang on a client.
Fairness ==
  /\ WF_vars(TakeJob \/ StartBatch)
  /\ WF_vars(WorkerFails \/ CountResult \/ PutResult
             \/ PutResultTimeout \/ FinishBatch)
  /\ \A c \in Connections :
       /\ WF_vars(PutJob(c) \/ PutJobTimeout(c) \/ WaitDrained(c) \/ Drained(c)
                  \/ PutEnded(c))
       /\ WF_vars(DrainTimeout(c))
       /\ WF_vars(session[c].stopping = "yes" /\ (TakeResult(c) \/ SendResult(c)))
       /\ WF_vars(Leave(c)) /\ WF_vars(Release(c))

FairSpec == Spec /\ Fairness

-----------------------------------------------------------------------------

\* No queue and no batch is longer than its size, release included, which puts
\* the jobs that it keeps back with put_nowait.
WithinSizes ==
  /\ Len(asr_queue) =< JOBS /\ Len(batch) =< BATCH_SIZE
  /\ \A c \in Connections : Len(results[c]) =< RESULTS

\* Type correctness of the sessions, their queues with their sizes, and the loop.
TypeOK ==
  /\ handler \in [Connections -> {"new", "serving", "leaving", "closed"}]
  /\ ingest \in [Connections -> {"none", "pumping", "putting", "draining", "ending",
                                 "closing", "done", "failed"}]
  /\ emit \in [Connections -> {"none", "waiting", "sending", "done", "failed"}]
  /\ session \in [Connections -> Session]
  /\ results \in [Connections -> Seq(Result)] /\ sending \in [Connections -> Result]
  /\ sent \in [Connections -> Seq(Result)]
  /\ asr_queue \in Seq(Job) /\ batch \in Seq(Job) /\ jobs \in Seq(Job)
  /\ loop \in {"idle", "collecting", "transcribing", "delivering", "committed",
               "failed", "fatal", "dead"}
  /\ failure \in {"none", "asr_worker_unavailable"}
  /\ WithinSizes

\* pending_jobs counts exactly the jobs of the session that are being put, wait,
\* or are in the batch: through timeouts and cancellations of the put, the
\* release of the session and the failure of the worker, none is counted twice
\* and none forgotten, and nobody drains before the last of them.  So finish never
\* meets segment_result_missing: with all jobs done and nothing failed, every
\* segment has been counted once as succeeded or failed.
PendingJobs ==
  \A c \in Connections :
    LET s == session[c]
    IN /\ s.pending_jobs = JobsOf(c, asr_queue) + JobsOf(c, batch) +
                           (IF At(ingest, c, "putting") THEN 1 ELSE 0)
       /\ s.pending_jobs = 0 => s.drained = "set"
       /\ s.drained = "set" => s.pending_jobs = 0 \/ s.failure # "none"
       /\ At(ingest, c, "draining") /\ s.drained = "set"
          /\ s.failure = "none" /\ failure = "none" => ~ResultMissing(c)

\* What ModalSTTClient checks of the i-th message that it receives: a segment
\* is the next one, a failure one that a session survives, and session.ended,
\* which carries the counters of the session, the last message and an answer to
\* session.stop that agrees with what was received.
Accepted(c, i) ==
  LET message == sent[c][i]
      received(kind) == Cardinality({j \in 1 .. i - 1 : sent[c][j].kind = kind})
  IN IF message = Ended
     THEN /\ i = Len(sent[c])
          /\ session[c].stopping = "yes"
          /\ session[c].succeeded = received("committed")
          /\ session[c].failed = received("failed")
     ELSE /\ message.kind # "fatal"
          /\ message.id = received("committed") + received("failed")

\* Both ends of the wire agree: results come in the order of their segments and
\* without a gap, whatever batches they went through and whichever sessions were
\* released meanwhile, and the recording server refuses no message, although the
\* counters it compares are moved by other tasks than the one that sends, and a
\* failure may be known before what was put earlier.
ClientAccepts ==
  \A c \in Connections : \A i \in 1 .. Len(sent[c]) : Accepted(c, i)

\* Once a session is released the loop works no more for it: no verdict is
\* counted, even of the batch that was in the model (the second look at aborted
\* in _asr_loop), its client is sent nothing, and its emptied queue takes at most
\* the one result that had been counted before and was waiting for room.
NoWorkAfterRelease ==
  [][\A c \in Connections :
       At(handler, c, "closed") =>
         /\ session'[c].succeeded = session[c].succeeded
         /\ session'[c].failed = session[c].failed
         /\ sent'[c] = sent[c]
         /\ Len(results'[c]) =< 1]_vars

\* session.stop is answered, or the connection ends, in bounded time: neither a
\* slow client of another session, nor a full queue, nor a dead worker keeps a
\* stopping session for ever.
StopEnds ==
  \A c \in Connections : session[c].stopping = "yes" ~> handler[c] = "closed"

\* A session whose client takes no results, for as long as it likes, is cut off
\* and does not hold up the jobs of the others: the loop always gets back to its
\* queue, or dies.
LoopGoesOn == (batch # << >>) ~> (batch = << >>)

==============================================================================
