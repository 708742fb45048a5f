# Meety AI: specifications, model checking and proofs

This directory holds the TLA+ project kept beside the Meety AI code (`src/meety_ai`). Its core is the
real-time half of the service: a Backend opens a WebSocket for a recording and sends PCM
chunks; the live service relays them to a GPU service, which splits the audio into turns of
speakers, transcribes each one and sends the transcripts back.

    Backend <--WebSocket--> RecordingConnection <--WebSocket--> /transcribe (PipelineSession)
                            (live service)                       |          |            |
                            RecordingSession                diarization   ASR loop   embedding thread
                            transcript sender               worker        (shared)   (shared)
                            Modal client                    (shared process)

Around it are two agents of the analysis service, the assistant and the chat, whose tools run
concurrently over one record of a request, and computations that share no state with a recording in
progress: over the segments of a finished meeting, over one batch of the ASR model, over the words of
the alternative provider, and the document that helps the recogniser with names and terms.

## 1. Inventory

| component | state it keeps | operations | what is hard |
|---|---|---|---|
| Recording session (`recording/session.py`) | protocol state, next/pending/last sequence, bytes taken | start, meta, binary, pause, resume, heartbeat, stop, close | retransmissions; which input is legal in which state |
| Recording connection (`recording/connection.py`) | three tasks, two queues, pending bytes, deadline of the binary, first background error | receive loop, audio forwarding, context, stop, error response, cleanup | tasks that swallow their own failure, cancellation, timeouts, an error racing the normal end |
| Transcript sender (`recording/transcript.py`) | next sequence number | number and send | resumed sessions; mappings share the queue |
| Modal client (`stt/modal.py`) | counters of segments and bytes, the first error, finishing/closing | start, send_audio, update_context, finish, receive, close | results that disagree with its counters |
| Turn segmentation (`pipeline.py`, `PipelineSession`) | audio buffer, cursors, open turns, pauses | feed, `_pump`, `_activity`, `_close_turn`, `_trim`, finish | overlapping speakers, absorption of short turns, the 25 s cut, the 40 s buffer, a worker that lags |
| Diarization RPC (`pipeline.py`, `_call_worker`) | one lock, one worker process, the runtime's failure | chunk, release | cancellation of a caller whose thread still talks to the worker |
| ASR pipeline (`pipeline.py`, `_asr_loop`, `release`) | job queue of 16, batch, results queue of 32 per session, counters | close turn, batch, transcribe, deliver, drain, release | one slow client, release in the middle of a batch, a failing worker |
| Speaker mapping (`speaker_mapping.py`, `attribute`) | evidence per slot, mapping, last snapshot, pending embeddings | observe, assign, attribute | late or missing vectors, order of evidence, snapshots sent only on change |
| Assistant (`assistant/agent.py`, `assistant/tools.py`) | call counters, bytes given, meetings admitted, references | model calls, rounds of tools, answer | tools that run concurrently share limits and budget |
| Diarization of recordings (`diarization/router.py`) | none | merge intervals, attribute segments | overlaps, ties, touching intervals |
| Meeting metrics (`metric/calculation.py`) | none | select ranges, sum durations | nested and overlapping segments |
| ASR batch (`pipeline.py`, `_transcribe`, `_failure_code`) | what the model generated in the last call | transcribe all, or one by one | an input that is refused makes the batch run again |
| STT context (`stt/context.py`) | none | list, select, read, write, cut | a model that selects what was not listed; where a text may be cut |
| Speechmatics client (`stt/speechmatics.py`) | buffered words, their speaker and times, first error | receive, end, finish, close | groups that span messages; the end of a session |
| Live service (`recording/router.py`, `live.py`) | number of connections | admit, run | the counter must survive every ending |
| Chat agent (`chat/agent.py`, `chat/tools.py`) | call counters, sources | rounds of reads, check of citations | sources added by concurrent reads that fail or are tried again |
| Summary, embedding API, Modal apps, logging | none | one remote call | nothing a model checker reaches |

What makes each component correct, in short: audio is taken and relayed once, in order (session,
connection); everything waited for at the end was really delivered (connection); segments do not
overlap and no speech is lost beyond turns under 500 ms (segmentation); every job is accounted for
once and a session ends however others behave (pipeline); the client accepts what the pipeline
sends (client and pipeline); one answer per request and to the request that asked (RPC); mappings
are one-to-one and optimal, and what was sent describes them (mapping); no limit is passed and
what is counted is what was given (assistant); citations are of what was read (chat); segments of a
batch do not answer for one another (ASR batch); no word is lost and no term cut (Speechmatics,
context); no instant is counted twice (metrics, attribution).

## 2. Plan

Most important behaviour first. Done so far: 1 to 9.

1. `SegmentStream` (promise) and `TurnSegmentation` (code), with `TurnSegmentation_proofs`.
2. `AudioRelay` (promise), `RecordingSession` and `RecordingConnection`.
3. `DiarizationRpc`.
4. `AsrPipeline`, with the client's check of what it sends.
5. `SpeakerAssignment` (the algorithm) and `SegmentAttribution` (its use in a session).
6. `AssistantRun`.
7. `SpeakerAttribution` and `MeetingMetrics`, the computations over intervals.
8. `ChatRun`, run beside `AssistantRun` by `MCAnalysisRequests`, with `AnalysisRequests_proofs` for both.
9. `STTContext`, `SpeechmaticsTranscripts` and `AsrBatch`, run with the computations of 5 and 7 by
   `MCComputations`, with `Computations_proofs` for these and for `SpeakerAssignment`.

Every module above has its proofs (section 6): each invariant, action property and refinement that a
passing run checks is also a theorem. What stays with TLC, liveness first of all, is at the end of
section 6.

## 3. Modules

Conventions. An action is the code between two awaits of one task; its guard is the condition
under which the task is there and its await can return. Cancelling a task sets a mark; the task
ends at its next step, as asyncio delivers it. Names are those of the source. A definition under a
comment "A slip" is a deliberate variant of the definition after it: a plausible mistake, which the
specification does not use, kept to confirm that a property notices it (`PROJECT.json`, "mutants").
Variables commented "history" record what happened for the properties and guard nothing. `Selection.tla`
has one operator, the elements of a queue that are in a set, in their order: with a set in the place of
a test, lemmas can be stated about it (`AsrPipeline` and `RecordingConnection` use it). Loops over a list are recursive functions of the number
of elements taken, and sums are `SumFunction`, since the provers can reason about both.

### Turn segmentation
`TurnSegmentation.tla` models one `PipelineSession` from received bytes to submitted segments. Time is
counted in frames of `stride` samples; the durations of the code (500 ms, 1 s, 25 s, 40 s) are constants
in frames. `Feed`, `RefuseMessage`, `Stop`, `Diarize`, `TakeRow`, `RowDone`, `Active`/`Inactive`, `ConfirmChange`,
`CutLongTurn`, `Trim`, `CloseAtEof` and `Drained` follow the code statement by statement; a row of
activity is taken apart speaker by speaker because `_close_turn` awaits in between. The worker's rows
are one-hot or empty, as `nemotron_worker.py:78-81` makes them; `Answers` is how many of them come and
where the next chunk is to start, the rest of that external behaviour. The rows may lag behind the audio
by what a chunk allows, and there may be more of them than the audio has frames (`Surplus`, a padded last
chunk): `Counted` leaves those out. The next start may also lie behind the last one, which `Trim` refuses
(`MovesOn`) once the rows have been applied. The first chunk has a size of its own (`FIRST`). The order of
`list(self.open_turns)` is left free. The exceptions of `feed`, `_slice`, `_close_turn` and `_pump` are the
outcome "failure"; those without a cause in the model (a message of a bad size, a failure of the session
known from elsewhere, a worker that fails or answers with rows of a wrong width) may come at any time
(`RefuseMessage`, `Faults`).

`BufferAssumption` states what the code's numbers give: the longest turn, the pause after it, a chunk
that waits for more audio and one more message fit in the buffer (2500 + 100 + CHUNK + 820 frames of
10 ms against 4000), and so do the first chunk and one more message.

`SegmentStream.tla` is the promise to the stages behind it: a log of segments that only grows, ordered,
disjoint, between 500 ms and 25 s, never ahead of the audio. `TurnSegmentation` implements it
(`StreamSpec`, checked and proved).

### Recording connection
`RecordingSession.tla` holds operators on a session record: `EventError`/`AfterEvent` for
`handle_event`, `BinaryError`/`AfterBinary` for `handle_binary`. `RecordingConnection.tla` has one process
for the receive loop (with run(), the error response and the cleanup), one each for the audio, sender
and context tasks, the watcher of the background error and the provider's receiver. Any send may
fail or time out, the Backend may disconnect, the request may be cancelled once. A send after a
disconnect fails (`Reachable`). A stop sent to a provider that has failed meanwhile gets its answer too
late to matter, because the watcher needs two turns of the event loop. `asked` remembers, as history, the
`transcript_sequence_start` of the session.start, which the numbers of the transcripts are compared with
(`ResultsInOrder`); `number` is the variable of the sender itself. Message formats, sizes of text,
time offsets and logging are left out.

`AudioRelay.tla` is the promise: chunks are taken in order, relayed once each and in order, and the
outcome "ended" needs that all of them were relayed.

### Diarization RPC
`DiarizationRpc.tla` has one caller per connection and, per call, the thread that writes the request and
reads the answer. Cancelling the caller does not stop its thread (`asyncio.shield`); the wait in the
`except` branch is not shielded, so that a second cancellation releases the lock. Second cancellations
happen because asyncio.timeout cancels without looking at `task.cancelling()`. `OneCallAtATime` is
stated for the states in which no caller has been interrupted twice ("abandoned"); what follows from
one that has is the finding `diarization_answer`.

### ASR pipeline
`AsrPipeline.tla` has several sessions, the shared queue and the ASR loop. A session closes turns
(`CloseTurn`, `PutJob`), is stopped and drains, or fails or disconnects and is released at any moment. The
loop collects a batch, transcribes it in one step of arbitrary length, counts each verdict and delivers
the results one by one with a timeout each; a verdict is a text, a failure of the segment or a failure
that ends the session. `PutResultTimeout` is the delivery timeout: it needs a results queue that is full when
the loop comes with the next result (`GivesUp`), and aborts that session alone. The sizes of queues and batch
are part of `TypeOK` (`WithinSizes`), because `release` puts jobs back with `put_nowait`, which has no wait to
fall back on. `NoWorkAfterRelease` says what is left after a release: of a session whose result had been
counted and was waiting for room, that one result may still be put into the emptied queue, which nobody
reads; nothing else is counted, put or sent. `Accepted` is the client's side of the wire: the invariant `ClientAccepts` composes
the counters of `ModalSTTClient._receive` with what the pipeline sends.

`AsrBatch.tla` looks into the one step that `AsrPipeline` takes for a batch: the call of the model for all
segments, the calls one by one after an input error, the list of what was generated that all calls share
(`self.generations`), and `_failure_code`. Of a text it keeps whether it is blank, its number of letters
and digits, and whether these are in the context.

### Speaker mapping
`SpeakerAssignment.tla` runs the dynamic program of `_assign` member by member and entry by entry on an
arbitrary table of cosines, against the definition of the best one-to-one mapping
(`SpeakerMatching.tla`). `SegmentAttribution.tla` models `_close_turn`'s embedding tasks, the single
embedding thread, `attribute` with its deadlines and `SpeakerMapper.observe`; it takes any best mapping
where several are equal. Profiles are orthogonal, voices are given by their cosines with them in tenths,
and cosines of sums are taken in hundredths. Evidence that sums up to the zero vector is excluded.
`Accepts` is the client's check of a snapshot; a snapshot it refuses would end the session there, and in
the model leaves `view` behind, which `SnapshotCurrent` notices.

### Assistant and chat
`AssistantRun.tla` models one request: calls of the model, which is external, alternate with rounds of
tool calls. A tool call is counted and admitted (`StartTool`), waits for the Backend with one retry, and
is then accepted, refused, or ends the request; the calls of a round interleave at these points, which
are the awaits of the code. `Accept` is `accept` of `tools.py` with everything it updates.

`ChatRun.tla` models one question to the chat in the same way: calls of the model, rounds of concurrent
reads (search, transcript, summary), the sources `track_sources` collects from what they return, and
`validate_citations`. A response may answer and call tools at once; the answer is checked when these are
done. `provided` is what the Backend's answers really held, kept apart from `sources`.

### STT context and Speechmatics
`STTContext.tla` follows `generate_stt_context`: pages of meetings, the selection by the model, the
summaries read one after another, the document and its cut. A text is the sequence of the lengths of its
lines, which is all that the cut depends on; the model's text is already stripped.
`SpeechmaticsTranscripts.tla` has the grouping of confirmed words to transcripts, message by message, and
the session around it (errors, `finish`, `close`). live.py builds the Modal client; this one is kept as an
alternative behind the same protocol.

### Intervals
`SpeakerAttribution.tla` merges the intervals of each speaker one by one, as `_merge_by_speaker` does, and
attributes a segment. `MeetingMetrics.tla` has the durations of the metrics as operators: the order of the
recording in which the model counted the segments (`InSequence`, by `sequence_number`, whatever order the
request has), the selection of ranges, the sort by start and the loop with its running end. Both sorts are
`SortedBy`, stable as `sorted` is: it inserts each segment after those whose key is no greater. A request is
what its schema admits (`Recorded`): distinct sequence numbers, and segments that may be empty. Both are checked against sets of instants.

## 4. Runs

| run | shows | bounds |
|---|---|---|
| `turns` | no internal error, the buffer suffices; speech is only let go as a whole turn under 500 ms; refinement of `SegmentStream` | 3 speakers, 500 ms = 2 frames, 1 s = 2, 25 s = 4, a first chunk of 3, chunks of 2, buffer of 9, 10 frames of audio in messages of 1, 1 surplus row |
| `connection` | taking and relaying of audio, an end only after all of it arrived, bookkeeping, deadline, what cleanup leaves; refinement of `AudioRelay` | 2 sequence numbers, starting at 0 or 1, retransmissions, a buffer the second chunk can overflow, one result |
| `connection_ends` | results are in order and numbered from the start asked for; a connection that stops, fails or leaves its loop returns | 1 chunk, 2 results, numbers from 0 or from 2 beside audio from 0, all failures |
| `ended_after_transcripts` | expected violation, see 7 | 1 chunk, 1 result |
| `diarization_rpc` | one call at a time, none after a failure, every leaving connection is released | 2 connections, 2 chunks each |
| `diarization_answer` | expected violation, see 7 | 2 connections, 1 chunk each |
| `asr_pipeline` | accounting of jobs, no result missing at the end, order of results, the client's checks, release | 2 connections of 1 or 2 recordings, 2 segments each, queue of 2, batch of 2, room for 1 result |
| `asr_ends` | a stop ends; the loop goes on although a client takes nothing | 2 connections of recordings of their own, one with 2 segments and one with 1, queue of 1, batch of 2, room for 1 result, verdicts "committed" and "fatal" |
| `attribution` | evidence counted once and of transcripts only, mapping before transcript, last snapshot current and accepted, a hanging thread costs no transcript | 3 segments, 2 slots, 2 members or none, segments of 3 s and 5 s against 5 s |
| `computations` | the dynamic program keeps the best mapping per set of slots and returns the best of all (`AssignmentOptimal`) | every table of 3 members by 3 slots with 3 values, one below the threshold |
| | a segment gets the speaker heard longest in it, or nobody (`AttributedToLongest`); durations count instants once (`MetricsCountOnce`) | every sorted list of up to 3 intervals, every segment; every request of up to 3 segments in any order over 4 moments, empty ones included, every pair of ranges |
| | the document is written from listed, completed and selected meetings (`ContextSources`) and cut between lines (`ContextLines`) | 3 meetings, 2 pages, 2 selected; every text of up to 3 lines around a limit of 4 characters |
| | no word is lost or mixed with another speaker's (`WordsKept`) | 2 speakers, 4 results in messages of up to 2, a group is long at 3 units |
| | a segment is judged by its own output (`JudgedAlone`) | batches of up to 2, every output, every input that is refused |
| `context_lines` | expected violation, see 7 | as `computations` |
| `analysis_requests` | limits, budget and references of the assistant under concurrent tools | 3 meetings of which 2 are allowed, 4 model calls, 4 tool calls, rounds of 2, payloads of 1 and 2 against 4 bytes |
| | citations of the chat (`CitationsProvided`) | a past meeting, 2 segments or summaries each, 2 calls of the model, 2 tool calls, rounds of 2, 2 citations |

`computations` and `analysis_requests` run several modules that share nothing: a behaviour begins with
the choice of one of them and takes only its steps, and each property speaks of the states of its own.

Why the bounds are enough: every counter that matters passes its limit inside them (a turn is cut, the
buffer fills, a batch mixes sessions, numbers start above 0, a payload no longer fits, a
call is one too many, a line ends before, at and after the limit), and every action fires. Both runs of the
pipeline fill the queues: the shared one while a session puts a job, and the queue of results, which has room
for one, when the loop comes with the second result of a session whose client has not taken the first. In
`asr_ends` only one session has two segments (`Talkative`) and the verdict "failed", which counts like
"fatal" without failing the session, is left out (`Outcomes`); the two recordings are told apart in one way
(`InitOneNaming`), since symmetry is not sound for liveness. Either limit of the assistant can be the one that
takes the tools away: four calls of the model end before four calls of tools when rounds are short, and after
them when rounds are of two.
The limits of 25 s or 16 jobs are scaled, which keeps
their order: minimum <= pause < maximum < buffer.

Symmetry is used for connections, slots, and meetings and ids of the agents, in runs without liveness
properties only. Deadlock is off in `attribution`, `computations`, `context_lines` and
`analysis_requests`, which describe a computation, a request or a session that is over at some point; in the other modules the finished state has a
stuttering action (`Over`, `Done`, `Closed`), so that any other stop is reported.

## 5. Fairness

Timers fire, the event loop runs every ready task, and a thread that was started returns: this is weak
fairness on the steps of tasks, on timeouts and on the end of a model call (bounded by the code's own
timeouts). The lock of the diarization worker needs no more than that: sessions take it a bounded number
of times, and asyncio.Lock serves its waiters in turn. Nothing is assumed about the Backend, the provider or a
client: they may be silent for ever.

In the ASR pipeline a send to a client ends by its timeout (`SEND_TIMEOUT_SECONDS`) at the latest, but this is
assumed only of a session that is being stopped, whose end depends on it. Of the other sessions nothing is
assumed about the emit task: a client may take no result for as long as it likes. So `LoopGoesOn` rests on the
delivery timeout of the loop (`QUEUE_WAIT_SECONDS`, shorter than that of a send) alone, and fails when
`PutResultTimeout` is lost.

## 6. Proofs

`TurnSegmentation_proofs.tla` proves for every number of speakers and all limits that satisfy
`GeometryAssumption` and `BufferAssumption`: type correctness, `IInv`, and from it that segments
never overlap, that no internal check raises, that the buffer suffices, that absorbed turns are
short, that no speech is lost but with a short turn (`SpeechKept`), and that the module implements
`SegmentStream`.

None of these is inductive alone. `IInv` adds: the row in progress lies at the frame cursor (`RowOK`);
buffer, sample cursor and frame cursor are ordered and the flow's position matches (`FlowOK`); a turn
begins before its pause, and a turn that is longer than the minimum has already closed all others
(`TurnShape`); the log ends before every open turn begins, except for the pieces an absorbed turn leaves
(`TurnChain`); and turns opened in a pause are short (`LaterAreShort`). The step lemma has one case per
action and the theorems close with PTL. `SpeechKept` needs one more invariant, `CutLogged`: while a row
is being applied, its speaker has no open turn behind it only if a segment was just cut at the end of
that row.

`AnalysisRequests_proofs.tla` proves of the assistant `TypeOK`, `BudgetKept`, `LimitsKept` and
`ReferencedShown` for all limits, meetings and sizes that satisfy `AssistantAssumption` (the limits of calls
of the model and of the round are positive) and for rounds of any length `MaxParallel`. Its `IInv` adds what
a half-finished round owes: a graph that may still run tools has a call of the model left (`ModelLimit`); the
calls that are not yet counted, added to those counted, pass the limit of tool calls by less than a round,
since tools are only offered below it (`ToolLimit`); a read that waits for the Backend has already been
admitted, so that what it brings may be shown (`Admitted`); and what may be referred to is what has been
shown at every moment, not only at the end (`Shown`). One lemma (`WaitingKeeps`) says what every step of
a waiting call keeps of the limits; the lemmas of the single tools only add the bytes and the meetings.

Of the chat it proves `CitationsProvided` for any meetings and material, all limits and rounds and citations
of any number. `ChatIInv` says at every moment what the property says at the end: the sources are the
material provided (`SourcesOK`: a transcript is tracked whatever its content because it always has some), of
the meeting asked about they are those of the request, since a read that waits for the Backend is one of
another meeting (`ChatCallsOK`); and the model is only called while there is no reply (`ChatPhaseOK`), so
that its own failures are not refusals of citations. That the citations are kept once each is a lemma on
`Distinct`. The theorems of the chat are about `SpecRequests`, the two agents side by side; those of the
assistant hold there too, because each behaviour of `SpecRequests` is one of the assistant's specification
(`AssistantServed`).

`DiarizationRpc_proofs.tla` proves `TypeOK`, `OneCallAtATime` and `NoCallAfterFailure` for any set of
connections and any number of chunks, under `RpcAssumption`. The difficulty is that a call is spread
over a caller, its thread, the pipes and the worker. `IInv` says, for as long as nobody has been
interrupted twice, that the thread that runs, the caller that awaits it and the owner of the lock are
one (`OneThread`), and that the requests and answers in the pipes are those of this thread, or of none
(`OwnLine`). What never breaks is the line of the lock: each caller in it waits, and each that waits is
in it once (`LineOK`). A second interruption breaks it, which is
why it is conditional, and why the finding of section 7 is not in its way.

`RecordingConnection_proofs.tla` proves the type invariant and every safety property that the runs check
of the connection, and that it implements `AudioRelay`, for all limits, chunk sizes and starts that satisfy
`ChunkAssumption` and `ConnectionAssumption`. Two inductive invariants carry it. `IInv` follows the
audio. `AudioConserved` at the end of a session is not inductive: a confirmed stop relays everything only
because of what every earlier step left, which `FinishOK` records step by step: the end mark is put behind
the audio by `session.stop` alone, the stop is sent to the provider only when the audio task has ended,
and its answer counts only if that task did not end by a fault (`AudioDone` says what an audio task that
ended otherwise has reported, `LoopOK` that a run() in its loop still has its watcher). `FlowOK` has the
queues until cleanup and after it, `SessionOK` what the protocol state says of the audio, `DeadlineOK` the
deadline also while an answer is being sent, `TaskOK` what a task has at hand. `RInv` follows the results:
until the sender ends, what is kept of the results is what has been sent, what the sender has at hand and
the results in the queue, in this order (`ResultsFlow`); the transcripts sent are numbered from the
start that was asked for, up to the next number (`NumbersRun`); and before the tasks exist there is nothing to forward
(`NothingYet`), or `session.start` would renumber what has been sent.

`AsrPipeline_proofs.tla` proves `TypeOK`, `PendingJobs`, `ClientAccepts` and `NoWorkAfterRelease` for any
number of sessions and segments and all sizes of queues and batches that satisfy `PipelineAssumption`. A
session's count of jobs is only right together with where its jobs are: `PendingOK` counts them, being
put, in the shared queue and in the batch, as lengths of selections (`JobsOf`), and says when the event
`drained` may be set. What the client gets follows from the order of everything on its way:
`SegmentsOK` says that the segments that wait, in the batch and then in the queue, are numbered
consecutively from the number of results given; `StreamOK`, that what was sent, what the emit task has in
hand and the queue of results form one stream, whose i-th entry is the verdict of the i-th segment or an
end mark, so that the totals of `session.ended` are those of the results before it; `SentOK` keeps this
for what was sent after the emit task has ended, and `FatalOK` that a verdict that fails the session is
not sent. The sizes need an argument for the release only: what it puts back into the queue is a selection
of what was there. After a release the loop may still hold one result that it has counted; that it holds no
second one, and that the emptied queue stays empty otherwise, is why one is the bound of
`NoWorkAfterRelease`. `StageOK` and `LoopOK` say how handler, tasks, session and loop belong together.

`SegmentAttribution_proofs.tla` proves `SnapshotCurrent`, `NameMatchesVoice`, `EvidenceOfTranscripts`
and `WaitEnds` for any team, slots, voices, delays and order of failures, under `AttributionAssumption`.
The parts of `IInv`: kinds of the variables (`KindsOK`); the order in which results, extractions and the emit task
stand (`OrderOK`); which extraction has a vector, failed or still runs (`FuturesOK`); the evidence
was counted from exactly the segments heard (`CountedOK`), and its sums are theirs (`SumsOK`); every message on its way to
the client was current when it was put, and the last snapshot of them is the last one sent
(`OutboxOK`, `MapperOK`, `DeliveredOK`). That only changed snapshots are sent needs the last three
together: none says alone that the copy of the client stays current. What `Best` returns is used
only through its definition (`SpeakerMatching`); that the dynamic program computes it is a theorem of
`Computations_proofs`.

`Computations_proofs.tla` proves the properties of the run `computations` for inputs of any length. Each
computation has an inductive invariant of its own, and most of the work is in lemmas that say what a loop
of the code has achieved after n elements.

* Speaker mapping (`AssignmentOptimal`). `AssignmentOK`: an entry of the dict is a matching of the members
  so far with its total, and no two are of the same slots (`DictOK`); no matching of the members so far is
  better than the entry of its slots (`BestOK`); and within a member (`MemberOK`), the copy offers all that
  the dict does, and for each pair tried what the dict's entry gives with one slot more. `WithoutLast` is
  why this suffices: a matching of one member more is one without it, or one plus a slot, whose gain is
  added to the total. That the dict that is read stays as it is while its copy is written is essential:
  otherwise an entry that already uses the member would be extended by it once more.
* Attribution (`AttributedToLongest`). `AttributionOK`: the spans of each speaker lie apart and cover what
  the speaker said in the intervals so far (`MergedOK`). `TotalCounts`: over spans that lie apart, the sum
  of the overlaps is the number of instants covered.
* Metrics (`MetricsCountOnce`). A sort keeps the segments (`Holds`) and puts them in order (`InOrder`), by
  inserting one after another (`InsertedInOrder`). After the sort by sequence number the place of a segment is
  the number of segments said before it (`PlacesCounted`), so that the selection of ranges takes those the
  ranges name; after the sort by start the running end counts each instant once
  (`SummedCounts`, `DurationCounts`).
* STT context. `ContextSources`: what the selection admits is what was listed, each once and in the
  order of the selection (`Admitted`, `Precedes`), which `ContextOK` keeps while summaries are read.
  `ContextLines`: the lines that end before the limit are the first ones, since sizes rise (`EndedIs`), and
  without the blank lines at its end a beginning is still one, the longer for a longer beginning
  (`StrippedBeginnings`); `CutKeepsLines` puts these together for what `Cut` returns.
* Words of the other provider (`WordsKept`). `TranscriptsOK`: the transcripts and the buffer, joined, are
  the words received (`Grouped`), each is of one speaker, one sentence and not longer than a group may be
  (`Whole`), and what is buffered may still be continued (`Open`).
* Batch of the ASR model (`JudgedAlone`). `BatchOK`: each verdict is that of the output of its own job,
  whichever of the calls generated it.

`CollectionLemmas.tla` has what these proofs need of collections and the library does not state in a form
the provers can use: its induction theorems take an operator. Induction is stated over sets instead (a set
of numbers that holds 0 and every successor is all of them; the same for finite sets and for sequences),
so that a fact is proved by defining the set of the values it holds for. From it follow the lemmas on sums over finite
sets and over sequences (`SumTakeOut`, `SumAdd`, `SumOfAppend`, `SumOfTail`), on `Selected`
(of an appended, a first or no element, of two queues, of a selection, its length) and on prefixes;
`RecursionExists`, that a recursive function over 1 .. m is what its equation says, which every proof about
a loop begins with, `UpToInduction` and `GreatestUpTo` over its indices; and what becomes of the elements of
a sequence that is flattened (`FlattenOfAppend`) or into which one is inserted (`InsertedAt`).

The assumptions on constants are those the modules name; TLC evaluates each in a run. Most give a
constant its type. Those that say more: the geometry of the limits and of the buffer (`GeometryAssumption`,
`BufferAssumption`), that the limits of rounds and calls of the model are positive and "none" is no meeting
(`AssistantAssumption`), and in `SegmentAttribution` that `None` is no slot, that a voice is somewhat
similar to a member and that durations are positive. The computations need `AssignmentAssumption` (members
and slots are numbered, cosines are scaled to integers), `AttributionAssumption` (times are milliseconds
from the beginning of the recording, and nobody is no speaker), `WordsAssumption` (lengths of words
and their limit are natural numbers, and nobody is no voice), `MetricsAssumption` (times are natural numbers)
and `ContextAssumption` (the limit is a number).
The theorems on times and gains are about integers: that rounding of floating-point cosines can make two
mappings of almost the same sum change places is left out.

Only model-checked: liveness (`EndsOnceLeft`, `StopEnds`, `LoopGoesOn`, `EveryoneLeaves`), which the
provers do not reach, since it needs ENABLED; and the three expected violations of section 7, which are
counterexamples.

## 7. Disagreements between code and comments

* `ended_after_transcripts`: the docstring of `_finish_transcription` says that the remaining audio and
  the last transcripts are delivered before the end is allowed. The sender stores a failed send in the
  background error and returns, so that waiting for it succeeds; the loop sends `session.ended` before
  the watcher gets to run. The same race cannot happen for audio (the last part of `AudioConserved`
  holds), because the
  provider's answer to the stop comes at least two turns of the event loop later.
* `diarization_answer`: the comment in `_call_worker` says that the lock is held until the RPC completes.
  Two cancellations of the same task, the handler's and the drain timer's, interrupt that wait; another
  session then reads the answer of the cancelled one.
* `context_lines`: the test of the cut expects everything up to the last complete line within 800
  characters. When a line ends exactly at the 800th character, its line end is outside of the prefix the
  code looks at, and the complete line is dropped with it. The code's own comment, that no term is cut in
  its middle, holds (`ContextLines`).

## 8. Not modelled

* Formats, logging, metrics of the service, model calls and image builds; the one-shot HTTP services.
* The capacity counter of the live service: it is read and raised without an await in between and
  lowered in a `finally`, so that no order of connections can disturb it.
* The client's comparison of times and byte counts, and the time offset of a resumed session: conversions
  between samples, milliseconds and bytes in formats of two services, on values the models do not carry.
  `ClientAccepts` is about numbers and totals only.
* A second cancellation of a request while its cleanup is already running: `NothingLeft` covers those that
  come before.
* A failure of the write of a request to the diarization worker by itself: it is taken at the read of the
  answer, where the code has the same consequence, the failure of the runtime.
* Results of Speechmatics without alternatives, without content or without a speaker: the first two are
  skipped by the code, and with diarization on its service names a speaker of every word.
* The status events of the assistant and the framing of its stream; the sizes of inputs of the chat.
* `start` and `send_audio` of the Speechmatics client, which hand over to its SDK and report its errors.
* The script that verifies a deployed pipeline and the fake providers for load tests: clients and doubles
  of the code modelled here, not parts of it.
* Heartbeats are inputs of the connection, but not a flood of them that keeps a timer from firing; that
  needs a model of the event loop's ready queue.
