--------------------------- MODULE AsrPipeline_proofs ---------------------------
(***************************************************************************)
(* Proofs about AsrPipeline, for any number of connections, recordings,    *)
(* turns and places in the queues: pending_jobs counts the jobs of every   *)
(* session, and what a client receives is what the recording server        *)
(* expects.                                                                *)
(*                                                                         *)
(* The invariant follows every segment of a session: from the queue        *)
(* through the batch (Waiting), and its result through the results and the *)
(* hands of the emit task to the client (Stream).  The numbers of the ones *)
(* go on where those of the others end.                                    *)
(***************************************************************************)
EXTENDS AsrPipeline, CollectionLemmas

-----------------------------------------------------------------------------
\* Where the loop is, and what that says of its jobs.

LoopOK ==
  /\ loop = "dead" <=> failure # "none"
  /\ loop \in {"idle", "dead"} => batch = << >>
  /\ loop \in {"idle", "collecting", "dead"} => jobs = << >>
  /\ \A c \in Connections : JobsOf(c, jobs) =< JobsOf(c, batch)
  /\ loop \in Verdicts =>
       /\ jobs # << >>
       /\ Aborted(Head(jobs).conn) => At(handler, Head(jobs).conn, "closed")

\* How the tasks of a connection, its handler and its session belong together.
StageOK(c) ==
  LET s == session[c]
  IN /\ At(handler, c, "new") =>
          /\ At(ingest, c, "none") /\ At(emit, c, "none")
          /\ s = NewSession /\ results[c] = << >> /\ sent[c] = << >>
     /\ At(handler, c, "serving") => ingest[c] # "none"
     /\ At(handler, c, "leaving") => At(ingest, c, "done") /\ At(emit, c, "done")
     /\ At(handler, c, "closed") =>
          \/ At(ingest, c, "none") /\ At(emit, c, "none") /\ s = NewSession
          \/ At(ingest, c, "done") /\ At(emit, c, "done") /\ s.aborted = "yes"
     /\ ingest[c] \in {"draining", "ending", "closing"} => s.stopping = "yes"
     /\ ingest[c] \in {"ending", "closing"} => s.pending_jobs = 0
     /\ At(ingest, c, "ending") => s.aborted = "no"
     /\ s.aborted = "yes" => s.failure # "none" \/ At(handler, c, "closed")

\* pending_jobs and drained.
PendingOK(c) ==
  LET s == session[c]
  IN /\ s.pending_jobs = JobsOf(c, asr_queue) + JobsOf(c, batch) +
                         (IF At(ingest, c, "putting") THEN 1 ELSE 0)
     /\ s.pending_jobs = 0 => s.drained = "set"
     /\ s.drained = "set" => s.pending_jobs = 0 \/ s.failure # "none"

-----------------------------------------------------------------------------
\* The segments that wait for their verdict, in the order of the loop.

Own(c, queue) == Selected(JobsFor({c}), queue)

\* The jobs that the loop goes through before those of the queue.
Ahead == IF loop = "collecting" THEN batch ELSE jobs

Waiting(c) == Own(c, Ahead) \o Own(c, asr_queue)

\* A verdict that is counted and whose result is not put yet.
Due(c, verdicts) == IF loop \in verdicts /\ Head(jobs).conn = c THEN 1 ELSE 0

\* The results that have been put.
Given(c) == session[c].succeeded + session[c].failed - Due(c, Verdicts)

\* The segments from Given on wait, one after the other.
SegmentsOK(c) ==
  session[c].aborted = "no" /\ failure = "none" =>
    /\ Given(c) + Len(Waiting(c)) = session[c].segments
    /\ \A i \in 1 .. Len(Waiting(c)) : Waiting(c)[i].id = Given(c) + i - 1

-----------------------------------------------------------------------------
\* The results on their way to the client.

Active(c) == emit[c] \in {"waiting", "sending"}

InHand(c) == IF At(emit, c, "sending") THEN <<sending[c]>> ELSE << >>

Stream(c) == (sent[c] \o InHand(c)) \o results[c]

\* The session will do nothing more.
Settled(c) ==
  /\ session[c].stopping = "yes" /\ session[c].pending_jobs = 0
  /\ ingest[c] \in {"closing", "done", "failed"}

\* How many results of some kinds a stream holds.
Results(kinds, stream) == Len(Selected([kind : kinds, id : Nat], stream))

\* The i-th result of the stream is the verdict of the i-th segment, or one of
\* the two marks at the end.
StreamItem(c, i) ==
  LET m == Stream(c)
  IN \/ m[i].kind \in Verdicts /\ m[i].id = i - 1
     \/ /\ m[i] = Ended /\ Settled(c) /\ session[c].aborted = "no"
        /\ \/ i = Len(m) /\ ingest[c] \in {"closing", "failed"}
           \/ i = Len(m) - 1 /\ m[Len(m)] = EofMark /\ At(ingest, c, "done")
     \/ m[i] = EofMark /\ i = Len(m) /\ Settled(c) /\ At(ingest, c, "done")

StreamOK(c) ==
  Active(c) =>
    /\ \A i \in 1 .. Len(Stream(c)) : StreamItem(c, i)
    /\ session[c].aborted = "no" =>
         /\ ~Settled(c) => Len(Stream(c)) = Given(c)
         /\ Results({"committed"}, Stream(c))
            = session[c].succeeded - Due(c, {"committed"})
         /\ Results({"failed", "fatal"}, Stream(c))
            = session[c].failed - Due(c, {"failed", "fatal"})

\* A verdict that fails the session is not sent.
FatalOK(c) ==
  /\ loop = "fatal" /\ Head(jobs).conn = c => session[c].failure # "none"
  /\ \A i \in 1 .. Len(results[c]) :
       results[c][i].kind = "fatal" => session[c].failure # "none"
  /\ At(emit, c, "sending") => sending[c].kind \notin {"fatal", "eof"}

\* What has been sent.
SentItem(c, i) ==
  \/ sent[c][i].kind \in {"committed", "failed"} /\ sent[c][i].id = i - 1
  \/ /\ sent[c][i] = Ended /\ i = Len(sent[c]) /\ Settled(c)
     /\ Results({"committed"}, sent[c]) = session[c].succeeded
     /\ Results({"failed", "fatal"}, sent[c]) = session[c].failed

SentOK(c) == \A i \in 1 .. Len(sent[c]) : SentItem(c, i)

IInv ==
  /\ TypeOK /\ LoopOK
  /\ \A c \in Connections : StageOK(c) /\ PendingOK(c) /\ SegmentsOK(c)
                            /\ StreamOK(c) /\ FatalOK(c) /\ SentOK(c)

-----------------------------------------------------------------------------
\* The jobs of one connection in a queue.

LEMMA JobIsOwn ==
  ASSUME NEW j \in Job, NEW c
  PROVE  j \in JobsFor({c}) <=> j.conn = c
BY DEF Job, JobsFor

LEMMA OwnOf ==
  ASSUME NEW q \in Seq(Job), NEW c
  PROVE  /\ Own(c, q) \in Seq(Job) /\ JobsOf(c, q) = Len(Own(c, q))
         /\ JobsOf(c, q) \in Nat
         /\ JobsOf(c, q) = 0 <=> Own(c, q) = << >>
<1>1. Own(c, q) \in Seq(Job)
  BY SelectedSeq DEF Own
<1>2. Len(Own(c, q)) \in Nat /\ (Own(c, q) # << >> => Len(Own(c, q)) # 0)
  BY <1>1, LenProperties, EmptySeq
<1>3. Len(<< >>) = 0
  OBVIOUS
<1>4. QED
  BY <1>1, <1>2, <1>3 DEF Own, JobsOf

LEMMA OwnOfEmpty ==
  ASSUME NEW c
  PROVE  Own(c, << >>) = << >> /\ JobsOf(c, << >>) = 0
<1>1. Len(<< >>) = 0
  OBVIOUS
<1>2. QED
  BY <1>1, SelectedOfEmpty DEF Own, JobsOf

LEMMA OwnOfAppend ==
  ASSUME NEW q \in Seq(Job), NEW j \in Job, NEW c
  PROVE  /\ Own(c, Append(q, j)) = IF j.conn = c THEN Append(Own(c, q), j) ELSE Own(c, q)
         /\ JobsOf(c, Append(q, j)) = JobsOf(c, q) + (IF j.conn = c THEN 1 ELSE 0)
<1>1. Own(c, Append(q, j)) = IF j.conn = c THEN Append(Own(c, q), j) ELSE Own(c, q)
  BY SelectedOfAppend, JobIsOwn DEF Own
<1>2. Own(c, q) \in Seq(Job) /\ Append(q, j) \in Seq(Job) /\ JobsOf(c, q) \in Nat
  BY OwnOf, AppendProperties
<1>3. Len(Append(Own(c, q), j)) = Len(Own(c, q)) + 1
  BY <1>2, AppendProperties
<1>4. /\ JobsOf(c, q) = Len(Own(c, q))
      /\ JobsOf(c, Append(q, j)) = Len(Own(c, Append(q, j)))
  BY DEF JobsOf, Own
<1>5. QED
  BY <1>1, <1>2, <1>3, <1>4

LEMMA OwnOfTail ==
  ASSUME NEW q \in Seq(Job), q # << >>, NEW c
  PROVE  /\ Head(q) \in Job /\ Tail(q) \in Seq(Job)
         /\ Own(c, q) = IF Head(q).conn = c THEN <<Head(q)>> \o Own(c, Tail(q))
                        ELSE Own(c, Tail(q))
         /\ JobsOf(c, q) = (IF Head(q).conn = c THEN 1 ELSE 0) + JobsOf(c, Tail(q))
<1>1. Head(q) \in Job /\ Tail(q) \in Seq(Job)
  BY HeadTailProperties
<1>2. Own(c, q) = IF Head(q).conn = c THEN <<Head(q)>> \o Own(c, Tail(q))
                  ELSE Own(c, Tail(q))
  BY <1>1, SelectedOfTail, JobIsOwn DEF Own
<1> DEFINE h == Head(q)
           r == Own(c, Tail(q))
<1>3. r \in Seq(Job) /\ Len(r) \in Nat /\ <<h>> \in Seq(Job) /\ Len(<<h>>) = 1
  <2>1. r \in Seq(Job) /\ Len(r) \in Nat
    BY <1>1, OwnOf, LenProperties
  <2>2. h \in Job
    BY <1>1
  <2> HIDE DEF h, r
  <2>3. QED
    BY <2>1, <2>2
<1>4. Len(<<h>> \o r) = 1 + Len(r)
  <2> HIDE DEF h, r
  <2>1. QED
    BY <1>3, ConcatProperties
<1>5. JobsOf(c, q) = Len(Own(c, q)) /\ JobsOf(c, Tail(q)) = Len(r)
  BY DEF JobsOf, Own
<1> HIDE DEF r
<1>6. QED
  BY <1>1, <1>2, <1>3, <1>4, <1>5 DEF r

\* Dropping the jobs of some connections leaves those of the others as they are.
LEMMA OwnOfSelected ==
  ASSUME NEW q \in Seq(Job), NEW C \in SUBSET Connections, NEW c \in Connections
  PROVE  /\ Selected(JobsFor(C), q) \in Seq(Job)
         /\ c \in C => /\ Own(c, Selected(JobsFor(C), q)) = Own(c, q)
                       /\ JobsOf(c, Selected(JobsFor(C), q)) = JobsOf(c, q)
         /\ c \notin C => JobsOf(c, Selected(JobsFor(C), q)) = 0
<1>1. c \in C => JobsFor({c}) \subseteq JobsFor(C)
  BY DEF JobsFor
<1>2. c \notin C => JobsFor({c}) \cap JobsFor(C) = {}
  BY DEF JobsFor
<1>3. Len(<< >>) = 0
  OBVIOUS
<1>4. Selected(JobsFor(C), q) \in Seq(Job)
  BY SelectedSeq
<1>5. QED
  BY <1>1, <1>2, <1>3, <1>4, SelectedOfSelected DEF Own, JobsOf

\* job_done keeps all but the counter and the event.
LEMMA JobsDoneIs ==
  ASSUME NEW s \in Session, NEW n \in Nat, n =< s.pending_jobs
  PROVE  /\ JobsDone(s, n) \in Session
         /\ JobsDone(s, n).pending_jobs = s.pending_jobs - n
         /\ JobsDone(s, n).drained = IF n # 0 /\ s.pending_jobs = n THEN "set" ELSE s.drained
         /\ n = 0 => JobsDone(s, n) = s
         /\ JobsDone(s, n).stopping = s.stopping
         /\ JobsDone(s, n).segments = s.segments
         /\ JobsDone(s, n).succeeded = s.succeeded
         /\ JobsDone(s, n).failed = s.failed
         /\ JobsDone(s, n).aborted = s.aborted
         /\ JobsDone(s, n).failure = s.failure
<1>1. CASE n = 0
  BY <1>1 DEF JobsDone, Session
<1>2. CASE n # 0
  <2> DEFINE drained == IF s.pending_jobs = n THEN "set" ELSE s.drained
             r == [s EXCEPT !.pending_jobs = s.pending_jobs - n, !.drained = drained]
  <2>1. JobsDone(s, n) = r
    BY <1>2 DEF JobsDone
  <2>2. s.pending_jobs - n \in Nat /\ drained \in {"set", "clear"}
    BY DEF Session
  <2> HIDE DEF drained
  <2>3. r \in Session
    BY <2>2 DEF Session
  <2>4. /\ r.pending_jobs = s.pending_jobs - n /\ r.drained = drained
        /\ r.stopping = s.stopping /\ r.segments = s.segments
        /\ r.succeeded = s.succeeded /\ r.failed = s.failed
        /\ r.aborted = s.aborted /\ r.failure = s.failure
    BY DEF Session
  <2> HIDE DEF r
  <2>5. QED
    BY <1>2, <2>1, <2>3, <2>4 DEF drained
<1>3. QED
  BY <1>1, <1>2

-----------------------------------------------------------------------------
\* Type correctness.

\* Nothing is counted off that has not been counted.
LEMMA PendingBounds ==
  ASSUME IInv, NEW c \in Connections
  PROVE  /\ session[c] \in Session
         /\ JobsOf(c, asr_queue) \in Nat /\ JobsOf(c, batch) \in Nat /\ JobsOf(c, jobs) \in Nat
         /\ JobsOf(c, asr_queue) =< session[c].pending_jobs
         /\ JobsOf(c, batch) =< session[c].pending_jobs
         /\ JobsOf(c, jobs) =< session[c].pending_jobs
         /\ At(ingest, c, "putting") => 1 =< session[c].pending_jobs
<1>1. TypeOK /\ PendingOK(c) /\ LoopOK
  BY DEF IInv
<1>2. session[c] \in Session
  BY <1>1 DEF TypeOK
<1>3. JobsOf(c, asr_queue) \in Nat /\ JobsOf(c, batch) \in Nat /\ JobsOf(c, jobs) \in Nat
  BY <1>1, OwnOf DEF TypeOK
<1>4. JobsOf(c, jobs) =< JobsOf(c, batch)
  BY <1>1 DEF LoopOK
<1>5. session[c].pending_jobs = JobsOf(c, asr_queue) + JobsOf(c, batch) +
                                (IF At(ingest, c, "putting") THEN 1 ELSE 0)
  BY <1>1 DEF PendingOK
<1>6. QED
  BY <1>2, <1>3, <1>4, <1>5

\* Only the counter and the event change, if anything does.
OnlyCounted(s, r, n) ==
  /\ r \in Session /\ n =< s.pending_jobs
  /\ r.pending_jobs = s.pending_jobs - n
  /\ r.drained = IF n # 0 /\ s.pending_jobs = n THEN "set" ELSE s.drained
  /\ n = 0 => r = s
  /\ r.stopping = s.stopping /\ r.segments = s.segments
  /\ r.succeeded = s.succeeded /\ r.failed = s.failed
  /\ r.aborted = s.aborted /\ r.failure = s.failure

LEMMA InterruptedIs ==
  ASSUME IInv, NEW c \in Connections
  PROVE  OnlyCounted(session[c], Interrupted(c), IF At(ingest, c, "putting") THEN 1 ELSE 0)
<1>1. CASE At(ingest, c, "putting")
  BY <1>1, PendingBounds, JobsDoneIs DEF Interrupted, OnlyCounted
<1>2. CASE ~At(ingest, c, "putting")
  <2>1. Interrupted(c) = session[c] /\ session[c] \in Session
    BY <1>2, PendingBounds DEF Interrupted
  <2>2. session[c].pending_jobs \in Nat
    BY <2>1 DEF Session
  <2>3. QED
    BY <1>2, <2>1, <2>2 DEF OnlyCounted
<1>3. QED
  BY <1>1, <1>2

LEMMA BatchDoneIs ==
  ASSUME IInv
  PROVE  /\ BatchDone \in [Connections -> Session]
         /\ \A c \in Connections : OnlyCounted(session[c], BatchDone[c], JobsOf(c, batch))
<1>1. \A c \in Connections : OnlyCounted(session[c], BatchDone[c], JobsOf(c, batch))
  BY PendingBounds, JobsDoneIs DEF BatchDone, OnlyCounted
<1>2. \A c \in Connections : BatchDone[c] \in Session
  BY <1>1 DEF OnlyCounted
<1>3. QED
  BY <1>1, <1>2 DEF BatchDone

LEMMA ReleasedIs ==
  ASSUME IInv, NEW c \in Connections
  PROVE  OnlyCounted(session[c], JobsDone(session[c], Dropped(c)), JobsOf(c, asr_queue))
BY PendingBounds, JobsDoneIs DEF Dropped, OnlyCounted

\* The session after CloseTurn, field by field; the other actions likewise.
LEMMA SessionCloseTurn ==
  ASSUME TypeOK, NEW c \in Connections, CloseTurn(c)
  PROVE  LET s == session[c]
             r == session'[c]
         IN /\ session' = [session EXCEPT ![c] = r] /\ r \in Session
            /\ r.stopping = s.stopping /\ r.segments = s.segments
            /\ r.pending_jobs = s.pending_jobs + 1 /\ r.succeeded = s.succeeded
            /\ r.failed = s.failed /\ r.drained = "clear"
            /\ r.aborted = s.aborted /\ r.failure = s.failure
<1> DEFINE s == session[c]
           r == [s EXCEPT !.pending_jobs = s.pending_jobs + 1, !.drained = "clear"]
<1>1. s \in Session /\ s.pending_jobs + 1 \in Nat
  BY DEF TypeOK, Session
<1>2. session' = [session EXCEPT ![c] = r]
  BY DEF CloseTurn, TypeOK
<1>3. session'[c] = r
  BY <1>2 DEF TypeOK
<1> HIDE DEF s
<1>4. /\ r \in Session
      /\ r.stopping = s.stopping /\ r.segments = s.segments
      /\ r.pending_jobs = s.pending_jobs + 1 /\ r.succeeded = s.succeeded
      /\ r.failed = s.failed /\ r.drained = "clear"
      /\ r.aborted = s.aborted /\ r.failure = s.failure
  BY <1>1 DEF Session
<1> HIDE DEF r
<1>5. QED
  BY <1>2, <1>3, <1>4 DEF s

\* PutJob.
LEMMA SessionPutJob ==
  ASSUME TypeOK, NEW c \in Connections, PutJob(c)
  PROVE  LET s == session[c]
             r == session'[c]
         IN /\ session' = [session EXCEPT ![c] = r] /\ r \in Session
            /\ r.stopping = s.stopping /\ r.segments = s.segments + 1
            /\ r.pending_jobs = s.pending_jobs /\ r.succeeded = s.succeeded
            /\ r.failed = s.failed /\ r.drained = s.drained
            /\ r.aborted = s.aborted /\ r.failure = s.failure
<1> DEFINE s == session[c]
           r == [s EXCEPT !.segments = s.segments + 1]
<1>1. s \in Session /\ s.segments + 1 \in Nat
  BY DEF TypeOK, Session
<1>2. session' = [session EXCEPT ![c] = r]
  BY DEF PutJob, TypeOK
<1>3. session'[c] = r
  BY <1>2 DEF TypeOK
<1> HIDE DEF s
<1>4. /\ r \in Session
      /\ r.stopping = s.stopping /\ r.segments = s.segments + 1
      /\ r.pending_jobs = s.pending_jobs /\ r.succeeded = s.succeeded
      /\ r.failed = s.failed /\ r.drained = s.drained
      /\ r.aborted = s.aborted /\ r.failure = s.failure
  BY <1>1 DEF Session
<1> HIDE DEF r
<1>5. QED
  BY <1>2, <1>3, <1>4 DEF s

\* Stop.
LEMMA SessionStop ==
  ASSUME TypeOK, NEW c \in Connections, Stop(c)
  PROVE  LET s == session[c]
             r == session'[c]
         IN /\ session' = [session EXCEPT ![c] = r] /\ r \in Session
            /\ r.stopping = "yes" /\ r.segments = s.segments
            /\ r.pending_jobs = s.pending_jobs /\ r.succeeded = s.succeeded
            /\ r.failed = s.failed /\ r.drained = s.drained
            /\ r.aborted = s.aborted /\ r.failure = s.failure
<1> DEFINE s == session[c]
           r == [s EXCEPT !.stopping = "yes"]
<1>1. s \in Session
  BY DEF TypeOK, Session
<1>2. session' = [session EXCEPT ![c] = r]
  BY DEF Stop, TypeOK
<1>3. session'[c] = r
  BY <1>2 DEF TypeOK
<1> HIDE DEF s
<1>4. /\ r \in Session
      /\ r.stopping = "yes" /\ r.segments = s.segments
      /\ r.pending_jobs = s.pending_jobs /\ r.succeeded = s.succeeded
      /\ r.failed = s.failed /\ r.drained = s.drained
      /\ r.aborted = s.aborted /\ r.failure = s.failure
  BY <1>1 DEF Session
<1> HIDE DEF r
<1>5. QED
  BY <1>2, <1>3, <1>4 DEF s

\* A result that is counted; verdict says where the loop is then.
CountsVerdict(c) ==
  /\ loop \in {"transcribing", "delivering"} /\ jobs # << >> /\ c = Head(jobs).conn
  /\ ~Aborted(c) /\ loop' \in Verdicts
  /\ session' = [session EXCEPT ![c] = Judged(@, loop')]
  /\ UNCHANGED <<connVars, jobs, results, asr_queue, batch, failure>>

LEMMA SessionCountResult ==
  ASSUME TypeOK, NEW c \in Connections, CountsVerdict(c)
  PROVE  LET s == session[c]
             r == session'[c]
         IN /\ session' = [session EXCEPT ![c] = r] /\ r \in Session
            /\ r.stopping = s.stopping /\ r.segments = s.segments
            /\ r.pending_jobs = s.pending_jobs /\ r.drained = s.drained
            /\ r.succeeded = s.succeeded + (IF loop' = "committed" THEN 1 ELSE 0)
            /\ r.failed = s.failed + (IF loop' = "committed" THEN 0 ELSE 1)
            /\ r.aborted = s.aborted
            /\ r.failure = IF loop' = "fatal" THEN "asr_result_mismatch" ELSE s.failure
<1> DEFINE s == session[c]
           r == Judged(s, loop')
<1>1. /\ s \in Session /\ s.succeeded \in Nat /\ s.failed \in Nat
      /\ s.succeeded + 1 \in Nat /\ s.failed + 1 \in Nat
  BY DEF TypeOK, Session
<1>2. session' = [session EXCEPT ![c] = r]
  BY DEF CountsVerdict, TypeOK
<1>3. session'[c] = r
  BY <1>2 DEF TypeOK
<1>4. loop' \in {"committed", "failed", "fatal"}
  BY DEF CountsVerdict, Verdicts
<1> HIDE DEF s
<1>5. /\ r \in Session
      /\ r.stopping = s.stopping /\ r.segments = s.segments
      /\ r.pending_jobs = s.pending_jobs /\ r.drained = s.drained
      /\ r.succeeded = s.succeeded + (IF loop' = "committed" THEN 1 ELSE 0)
      /\ r.failed = s.failed + (IF loop' = "committed" THEN 0 ELSE 1)
      /\ r.aborted = s.aborted
      /\ r.failure = IF loop' = "fatal" THEN "asr_result_mismatch" ELSE s.failure
  <2>1. CASE loop' = "committed"
    <3>1. r = [s EXCEPT !.succeeded = s.succeeded + 1]
      BY <2>1 DEF Judged
    <3>2. QED
      BY <1>1, <2>1, <3>1 DEF Session
  <2>2. CASE loop' = "failed"
    <3>1. r = [s EXCEPT !.failed = s.failed + 1]
      BY <2>2 DEF Judged
    <3>2. QED
      BY <1>1, <2>2, <3>1 DEF Session
  <2>3. CASE loop' = "fatal"
    <3> DEFINE t == [s EXCEPT !.failed = s.failed + 1,
                              !.failure = "asr_result_mismatch"]
    <3>1. r = t
      BY <2>3 DEF Judged
    <3>2. /\ t \in Session /\ t.stopping = s.stopping /\ t.segments = s.segments
          /\ t.pending_jobs = s.pending_jobs /\ t.drained = s.drained
          /\ t.succeeded = s.succeeded /\ t.failed = s.failed + 1
          /\ t.aborted = s.aborted /\ t.failure = "asr_result_mismatch"
      BY <1>1 DEF Session
    <3> HIDE DEF t, r
    <3>3. s.succeeded + 0 = s.succeeded
      BY <1>1
    <3>4. QED
      BY <2>3, <3>1, <3>2, <3>3
  <2>4. QED
    BY <1>4, <2>1, <2>2, <2>3
<1> HIDE DEF r
<1>6. QED
  BY <1>2, <1>3, <1>5 DEF s

\* A client is cut off.
CutsOff(c) ==
  /\ loop \in Verdicts /\ c = Head(jobs).conn /\ Len(results[c]) >= RESULTS
  /\ session' = [session EXCEPT ![c].aborted = "yes", ![c].drained = "set",
                                ![c].failure = "result_delivery_timeout"]
  /\ jobs' = Tail(jobs) /\ loop' = "delivering"
  /\ UNCHANGED <<connVars, results, asr_queue, batch, failure>>

LEMMA SessionCutOff ==
  ASSUME TypeOK, NEW c \in Connections, CutsOff(c)
  PROVE  LET s == session[c]
             r == session'[c]
         IN /\ session' = [session EXCEPT ![c] = r] /\ r \in Session
            /\ r.stopping = s.stopping /\ r.segments = s.segments
            /\ r.pending_jobs = s.pending_jobs /\ r.succeeded = s.succeeded
            /\ r.failed = s.failed /\ r.drained = "set"
            /\ r.aborted = "yes" /\ r.failure = "result_delivery_timeout"
<1> DEFINE s == session[c]
           r == [s EXCEPT !.aborted = "yes", !.drained = "set", !.failure = "result_delivery_timeout"]
<1>1. s \in Session
  BY DEF TypeOK, Session
<1>2. session' = [session EXCEPT ![c] = r]
  BY DEF CutsOff, TypeOK
<1>3. session'[c] = r
  BY <1>2 DEF TypeOK
<1> HIDE DEF s
<1>4. /\ r \in Session
      /\ r.stopping = s.stopping /\ r.segments = s.segments
      /\ r.pending_jobs = s.pending_jobs /\ r.succeeded = s.succeeded
      /\ r.failed = s.failed /\ r.drained = "set"
      /\ r.aborted = "yes" /\ r.failure = "result_delivery_timeout"
  BY <1>1 DEF Session
<1> HIDE DEF r
<1>5. QED
  BY <1>2, <1>3, <1>4 DEF s

\* Release.
LEMMA SessionRelease ==
  ASSUME IInv, NEW c \in Connections, Release(c)
  PROVE  LET s == session[c]
             r == session'[c]
         IN /\ session' = [session EXCEPT ![c] = r] /\ r \in Session
            /\ r.stopping = s.stopping /\ r.segments = s.segments
            /\ r.pending_jobs = s.pending_jobs - JobsOf(c, asr_queue)
            /\ r.drained = (IF JobsOf(c, asr_queue) # 0
                               /\ s.pending_jobs = JobsOf(c, asr_queue)
                            THEN "set" ELSE s.drained)
            /\ r.succeeded = s.succeeded /\ r.failed = s.failed
            /\ r.aborted = "yes" /\ r.failure = s.failure
<1> DEFINE s == session[c]
           t == JobsDone(s, Dropped(c))
           r == [t EXCEPT !.aborted = "yes"]
<1>1. OnlyCounted(s, t, JobsOf(c, asr_queue))
  BY ReleasedIs
<1>2. session' = [session EXCEPT ![c] = r]
  BY DEF Release
<1>3. TypeOK
  BY DEF IInv
<1>4. session'[c] = r
  BY <1>2, <1>3 DEF TypeOK
<1> HIDE DEF t
<1>5. /\ r \in Session /\ r.aborted = "yes"
      /\ r.stopping = t.stopping /\ r.segments = t.segments
      /\ r.pending_jobs = t.pending_jobs /\ r.drained = t.drained
      /\ r.succeeded = t.succeeded /\ r.failed = t.failed /\ r.failure = t.failure
  BY <1>1 DEF Session, OnlyCounted
<1> HIDE DEF r, s
<1>6. QED
  BY <1>1, <1>2, <1>4, <1>5 DEF OnlyCounted, s

\* What is selected from a queue is no longer than it.
LEMMA SelectedNoLonger ==
  ASSUME NEW S, NEW q \in Seq(S), NEW X
  PROVE  Len(Selected(X, q)) =< Len(q)
<1> DEFINE I == {i \in 1 .. Len(q) : q[i] \in X}
<1>1. Len(Selected(X, q)) = Cardinality(I)
  BY LenOfSelected
<1>2. Len(q) \in Nat
  BY LenProperties
<1>3. IsFiniteSet(1 .. Len(q)) /\ Cardinality(1 .. Len(q)) = Len(q)
  BY <1>2, FS_Interval
<1>4. Cardinality(I) =< Cardinality(1 .. Len(q))
  BY <1>3, FS_Subset
<1>5. QED
  BY <1>1, <1>3, <1>4

\* A result is put only where there is room for it.
LEMMA PutFits ==
  ASSUME TypeOK, NEW c \in Connections, NEW m, Len(results[c]) < RESULTS,
         results' = [results EXCEPT ![c] = Append(results[c], m)], m \in Result
  PROVE  \A d \in Connections : Len(results'[d]) =< RESULTS
<1>1. /\ results \in [Connections -> Seq(Result)]
      /\ \A d \in Connections : Len(results[d]) =< RESULTS
  BY DEF TypeOK, WithinSizes
<1>2. Len(Append(results[c], m)) =< RESULTS
  <2>1. results[c] \in Seq(Result)
    BY <1>1
  <2>2. Len(Append(results[c], m)) = Len(results[c]) + 1 /\ Len(results[c]) \in Nat
    BY <2>1, AppendProperties, LenProperties
  <2>3. QED
    BY <2>2, PipelineAssumption
<1>3. QED
  BY <1>1, <1>2

\* The queue of jobs: put only where there is room, or put back.
LEMMA QueueFits ==
  ASSUME IInv, [Next]_vars
  PROVE  Len(asr_queue') =< JOBS
<1>1. asr_queue \in Seq(Job) /\ Len(asr_queue) =< JOBS /\ Len(asr_queue) \in Nat
      /\ JOBS \in Nat
  BY LenProperties, PipelineAssumption DEF IInv, TypeOK, WithinSizes
<1>2. ASSUME NEW c \in Connections, PutJob(c) PROVE Len(asr_queue') =< JOBS
  <2> DEFINE j == [conn |-> c, id |-> session[c].segments]
  <2>1. j \in Job
    BY DEF IInv, TypeOK, Session, Job, JobsFor
  <2>2. asr_queue' = Append(asr_queue, j) /\ Len(asr_queue) < JOBS
    BY <1>2 DEF PutJob
  <2> HIDE DEF j
  <2>3. Len(asr_queue') = Len(asr_queue) + 1
    BY <1>1, <2>1, <2>2, AppendProperties
  <2>4. QED
    BY <1>1, <2>2, <2>3
<1>3. ASSUME NEW c \in Connections, Release(c) PROVE Len(asr_queue') =< JOBS
  <2>1. asr_queue' = Selected(JobsFor(Connections \ {c}), asr_queue)
    BY <1>3 DEF Release, Retained
  <2>2. Len(asr_queue') =< Len(asr_queue) /\ Len(asr_queue') \in Nat
    BY <1>1, <2>1, SelectedNoLonger, SelectedSeq, LenProperties
  <2>3. QED
    BY <1>1, <2>2
<1>4. CASE TakeJob
  <2>1. asr_queue # << >> /\ asr_queue' = Tail(asr_queue)
    BY <1>4 DEF TakeJob
  <2>2. Len(asr_queue') = Len(asr_queue) - 1
    BY <1>1, <2>1, HeadTailProperties
  <2>3. QED
    BY <1>1, <2>2
<1>5. \/ asr_queue' = asr_queue
      \/ TakeJob
      \/ \E c \in Connections : PutJob(c) \/ Release(c)
  BY DEF Next, Open, CloseTurn, PutJobTimeout, FeedFails, Stop, WaitDrained, Drained,
         PutEnded, DrainTimeout, TakeResult, SendResult, Leave, StartBatch, WorkerFails,
         CountResult, PutResult, PutResultTimeout, FinishBatch, Closed, asrVars, vars
<1>6. QED
  BY <1>1, <1>2, <1>3, <1>4, <1>5

\* The batch.
LEMMA BatchFits ==
  ASSUME IInv, [Next]_vars
  PROVE  Len(batch') =< BATCH_SIZE
<1>1. batch \in Seq(Job) /\ Len(batch) =< BATCH_SIZE /\ Len(batch) \in Nat
      /\ BATCH_SIZE \in Nat
  BY LenProperties, PipelineAssumption DEF IInv, TypeOK, WithinSizes
<1>2. CASE TakeJob
  <2>1. /\ asr_queue \in Seq(Job) /\ asr_queue # << >> /\ Len(batch) < BATCH_SIZE
        /\ batch' = Append(batch, Head(asr_queue))
    BY <1>2 DEF TakeJob, IInv, TypeOK
  <2>2. Head(asr_queue) \in Job
    BY <2>1, HeadTailProperties
  <2>3. Len(batch') = Len(batch) + 1
    BY <1>1, <2>1, <2>2, AppendProperties
  <2>4. QED
    BY <1>1, <2>1, <2>3
<1>3. CASE batch' = << >>
  <2>1. Len(batch') = 0
    BY <1>3
  <2>2. QED
    BY <1>1, <2>1
<1>4. batch' = batch \/ batch' = << >> \/ TakeJob
  BY DEF Next, Open, CloseTurn, PutJob, PutJobTimeout, FeedFails, Stop, WaitDrained,
         Drained, PutEnded, DrainTimeout, TakeResult, SendResult, Leave, Release,
         StartBatch, WorkerFails, CountResult, PutResult, PutResultTimeout, FinishBatch,
         Closed, asrVars, vars
<1>5. QED
  BY <1>1, <1>2, <1>3, <1>4

\* The results of every session.
LEMMA ResultsFit ==
  ASSUME IInv, [Next]_vars
  PROVE  \A d \in Connections : Len(results'[d]) =< RESULTS
<1>1. /\ TypeOK /\ results \in [Connections -> Seq(Result)]
      /\ \A d \in Connections : Len(results[d]) =< RESULTS
  BY DEF IInv, TypeOK, WithinSizes
<1>2. ASSUME NEW c \in Connections, PutEnded(c)
      PROVE  \A d \in Connections : Len(results'[d]) =< RESULTS
  <2>1. Ended \in Result /\ EofMark \in Result
    BY DEF Ended, EofMark, Result
  <2>2. Len(results[c]) < RESULTS
    BY <1>2 DEF PutEnded
  <2>3. \/ results' = [results EXCEPT ![c] = Append(results[c], Ended)]
        \/ results' = [results EXCEPT ![c] = Append(results[c], EofMark)]
    BY <1>2 DEF PutEnded
  <2>4. QED
    BY <1>1, <2>1, <2>2, <2>3, PutFits
<1>3. ASSUME NEW c \in Connections, TakeResult(c)
      PROVE  \A d \in Connections : Len(results'[d]) =< RESULTS
  <2>1. results[c] # << >> /\ results' = [results EXCEPT ![c] = Tail(results[c])]
    BY <1>3 DEF TakeResult
  <2>2. Len(Tail(results[c])) =< RESULTS
    <3>1. results[c] \in Seq(Result) /\ Len(results[c]) \in Nat /\ RESULTS \in Nat
      BY <1>1, LenProperties, PipelineAssumption
    <3>2. Len(Tail(results[c])) = Len(results[c]) - 1
      BY <2>1, <3>1, HeadTailProperties
    <3>3. QED
      BY <1>1, <3>1, <3>2
  <2>3. QED
    BY <1>1, <2>1, <2>2
<1>4. ASSUME NEW c \in Connections, Release(c)
      PROVE  \A d \in Connections : Len(results'[d]) =< RESULTS
  <2>1. results' = [results EXCEPT ![c] = << >>]
    BY <1>4 DEF Release
  <2>2. Len(<< >>) =< RESULTS
    BY PipelineAssumption
  <2>3. QED
    BY <1>1, <2>1, <2>2
<1>5. CASE PutResult
  <2> DEFINE c == Head(jobs).conn
             m == [kind |-> loop, id |-> Head(jobs).id]
  <2>1. jobs \in Seq(Job) /\ jobs # << >> /\ loop \in Verdicts
    BY <1>5 DEF IInv, TypeOK, LoopOK, PutResult
  <2>2. Head(jobs) \in Job
    BY <2>1, HeadTailProperties
  <2>3. c \in Connections /\ m \in Result
    BY <2>1, <2>2 DEF Job, JobsFor, Result, Verdicts
  <2>4. Len(results[c]) < RESULTS /\ results' = [results EXCEPT ![c] = Append(results[c], m)]
    BY <1>5 DEF PutResult
  <2> HIDE DEF c, m
  <2>5. QED
    BY <1>1, <2>3, <2>4, PutFits
<1>6. \/ results' = results
      \/ PutResult
      \/ \E c \in Connections : PutEnded(c) \/ TakeResult(c) \/ Release(c)
  BY DEF Next, Open, CloseTurn, PutJob, PutJobTimeout, FeedFails, Stop, WaitDrained,
         Drained, DrainTimeout, SendResult, Leave, TakeJob, StartBatch, WorkerFails,
         CountResult, PutResultTimeout, FinishBatch, Closed, emitVars, vars
<1>7. QED
  BY <1>1, <1>2, <1>3, <1>4, <1>5, <1>6

LEMMA TypeStep ==
  ASSUME IInv, [Next]_vars
  PROVE  TypeOK'
<1> USE DEF At
<1>0. WithinSizes'
  BY QueueFits, BatchFits, ResultsFit DEF WithinSizes
<1> USE <1>0
<1>1. TypeOK
  BY DEF IInv
<1>2. CASE UNCHANGED vars
  BY <1>1, <1>2 DEF TypeOK, vars
<1>3. ASSUME NEW c \in Connections, Open(c) PROVE TypeOK'
  BY <1>1, <1>3 DEF Open, TypeOK, asrVars
<1>4. ASSUME NEW c \in Connections, CloseTurn(c) PROVE TypeOK'
  <2>1. session' \in [Connections -> Session]
    BY <1>1, <1>4, SessionCloseTurn DEF TypeOK
  <2>2. QED
    BY <1>1, <1>4, <2>1 DEF CloseTurn, TypeOK, asrVars, emitVars
<1>5. ASSUME NEW c \in Connections, PutJob(c) PROVE TypeOK'
  <2>1. session' \in [Connections -> Session]
    BY <1>1, <1>5, SessionPutJob DEF TypeOK
  <2>2. [conn |-> c, id |-> session[c].segments] \in Job
    BY <1>1 DEF TypeOK, Session, Job, JobsFor
  <2>3. asr_queue' \in Seq(Job)
    BY <1>1, <1>5, <2>2, AppendProperties DEF PutJob, TypeOK
  <2>4. QED
    BY <1>1, <1>5, <2>1, <2>3 DEF PutJob, TypeOK, emitVars
<1>6. ASSUME NEW c \in Connections, PutJobTimeout(c) PROVE TypeOK'
  <2>1. JobsDone(session[c], 1) \in Session
    BY <1>6, PendingBounds, JobsDoneIs DEF PutJobTimeout
  <2>2. session' \in [Connections -> Session]
    BY <1>1, <1>6, <2>1 DEF PutJobTimeout, TypeOK
  <2>3. QED
    BY <1>1, <1>6, <2>2 DEF PutJobTimeout, TypeOK, asrVars, emitVars
<1>7. ASSUME NEW c \in Connections, FeedFails(c) PROVE TypeOK'
  BY <1>1, <1>7 DEF FeedFails, TypeOK, asrVars, emitVars
<1>8. ASSUME NEW c \in Connections, Stop(c) PROVE TypeOK'
  <2>1. session' \in [Connections -> Session]
    BY <1>1, <1>8, SessionStop DEF TypeOK
  <2>2. QED
    BY <1>1, <1>8, <2>1 DEF Stop, TypeOK, asrVars, emitVars
<1>9. ASSUME NEW c \in Connections, WaitDrained(c) PROVE TypeOK'
  BY <1>1, <1>9 DEF WaitDrained, TypeOK, asrVars, emitVars
<1>10. ASSUME NEW c \in Connections, Drained(c) PROVE TypeOK'
  BY <1>1, <1>10 DEF Drained, TypeOK, asrVars, emitVars
<1>11. ASSUME NEW c \in Connections, PutEnded(c) PROVE TypeOK'
  <2>1. Ended \in Result /\ EofMark \in Result /\ results[c] \in Seq(Result)
    BY <1>1 DEF Ended, EofMark, Result, TypeOK
  <2>2. Append(results[c], Ended) \in Seq(Result) /\ Append(results[c], EofMark) \in Seq(Result)
    BY <2>1, AppendProperties
  <2>3. results' \in [Connections -> Seq(Result)]
    BY <1>1, <1>11, <2>2 DEF PutEnded, TypeOK
  <2>4. ingest' \in [Connections -> {"none", "pumping", "putting", "draining", "ending",
                                    "closing", "done", "failed"}]
    <3>1. \/ ingest' = [ingest EXCEPT ![c] = "closing"]
          \/ ingest' = [ingest EXCEPT ![c] = "done"]
      BY <1>11 DEF PutEnded
    <3>2. QED
      BY <1>1, <3>1 DEF TypeOK
  <2>5. QED
    BY <1>1, <1>11, <2>3, <2>4 DEF PutEnded, TypeOK, asrVars
<1>12. ASSUME NEW c \in Connections, DrainTimeout(c) PROVE TypeOK'
  <2>1. Interrupted(c) \in Session
    BY InterruptedIs DEF OnlyCounted
  <2>2. QED
    BY <1>1, <1>12, <2>1 DEF DrainTimeout, TypeOK, asrVars, emitVars
<1>13. ASSUME NEW c \in Connections, TakeResult(c) PROVE TypeOK'
  <2>1. Head(results[c]) \in Result /\ Tail(results[c]) \in Seq(Result)
    BY <1>1, <1>13, HeadTailProperties DEF TakeResult, TypeOK
  <2>2. results' \in [Connections -> Seq(Result)] /\ sending' \in [Connections -> Result]
    BY <1>1, <1>13, <2>1 DEF TakeResult, TypeOK
  <2>3. QED
    BY <1>1, <1>13, <2>2 DEF TakeResult, TypeOK, asrVars
<1>14. ASSUME NEW c \in Connections, SendResult(c) PROVE TypeOK'
  <2>1. EofMark \in Result
    BY DEF EofMark, Result
  <2>2. sending[c] \in Result /\ sent[c] \in Seq(Result)
    BY <1>1 DEF TypeOK
  <2>3. Append(sent[c], sending[c]) \in Seq(Result)
    BY <2>2, AppendProperties
  <2>4. sent' \in [Connections -> Seq(Result)]
    BY <1>1, <1>14, <2>3 DEF SendResult, TypeOK
  <2>5. QED
    BY <1>1, <1>14, <2>1, <2>4 DEF SendResult, TypeOK, asrVars
<1>15. ASSUME NEW c \in Connections, Leave(c) PROVE TypeOK'
  <2>1. Interrupted(c) \in Session
    BY InterruptedIs DEF OnlyCounted
  <2>2. EofMark \in Result
    BY DEF EofMark, Result
  <2>3. QED
    BY <1>1, <1>15, <2>1, <2>2 DEF Leave, TypeOK, asrVars
<1>16. ASSUME NEW c \in Connections, Release(c) PROVE TypeOK'
  <2>3. session' \in [Connections -> Session]
    BY <1>1, <1>16, SessionRelease DEF TypeOK
  <2>4. Retained(c) \in Seq(Job)
    BY <1>1, SelectedSeq DEF Retained, TypeOK
  <2>5. << >> \in Seq(Result)
    BY EmptySeq
  <2>6. QED
    BY <1>1, <1>16, <2>3, <2>4, <2>5 DEF Release, TypeOK
<1>17. CASE TakeJob
  <2>1. Head(asr_queue) \in Job /\ Tail(asr_queue) \in Seq(Job)
    BY <1>1, <1>17, HeadTailProperties DEF TakeJob, TypeOK
  <2>2. batch' \in Seq(Job)
    BY <1>1, <1>17, <2>1, AppendProperties DEF TakeJob, TypeOK
  <2>3. QED
    BY <1>1, <1>17, <2>1, <2>2 DEF TakeJob, TypeOK, connVars
<1>18. CASE StartBatch
  <2>1. jobs' \in Seq(Job)
    BY <1>1, <1>18, SelectedSeq DEF StartBatch, TypeOK
  <2>2. QED
    BY <1>1, <1>18, <2>1 DEF StartBatch, TypeOK, connVars
<1>19. CASE WorkerFails
  <2>1. session' \in [Connections -> Session]
    BY <1>19, BatchDoneIs DEF WorkerFails
  <2>2. << >> \in Seq(Job)
    BY EmptySeq
  <2>3. QED
    BY <1>1, <1>19, <2>1, <2>2 DEF WorkerFails, TypeOK, connVars
<1>20. CASE CountResult
  <2>1. Head(jobs) \in Job /\ Tail(jobs) \in Seq(Job)
    BY <1>1, <1>20, HeadTailProperties DEF CountResult, TypeOK
  <2>2. Head(jobs).conn \in Connections
    BY <2>1 DEF Job, JobsFor
  <2>3. CASE UNCHANGED session
    <3>1. jobs' \in Seq(Job) /\ loop' \in {"delivering", "committed", "failed", "fatal"}
      BY <1>1, <1>20, <2>1, PipelineAssumption DEF CountResult, TypeOK, Verdicts
    <3>2. QED
      BY <1>1, <1>20, <2>3, <3>1 DEF CountResult, TypeOK, connVars
  <2>4. CASE CountsVerdict(Head(jobs).conn)
    <3>1. session' \in [Connections -> Session]
      BY <1>1, <2>2, <2>4, SessionCountResult DEF TypeOK
    <3>2. loop' \in {"committed", "failed", "fatal"}
      BY <2>4 DEF CountsVerdict, Verdicts
    <3>3. QED
      BY <1>1, <2>4, <3>1, <3>2 DEF CountsVerdict, TypeOK, connVars
  <2>5. QED
    BY <1>20, <2>3, <2>4, PipelineAssumption DEF CountResult, CountsVerdict
<1>21. CASE PutResult
  <2>1. jobs # << >>
    BY <1>21 DEF IInv, LoopOK, PutResult
  <2>2. Head(jobs) \in Job /\ Tail(jobs) \in Seq(Job)
    BY <1>1, <2>1, HeadTailProperties DEF TypeOK
  <2> DEFINE c == Head(jobs).conn
             result == [kind |-> loop, id |-> Head(jobs).id]
  <2>3. c \in Connections /\ result \in Result
    BY <1>21, <2>2 DEF Job, JobsFor, Result, PutResult, Verdicts
  <2>4. results[c] \in Seq(Result)
    BY <1>1, <2>3 DEF TypeOK
  <2>5. Append(results[c], result) \in Seq(Result)
    BY <2>3, <2>4, AppendProperties
  <2>6. results' = [results EXCEPT ![c] = Append(@, result)]
    BY <1>21 DEF PutResult
  <2> HIDE DEF c, result
  <2>7. results' \in [Connections -> Seq(Result)]
    BY <1>1, <2>3, <2>5, <2>6 DEF TypeOK
  <2>8. QED
    BY <1>1, <1>21, <2>2, <2>7 DEF PutResult, TypeOK, connVars
<1>22. CASE PutResultTimeout
  <2>1. jobs # << >>
    BY <1>22 DEF IInv, LoopOK, PutResultTimeout
  <2>2. Head(jobs) \in Job /\ Tail(jobs) \in Seq(Job)
    BY <1>1, <2>1, HeadTailProperties DEF TypeOK
  <2> DEFINE c == Head(jobs).conn
  <2>3. c \in Connections
    BY <2>2 DEF Job, JobsFor
  <2>4. CutsOff(c)
    BY <1>22 DEF PutResultTimeout, CutsOff, GivesUp
  <2> HIDE DEF c
  <2>5. session' \in [Connections -> Session]
    BY <1>1, <2>3, <2>4, SessionCutOff DEF TypeOK
  <2>6. QED
    BY <1>1, <1>22, <2>2, <2>5 DEF PutResultTimeout, TypeOK, connVars
<1>23. CASE FinishBatch
  <2>1. session' \in [Connections -> Session]
    BY <1>23, BatchDoneIs DEF FinishBatch
  <2>2. << >> \in Seq(Job)
    BY EmptySeq
  <2>3. QED
    BY <1>1, <1>23, <2>1, <2>2 DEF FinishBatch, TypeOK, connVars
<1>24. QED
  BY <1>2, <1>3, <1>4, <1>5, <1>6, <1>7, <1>8, <1>9, <1>10, <1>11, <1>12, <1>13, <1>14,
     <1>15, <1>16, <1>17, <1>18, <1>19, <1>20, <1>21, <1>22, <1>23 DEF Next, Closed

-----------------------------------------------------------------------------
\* A step of one connection leaves the others alone.

ConnKept(d) ==
  /\ handler'[d] = handler[d] /\ ingest'[d] = ingest[d] /\ emit'[d] = emit[d]
  /\ session'[d] = session[d] /\ results'[d] = results[d]
  /\ sending'[d] = sending[d] /\ sent'[d] = sent[d]

LoopKept == UNCHANGED <<batch, jobs, loop, failure>>

Beside(d) == ConnKept(d) /\ LoopKept /\ Own(d, asr_queue') = Own(d, asr_queue)

ConnOK(c) == StageOK(c) /\ PendingOK(c) /\ SegmentsOK(c)
             /\ StreamOK(c) /\ FatalOK(c) /\ SentOK(c)

LEMMA BesideKept ==
  ASSUME NEW d \in Connections, ConnOK(d), Beside(d)
  PROVE  ConnOK(d)'
<1> USE DEF Beside, ConnKept, LoopKept, At
<1>1. StageOK(d)'
  BY DEF ConnOK, StageOK
<1>2. PendingOK(d)'
  BY DEF ConnOK, PendingOK, JobsOf, Own
<1>3. /\ \A v : Due(d, v)' = Due(d, v)
      /\ Given(d)' = Given(d)
  BY DEF Due, Given
<1>4. SegmentsOK(d)'
  <2>1. Waiting(d)' = Waiting(d)
    BY DEF Waiting, Ahead, Own
  <2> HIDE DEF Beside, ConnKept, LoopKept
  <2>2. QED
    BY <1>3, <2>1 DEF ConnOK, SegmentsOK, Beside, ConnKept, LoopKept
<1>5. Settled(d)' = Settled(d) /\ Active(d)' = Active(d) /\ Stream(d)' = Stream(d)
  BY DEF Settled, Active, Stream, InHand
<1>6. StreamOK(d)'
  BY <1>3, <1>5 DEF ConnOK, StreamOK, StreamItem
<1>7. FatalOK(d)'
  BY DEF ConnOK, FatalOK
<1>8. SentOK(d)'
  BY <1>5 DEF ConnOK, SentOK, SentItem
<1>9. QED
  BY <1>1, <1>2, <1>4, <1>6, <1>7, <1>8 DEF ConnOK

\* The steps of a connection, its tasks and its handler.
ConnStep(c) ==
  \/ Open(c) \/ CloseTurn(c) \/ PutJob(c) \/ PutJobTimeout(c) \/ FeedFails(c)
  \/ Stop(c) \/ WaitDrained(c) \/ Drained(c) \/ PutEnded(c) \/ DrainTimeout(c)
  \/ TakeResult(c) \/ SendResult(c) \/ Leave(c) \/ Release(c)

LEMMA StepsBeside ==
  ASSUME IInv, NEW c \in Connections, ConnStep(c), NEW d \in Connections, d # c
  PROVE  Beside(d)
<1> USE DEF At, ConnKept, LoopKept
<1>1. TypeOK
  BY DEF IInv
<1>2. CASE asr_queue' = asr_queue
  <2>1. ConnKept(d) /\ LoopKept
    <3>1. CASE Open(c)
      BY <1>1, <3>1 DEF Open, TypeOK, asrVars
    <3>2. CASE CloseTurn(c)
      BY <1>1, <3>2 DEF CloseTurn, TypeOK, asrVars, emitVars
    <3>3. CASE PutJob(c)
      BY <1>1, <3>3 DEF PutJob, TypeOK, emitVars
    <3>4. CASE PutJobTimeout(c)
      BY <1>1, <3>4 DEF PutJobTimeout, TypeOK, asrVars, emitVars
    <3>5. CASE FeedFails(c) \/ WaitDrained(c) \/ Drained(c)
      BY <1>1, <3>5 DEF FeedFails, WaitDrained, Drained, TypeOK, asrVars, emitVars
    <3>6. CASE Stop(c)
      BY <1>1, <3>6 DEF Stop, TypeOK, asrVars, emitVars
    <3>7. CASE DrainTimeout(c)
      BY <1>1, <3>7 DEF DrainTimeout, TypeOK, asrVars, emitVars
    <3>8. CASE PutEnded(c)
      BY <1>1, <3>8 DEF PutEnded, TypeOK, asrVars
    <3>9. CASE TakeResult(c) \/ SendResult(c)
      BY <1>1, <3>9 DEF TakeResult, SendResult, TypeOK, asrVars
    <3>10. CASE Leave(c)
      BY <1>1, <3>10 DEF Leave, TypeOK, asrVars
    <3>11. CASE Release(c)
      BY <1>1, <3>11 DEF Release, TypeOK
    <3>12. QED
      BY <3>1, <3>2, <3>3, <3>4, <3>5, <3>6, <3>7, <3>8, <3>9, <3>10, <3>11 DEF ConnStep
  <2>2. QED
    BY <1>2, <2>1 DEF Beside
<1>3. CASE PutJob(c)
  <2>1. ConnKept(d) /\ LoopKept
    BY <1>1, <1>3 DEF PutJob, TypeOK, emitVars
  <2> DEFINE j == [conn |-> c, id |-> session[c].segments]
  <2>2. j \in Job /\ j.conn = c
    BY <1>1 DEF TypeOK, Session, Job, JobsFor
  <2>3. asr_queue' = Append(asr_queue, j) /\ asr_queue \in Seq(Job)
    BY <1>1, <1>3 DEF PutJob, TypeOK
  <2> HIDE DEF j
  <2>4. Own(d, asr_queue') = Own(d, asr_queue)
    BY <2>2, <2>3, OwnOfAppend
  <2>5. QED
    BY <2>1, <2>4 DEF Beside
<1>4. CASE Release(c)
  <2>1. ConnKept(d) /\ LoopKept
    BY <1>1, <1>4 DEF Release, TypeOK
  <2>2. Own(d, Retained(c)) = Own(d, asr_queue)
    <3>1. asr_queue \in Seq(Job) /\ Connections \ {c} \in SUBSET Connections
          /\ d \in Connections \ {c}
      BY <1>1 DEF TypeOK
    <3>2. QED
      BY <3>1, OwnOfSelected DEF Retained
  <2>3. QED
    BY <1>4, <2>1, <2>2 DEF Beside, Release
<1>5. asr_queue' = asr_queue \/ PutJob(c) \/ Release(c)
  BY DEF ConnStep, Open, CloseTurn, PutJobTimeout, FeedFails, Stop, WaitDrained, Drained,
         PutEnded, DrainTimeout, TakeResult, SendResult, Leave, asrVars
<1>6. QED
  BY <1>2, <1>3, <1>4, <1>5

-----------------------------------------------------------------------------
\* The steps of the ingest task and of the handler that give no job and no
\* result away.

TaskStep(c) ==
  \/ Open(c) \/ CloseTurn(c) \/ PutJobTimeout(c) \/ FeedFails(c) \/ Stop(c)
  \/ WaitDrained(c) \/ Drained(c) \/ DrainTimeout(c) \/ Leave(c)

\* What the segments and the results depend on.
SameCounts(s, r) ==
  /\ r.segments = s.segments /\ r.succeeded = s.succeeded /\ r.failed = s.failed
  /\ r.aborted = s.aborted /\ r.failure = s.failure

TaskKept(c) ==
  /\ LoopKept /\ asr_queue' = asr_queue
  /\ results'[c] = results[c] /\ sent'[c] = sent[c]
  /\ SameCounts(session[c], session'[c])
  /\ Active(c)' => \/ emit'[c] = emit[c] /\ sending'[c] = sending[c]
                   \/ At(handler, c, "new") /\ emit'[c] = "waiting"
  /\ Settled(c) => Settled(c)'
  /\ ingest[c] \in {"closing", "failed"} =>
       ingest'[c] \in {"closing", "failed"} \/ ~Active(c)'
  /\ ingest[c] = "done" => ingest'[c] = "done"
  /\ handler[c] = "closed" => handler'[c] = "closed"

LEMMA TaskStepKeeps ==
  ASSUME IInv, NEW c \in Connections, TaskStep(c)
  PROVE  TaskKept(c)
<1> USE DEF At, LoopKept
<1>1. TypeOK /\ StageOK(c) /\ session[c] \in Session
  BY DEF IInv, TypeOK
<1>2. CASE Open(c)
  <2>1. At(handler, c, "new") /\ session' = session /\ asr_queue' = asr_queue
        /\ results' = results /\ sent' = sent /\ LoopKept
    BY <1>2 DEF Open, asrVars
  <2>2. At(ingest, c, "none") /\ At(emit, c, "none")
    BY <1>1, <2>1 DEF StageOK
  <2>3. emit'[c] \in {"none", "waiting"}
    BY <1>1, <1>2, <2>2 DEF Open, TypeOK
  <2>4. ~Settled(c)
    BY <2>2 DEF Settled
  <2>5. QED
    BY <2>1, <2>2, <2>3, <2>4 DEF TaskKept, Active, SameCounts
<1>3. CASE CloseTurn(c)
  <2>1. SameCounts(session[c], session'[c])
    BY <1>1, <1>3, SessionCloseTurn DEF SameCounts
  <2>2. At(ingest, c, "pumping") /\ UNCHANGED <<handler, emitVars, asrVars>>
    BY <1>3 DEF CloseTurn
  <2>3. ~Settled(c)
    BY <2>2 DEF Settled
  <2>4. QED
    BY <2>1, <2>2, <2>3 DEF TaskKept, Active, emitVars, asrVars
<1>4. CASE PutJobTimeout(c)
  <2>1. OnlyCounted(session[c], JobsDone(session[c], 1), 1)
    BY <1>4, PendingBounds, JobsDoneIs DEF PutJobTimeout, OnlyCounted
  <2>2. session'[c] = JobsDone(session[c], 1)
    BY <1>1, <1>4 DEF PutJobTimeout, TypeOK
  <2>3. At(ingest, c, "putting") /\ UNCHANGED <<handler, emitVars, asrVars>>
    BY <1>4 DEF PutJobTimeout
  <2>4. ~Settled(c)
    BY <2>3 DEF Settled
  <2>5. QED
    BY <2>1, <2>2, <2>3, <2>4 DEF TaskKept, Active, emitVars, asrVars, SameCounts, OnlyCounted
<1>5. CASE FeedFails(c) \/ WaitDrained(c) \/ Drained(c)
  <2>1. ingest[c] \in {"pumping", "draining"}
        /\ UNCHANGED <<handler, session, emitVars, asrVars>>
    BY <1>5 DEF FeedFails, WaitDrained, Drained
  <2>2. ~Settled(c)
    BY <2>1 DEF Settled
  <2>3. QED
    BY <2>1, <2>2 DEF TaskKept, Active, emitVars, asrVars, SameCounts
<1>6. CASE Stop(c)
  <2>1. SameCounts(session[c], session'[c])
    BY <1>1, <1>6, SessionStop DEF SameCounts
  <2>2. At(ingest, c, "pumping") /\ UNCHANGED <<handler, emitVars, asrVars>>
    BY <1>6 DEF Stop
  <2>3. ~Settled(c)
    BY <2>2 DEF Settled
  <2>4. QED
    BY <2>1, <2>2, <2>3 DEF TaskKept, Active, emitVars, asrVars
<1>7. ASSUME DrainTimeout(c) \/ Leave(c) PROVE TaskKept(c)
  <2> DEFINE s == session[c]
             r == session'[c]
             n == IF At(ingest, c, "putting") THEN 1 ELSE 0
  <2>1. r = Interrupted(c)
    BY <1>1, <1>7 DEF DrainTimeout, Leave, TypeOK
  <2>2. OnlyCounted(s, r, n)
    BY <2>1, InterruptedIs
  <2>3. SameCounts(s, r) /\ r.stopping = s.stopping
        /\ (~At(ingest, c, "putting") => r.pending_jobs = s.pending_jobs)
    BY <2>2 DEF SameCounts, OnlyCounted
  <2>4. LoopKept /\ UNCHANGED <<asr_queue, results, sent>>
    BY <1>7 DEF DrainTimeout, Leave, asrVars, emitVars
  <2> HIDE DEF s, r, n
  <2>5. CASE DrainTimeout(c)
    <3>1. /\ ingest[c] \notin {"done", "failed"} /\ ingest'[c] = "failed"
          /\ handler' = handler /\ emit' = emit /\ sending' = sending
      BY <1>1, <2>5 DEF DrainTimeout, TypeOK, asrVars, emitVars
    <3>2. Settled(c) => Settled(c)'
      BY <2>3, <3>1 DEF Settled, s, r
    <3>3. QED
      BY <2>3, <2>4, <3>1, <3>2 DEF TaskKept, Active, s, r
  <2>6. CASE Leave(c)
    <3>1. /\ handler[c] = "serving" /\ ingest'[c] = "done" /\ emit'[c] = "done"
      BY <1>1, <2>6 DEF Leave, TypeOK
    <3>2. Settled(c) => Settled(c)'
      BY <2>3, <3>1 DEF Settled, s, r
    <3>3. ~Active(c)'
      BY <3>1 DEF Active
    <3>4. QED
      BY <2>3, <2>4, <3>1, <3>2, <3>3 DEF TaskKept, s, r
  <2>7. QED
    BY <1>7, <2>5, <2>6
<1>8. QED
  BY <1>2, <1>3, <1>4, <1>5, <1>6, <1>7 DEF TaskStep

\* A session with a job before the loop is not done.
LEMMA HeadCounted ==
  ASSUME IInv, jobs # << >>
  PROVE  /\ Head(jobs) \in Job /\ Head(jobs).conn \in Connections
         /\ Tail(jobs) \in Seq(Job)
         /\ session[Head(jobs).conn].pending_jobs # 0
<1> DEFINE c == Head(jobs).conn
<1>1. jobs \in Seq(Job)
  BY DEF IInv, TypeOK
<1>2. Head(jobs) \in Job /\ Tail(jobs) \in Seq(Job)
  BY <1>1, HeadTailProperties
<1>3. c \in Connections
  BY <1>2 DEF Job, JobsFor
<1>4. JobsOf(c, jobs) = 1 + JobsOf(c, Tail(jobs)) /\ JobsOf(c, Tail(jobs)) \in Nat
  <2>1. JobsOf(c, jobs) = (IF Head(jobs).conn = c THEN 1 ELSE 0) + JobsOf(c, Tail(jobs))
    BY <1>1, OwnOfTail
  <2>2. QED
    BY <1>2, <2>1, OwnOf
<1> HIDE DEF c
<1>5. JobsOf(c, jobs) =< session[c].pending_jobs /\ session[c] \in Session
  BY <1>3, PendingBounds
<1>6. session[c].pending_jobs # 0
  BY <1>4, <1>5 DEF Session
<1>7. QED
  BY <1>2, <1>3, <1>6 DEF c

LEMMA NoneDue ==
  ASSUME IInv, NEW c \in Connections, session[c].pending_jobs = 0
  PROVE  /\ jobs # << >> => Head(jobs).conn # c
         /\ \A v : v \subseteq Verdicts => Due(c, v) = 0
<1>1. jobs # << >> => Head(jobs).conn # c
  BY HeadCounted
<1>2. ASSUME NEW v, v \subseteq Verdicts PROVE Due(c, v) = 0
  <2>1. loop \in v => jobs # << >>
    BY <1>2 DEF IInv, LoopOK
  <2>2. QED
    BY <1>1, <2>1 DEF Due
<1>3. QED
  BY <1>1, <1>2

\* Due is a number.
LEMMA DueNat ==
  ASSUME NEW c, NEW v
  PROVE  Due(c, v) \in {0, 1} /\ Due(c, v) \in Nat
BY DEF Due

\* The stream of a connection that is opened is empty.
LEMMA NothingYet ==
  ASSUME IInv, NEW c \in Connections, At(handler, c, "new")
  PROVE  /\ session[c] = NewSession /\ results[c] = << >> /\ sent[c] = << >>
         /\ \A v : v \subseteq Verdicts => Due(c, v) = 0
<1>1. session[c] = NewSession /\ results[c] = << >> /\ sent[c] = << >>
  BY DEF IInv, StageOK
<1>2. session[c].pending_jobs = 0
  BY <1>1 DEF NewSession
<1>3. QED
  BY <1>1, <1>2, NoneDue

\* A stream that stays as it is.
LEMMA StreamGoesOn ==
  ASSUME NEW c \in Connections, StreamOK(c), Active(c), Stream(c)' = Stream(c),
         session'[c].succeeded = session[c].succeeded,
         session'[c].failed = session[c].failed,
         session'[c].aborted = session[c].aborted,
         \A v : Due(c, v)' = Due(c, v), Settled(c) => Settled(c)',
         ingest[c] \in {"closing", "failed"} => ingest'[c] \in {"closing", "failed"},
         ingest[c] = "done" => ingest'[c] = "done"
  PROVE  StreamOK(c)'
<1> DEFINE m == Stream(c)
<1>1. Given(c)' = Given(c)
  BY DEF Given
<1>2. ASSUME NEW i \in 1 .. Len(m) PROVE StreamItem(c, i)'
  <2>1. StreamItem(c, i)
    BY <1>2 DEF StreamOK
  <2>2. CASE m[i].kind \in Verdicts /\ m[i].id = i - 1
    BY <2>2 DEF StreamItem
  <2>3. CASE m[i] = Ended /\ Settled(c) /\ session[c].aborted = "no"
             /\ i = Len(m) /\ ingest[c] \in {"closing", "failed"}
    BY <2>3 DEF StreamItem
  <2>4. CASE m[i] = Ended /\ Settled(c) /\ session[c].aborted = "no"
             /\ i = Len(m) - 1 /\ m[Len(m)] = EofMark /\ At(ingest, c, "done")
    BY <2>4 DEF StreamItem, At
  <2>5. CASE m[i] = EofMark /\ i = Len(m) /\ Settled(c) /\ At(ingest, c, "done")
    BY <2>5 DEF StreamItem, At
  <2>6. QED
    BY <2>1, <2>2, <2>3, <2>4, <2>5 DEF StreamItem
<1>3. ASSUME session'[c].aborted = "no"
      PROVE  /\ ~Settled(c)' => Len(m) = Given(c)'
             /\ Results({"committed"}, m) = session'[c].succeeded - Due(c, {"committed"})'
             /\ Results({"failed", "fatal"}, m) = session'[c].failed - Due(c, {"failed", "fatal"})'
  BY <1>1, <1>3 DEF StreamOK
<1> HIDE DEF m
<1>4. m = Stream(c)'
  BY DEF m
<1>5. /\ \A i \in 1 .. Len(Stream(c)') : StreamItem(c, i)'
  BY <1>2, <1>4
<1>6. session'[c].aborted = "no" =>
             /\ ~Settled(c)' => Len(Stream(c)') = Given(c)'
             /\ Results({"committed"}, Stream(c)') = session'[c].succeeded - Due(c, {"committed"})'
             /\ Results({"failed", "fatal"}, Stream(c)')
                = session'[c].failed - Due(c, {"failed", "fatal"})'
  BY <1>3, <1>4
<1>7. QED
  BY <1>5, <1>6 DEF StreamOK, Results

\* What has been sent keeps its place.
LEMMA SentGoesOn ==
  ASSUME NEW c \in Connections, SentOK(c), sent'[c] = sent[c],
         Settled(c) => /\ Settled(c)' /\ session'[c].succeeded = session[c].succeeded
                       /\ session'[c].failed = session[c].failed
  PROVE  SentOK(c)'
BY DEF SentOK, SentItem, Results

LEMMA SegmentsGoOn ==
  ASSUME NEW c \in Connections, SegmentsOK(c), Waiting(c)' = Waiting(c),
         SameCounts(session[c], session'[c]), Due(c, Verdicts)' = Due(c, Verdicts),
         failure' = "none" => failure = "none"
  PROVE  SegmentsOK(c)'
<1>1. Given(c)' = Given(c)
  BY DEF Given, SameCounts
<1>2. QED
  BY <1>1 DEF SegmentsOK, SameCounts

LEMMA TaskStepOK ==
  ASSUME IInv, NEW c \in Connections, TaskKept(c)
  PROVE  SegmentsOK(c)' /\ StreamOK(c)' /\ FatalOK(c)' /\ SentOK(c)'
<1>1. /\ SegmentsOK(c) /\ StreamOK(c) /\ FatalOK(c) /\ SentOK(c)
      /\ LoopKept /\ SameCounts(session[c], session'[c])
  BY DEF IInv, TaskKept
<1>2. \A v : Due(c, v)' = Due(c, v)
  BY <1>1 DEF Due, LoopKept
<1>3. SegmentsOK(c)'
  <2>1. Waiting(c)' = Waiting(c) /\ failure' = failure
    BY <1>1 DEF TaskKept, LoopKept, Waiting, Ahead, Own
  <2>2. QED
    BY <1>1, <1>2, <2>1, SegmentsGoOn
<1>4. StreamOK(c)'
  <2>1. CASE ~Active(c)'
    BY <2>1 DEF StreamOK
  <2>2. CASE Active(c)' /\ emit'[c] = emit[c] /\ sending'[c] = sending[c]
    <3>1. Active(c) /\ Stream(c)' = Stream(c)
      BY <2>2 DEF TaskKept, Active, Stream, InHand, At
    <3>2. QED
      BY <1>1, <1>2, <2>2, <3>1, StreamGoesOn DEF TaskKept, SameCounts
  <2>3. CASE At(handler, c, "new") /\ emit'[c] = "waiting"
    <3>1. /\ session[c] = NewSession /\ results'[c] = << >> /\ sent'[c] = << >>
          /\ \A v : v \subseteq Verdicts => Due(c, v)' = 0
      BY <1>2, <2>3, NothingYet DEF TaskKept
    <3>2. << >> \in Seq(Result) /\ Len(<< >>) = 0 /\ << >> \o << >> = << >>
      OBVIOUS
    <3>3. Stream(c)' = << >>
      BY <2>3, <3>1, <3>2 DEF Stream, InHand, At
    <3>4. \A kinds : Results(kinds, << >>) = 0
      BY <3>2, SelectedOfEmpty DEF Results
    <3>5. /\ Due(c, Verdicts)' = 0 /\ Due(c, {"committed"})' = 0
          /\ Due(c, {"failed", "fatal"})' = 0
      BY <3>1 DEF Verdicts
    <3>6. session'[c].succeeded = 0 /\ session'[c].failed = 0
      BY <1>1, <3>1 DEF SameCounts, NewSession
    <3>7. Given(c)' = 0
      BY <3>5, <3>6 DEF Given
    <3>8. \A i \in 1 .. Len(Stream(c)') : StreamItem(c, i)'
      BY <3>2, <3>3
    <3>9. QED
      BY <3>2, <3>3, <3>4, <3>5, <3>6, <3>7, <3>8 DEF StreamOK
  <2>4. QED
    BY <2>1, <2>2, <2>3 DEF TaskKept
<1>5. FatalOK(c)'
  <2>1. At(emit', c, "sending") => At(emit, c, "sending") /\ sending'[c] = sending[c]
    BY DEF TaskKept, Active, At
  <2>2. QED
    BY <1>1, <2>1 DEF FatalOK, TaskKept, SameCounts, LoopKept, At
<1>6. SentOK(c)'
  BY <1>1, SentGoesOn DEF TaskKept, SameCounts
<1>7. QED
  BY <1>3, <1>4, <1>5, <1>6

\* A task that runs, or a session that stops, is served.
LEMMA Serving ==
  ASSUME IInv, NEW c \in Connections
  PROVE  /\ ingest[c] \notin {"none", "done"} => At(handler, c, "serving")
         /\ session[c].stopping = "yes" /\ ingest[c] # "done" => At(handler, c, "serving")
         /\ Active(c) => At(handler, c, "serving")
<1>1. /\ StageOK(c) /\ handler[c] \in {"new", "serving", "leaving", "closed"}
  BY DEF IInv, TypeOK
<1>2. NewSession.stopping = "no"
  BY DEF NewSession
<1>3. QED
  BY <1>1, <1>2 DEF StageOK, At, Active

LEMMA TaskStepStage ==
  ASSUME IInv, NEW c \in Connections, TaskStep(c)
  PROVE  StageOK(c)'
<1> USE DEF At
<1>1. TypeOK /\ StageOK(c) /\ TaskKept(c)
  BY TaskStepKeeps DEF IInv
<1>2. /\ SameCounts(session[c], session'[c])
      /\ results'[c] = results[c] /\ sent'[c] = sent[c]
  BY <1>1 DEF TaskKept
<1>3. CASE Open(c)
  <2>1. At(handler, c, "new") /\ session' = session
    BY <1>3 DEF Open
  <2>2. At(ingest, c, "none") /\ At(emit, c, "none") /\ session'[c] = NewSession
    BY <1>1, <2>1 DEF StageOK
  <2>3. \/ handler'[c] = "closed" /\ ingest'[c] = "none" /\ emit'[c] = "none"
        \/ handler'[c] = "serving" /\ ingest'[c] = "pumping"
    BY <1>1, <1>3, <2>2 DEF Open, TypeOK
  <2>4. NewSession.aborted = "no"
    BY DEF NewSession
  <2>5. QED
    BY <2>2, <2>3, <2>4 DEF StageOK
<1>4. CASE CloseTurn(c) \/ PutJobTimeout(c) \/ FeedFails(c)
  <2>1. /\ ingest[c] \in {"pumping", "putting"} /\ ingest'[c] \in {"putting", "failed"}
        /\ handler' = handler
    BY <1>1, <1>4 DEF CloseTurn, PutJobTimeout, FeedFails, TypeOK
  <2>2. At(handler, c, "serving")
    BY <2>1, Serving
  <2>3. QED
    BY <1>1, <1>2, <2>1, <2>2 DEF StageOK, SameCounts
<1>5. CASE Stop(c)
  <2>1. At(ingest, c, "pumping") /\ ingest' = ingest /\ handler' = handler
    BY <1>5 DEF Stop
  <2>2. At(handler, c, "serving")
    BY <2>1, Serving
  <2>3. QED
    BY <1>1, <1>2, <2>1, <2>2 DEF StageOK, SameCounts
<1>6. CASE WaitDrained(c)
  <2>1. /\ At(ingest, c, "pumping") /\ ingest'[c] = "draining" /\ handler' = handler
        /\ session[c].stopping = "yes" /\ session' = session
    BY <1>1, <1>6 DEF WaitDrained, TypeOK
  <2>2. At(handler, c, "serving")
    BY <2>1, Serving
  <2>3. QED
    BY <1>1, <1>2, <2>1, <2>2 DEF StageOK, SameCounts
<1>7. CASE Drained(c)
  <2>1. /\ At(ingest, c, "draining") /\ handler' = handler /\ session' = session
        /\ session[c].drained = "set"
        /\ \/ ingest'[c] = "failed"
           \/ ingest'[c] = "ending" /\ session[c].failure = "none"
    BY <1>1, <1>7 DEF Drained, TypeOK
  <2>2. At(handler, c, "serving") /\ PendingOK(c)
    BY <2>1, Serving DEF IInv
  <2>3. session[c].stopping = "yes"
    BY <1>1, <2>1 DEF StageOK
  <2>4. session[c].failure = "none" => session[c].pending_jobs = 0
    BY <2>1, <2>2 DEF PendingOK
  <2>5. session[c].failure = "none" => session[c].aborted = "no"
    <3>1. session[c].aborted \in {"no", "yes"}
      BY <1>1 DEF TypeOK, Session
    <3>2. QED
      BY <1>1, <2>2, <3>1 DEF StageOK
  <2>6. QED
    BY <1>1, <1>2, <2>1, <2>2, <2>3, <2>4, <2>5 DEF StageOK, SameCounts
<1>8. CASE DrainTimeout(c)
  <2>1. /\ session[c].stopping = "yes" /\ ingest[c] # "done"
        /\ ingest'[c] = "failed" /\ handler' = handler
    BY <1>1, <1>8 DEF DrainTimeout, TypeOK
  <2>2. At(handler, c, "serving")
    BY <2>1, Serving
  <2>3. QED
    BY <1>1, <1>2, <2>1, <2>2 DEF StageOK, SameCounts
<1>9. CASE Leave(c)
  <2>1. /\ At(handler, c, "serving") /\ handler'[c] = "leaving"
        /\ ingest'[c] = "done" /\ emit'[c] = "done"
    BY <1>1, <1>9 DEF Leave, TypeOK
  <2>2. QED
    BY <1>1, <1>2, <2>1 DEF StageOK, SameCounts
<1>10. QED
  BY <1>3, <1>4, <1>5, <1>6, <1>7, <1>8, <1>9 DEF TaskStep

\* Counting off n jobs that are gone.
LEMMA CountedOff ==
  ASSUME NEW s \in Session, NEW r, NEW n \in Nat, OnlyCounted(s, r, n),
         s.pending_jobs = 0 => s.drained = "set",
         s.drained = "set" => s.pending_jobs = 0 \/ s.failure # "none"
  PROVE  /\ r.pending_jobs = 0 => r.drained = "set"
         /\ r.drained = "set" => r.pending_jobs = 0 \/ r.failure # "none"
BY DEF OnlyCounted, Session

LEMMA TaskStepPending ==
  ASSUME IInv, NEW c \in Connections, TaskStep(c)
  PROVE  PendingOK(c)'
<1> USE DEF At
<1>1. TypeOK /\ PendingOK(c) /\ TaskKept(c) /\ session[c] \in Session
  BY TaskStepKeeps DEF IInv, TypeOK
<1>2. /\ JobsOf(c, asr_queue)' = JobsOf(c, asr_queue) /\ JobsOf(c, batch)' = JobsOf(c, batch)
      /\ JobsOf(c, asr_queue) \in Nat /\ JobsOf(c, batch) \in Nat
  BY <1>1, PendingBounds DEF TaskKept, LoopKept, JobsOf
<1> DEFINE s == session[c]
           r == session'[c]
           put == IF At(ingest, c, "putting") THEN 1 ELSE 0
<1>3. /\ s.pending_jobs = JobsOf(c, asr_queue) + JobsOf(c, batch) + put
      /\ s.pending_jobs = 0 => s.drained = "set"
      /\ s.drained = "set" => s.pending_jobs = 0 \/ s.failure # "none"
      /\ s.pending_jobs \in Nat
  BY <1>1 DEF PendingOK, Session
<1>4. CASE OnlyCounted(s, r, put) /\ ~At(ingest', c, "putting")
  <2>1. put \in Nat
    OBVIOUS
  <2>2. /\ r.pending_jobs = 0 => r.drained = "set"
        /\ r.drained = "set" => r.pending_jobs = 0 \/ r.failure # "none"
    <3> HIDE DEF s, r, put
    <3>1. s \in Session
      BY <1>1 DEF s
    <3>2. QED
      BY <1>3, <1>4, <2>1, <3>1, CountedOff
  <2>3. r.pending_jobs = JobsOf(c, asr_queue) + JobsOf(c, batch)
    BY <1>2, <1>3, <1>4 DEF OnlyCounted
  <2>4. QED
    BY <1>2, <1>4, <2>2, <2>3 DEF PendingOK
<1>5. CASE /\ r.pending_jobs = s.pending_jobs /\ r.drained = s.drained
           /\ r.failure = s.failure
           /\ ~At(ingest, c, "putting") /\ ~At(ingest', c, "putting")
  BY <1>2, <1>3, <1>5 DEF PendingOK
<1>6. CASE Open(c)
  <2>1. At(ingest, c, "none")
    BY <1>6 DEF Open, IInv, StageOK
  <2>2. session' = session /\ ingest'[c] \in {"none", "pumping"}
    BY <1>1, <1>6, <2>1 DEF Open, TypeOK
  <2>3. QED
    BY <1>5, <2>1, <2>2
<1>7. CASE CloseTurn(c)
  <2>1. /\ r.pending_jobs = s.pending_jobs + 1 /\ r.drained = "clear"
    BY <1>1, <1>7, SessionCloseTurn
  <2>2. At(ingest, c, "pumping") /\ At(ingest', c, "putting")
    BY <1>1, <1>7 DEF CloseTurn, TypeOK
  <2>3. QED
    BY <1>2, <1>3, <2>1, <2>2 DEF PendingOK
<1>8. CASE PutJobTimeout(c)
  <2>1. At(ingest, c, "putting") /\ ingest'[c] = "failed"
    BY <1>1, <1>8 DEF PutJobTimeout, TypeOK
  <2>2. r = JobsDone(s, 1)
    BY <1>1, <1>8 DEF PutJobTimeout, TypeOK
  <2>3. OnlyCounted(s, r, 1)
    BY <2>1, <2>2, PendingBounds, JobsDoneIs DEF OnlyCounted
  <2>4. QED
    BY <1>4, <2>1, <2>3
<1>9. CASE FeedFails(c) \/ WaitDrained(c) \/ Drained(c)
  <2>1. /\ ingest[c] \in {"pumping", "draining"}
        /\ ingest'[c] \in {"failed", "draining", "ending"} /\ session' = session
    BY <1>1, <1>9 DEF FeedFails, WaitDrained, Drained, TypeOK
  <2>2. QED
    BY <1>5, <2>1
<1>10. CASE Stop(c)
  <2>1. /\ r.pending_jobs = s.pending_jobs /\ r.drained = s.drained
        /\ r.failure = s.failure
    BY <1>1, <1>10, SessionStop
  <2>2. At(ingest, c, "pumping") /\ ingest' = ingest
    BY <1>10 DEF Stop
  <2>3. QED
    BY <1>5, <2>1, <2>2
<1>11. CASE DrainTimeout(c) \/ Leave(c)
  <2>1. r = Interrupted(c) /\ ingest'[c] \in {"done", "failed"}
    BY <1>1, <1>11 DEF DrainTimeout, Leave, TypeOK
  <2>2. OnlyCounted(s, r, put)
    BY <2>1, InterruptedIs
  <2>3. QED
    BY <1>4, <2>1, <2>2
<1>12. QED
  BY <1>6, <1>7, <1>8, <1>9, <1>10, <1>11 DEF TaskStep

-----------------------------------------------------------------------------
\* The steps of a connection that move a job or a result.

LEMMA PutJobOK ==
  ASSUME IInv, NEW c \in Connections, PutJob(c), TypeOK'
  PROVE  ConnOK(c)'
<1> USE DEF At
<1> DEFINE s == session[c]
           r == session'[c]
           j == [conn |-> c, id |-> s.segments]
<1>1. /\ TypeOK /\ ConnOK(c) /\ s \in Session
  BY DEF IInv, ConnOK, TypeOK
<1>2. /\ At(ingest, c, "putting") /\ ingest'[c] = "pumping"
      /\ asr_queue' = Append(asr_queue, j)
      /\ UNCHANGED <<handler, recording, emit, results, sending, sent, batch, jobs, loop, failure>>
  BY <1>1 DEF PutJob, TypeOK, emitVars
<1>3. /\ r.segments = s.segments + 1 /\ r.stopping = s.stopping
      /\ r.pending_jobs = s.pending_jobs /\ r.drained = s.drained
      /\ r.succeeded = s.succeeded /\ r.failed = s.failed
      /\ r.aborted = s.aborted /\ r.failure = s.failure
  BY <1>1, SessionPutJob
<1>4. At(handler, c, "serving") /\ ~Settled(c)
  BY <1>2, Serving DEF Settled
<1>5. j \in Job /\ j.conn = c /\ j.id = s.segments
  BY <1>1 DEF Session, Job, JobsFor
<1> HIDE DEF s, r, j
<1>6. StageOK(c)'
  BY <1>1, <1>2, <1>3, <1>4 DEF ConnOK, StageOK, s, r
<1>7. /\ Own(c, asr_queue') = Append(Own(c, asr_queue), j)
      /\ JobsOf(c, asr_queue') = JobsOf(c, asr_queue) + 1
  BY <1>1, <1>2, <1>5, OwnOfAppend DEF TypeOK
<1>8. PendingOK(c)'
  <2>1. JobsOf(c, asr_queue) \in Nat /\ JobsOf(c, batch) \in Nat
    BY PendingBounds
  <2>2. s.pending_jobs = JobsOf(c, asr_queue) + JobsOf(c, batch) + 1
    BY <1>1, <1>2 DEF ConnOK, PendingOK, s
  <2>3. r.pending_jobs = JobsOf(c, asr_queue') + JobsOf(c, batch')
    BY <1>2, <1>3, <1>7, <2>1, <2>2
  <2>4. JobsOf(c, batch') \in Nat /\ JobsOf(c, asr_queue') \in Nat
    BY <1>2, <1>7, <2>1
  <2>5. r.pending_jobs # 0 /\ (r.drained = "set" => r.pending_jobs = 0 \/ r.failure # "none")
    BY <1>1, <1>2, <1>3, <1>7, <2>1, <2>3 DEF ConnOK, PendingOK, s
  <2>6. QED
    BY <1>2, <2>3, <2>4, <2>5 DEF PendingOK, r
<1>9. \A v : Due(c, v)' = Due(c, v)
  BY <1>2 DEF Due
<1>10. Given(c)' = Given(c)
  BY <1>3, <1>9 DEF Given, s, r
<1>11. SegmentsOK(c)'
  <2> SUFFICES ASSUME session'[c].aborted = "no", failure' = "none"
               PROVE  /\ Given(c)' + Len(Waiting(c)') = session'[c].segments
                      /\ \A i \in 1 .. Len(Waiting(c)') :
                           Waiting(c)'[i].id = Given(c)' + i - 1
    BY DEF SegmentsOK
  <2> DEFINE w == Waiting(c)
             n == Len(w)
  <2>1. /\ Own(c, Ahead) \in Seq(Job) /\ Own(c, asr_queue) \in Seq(Job)
    BY <1>1, OwnOf DEF TypeOK, Ahead
  <2>2. w \in Seq(Job) /\ n \in Nat
    BY <2>1, ConcatProperties, LenProperties DEF Waiting
  <2>3. Waiting(c)' = Append(w, j)
    <3>1. Waiting(c)' = Own(c, Ahead) \o Own(c, asr_queue')
      BY <1>2 DEF Waiting, Ahead, Own
    <3>2. QED
      BY <1>5, <1>7, <2>1, <3>1, AppendToConcat DEF Waiting
  <2>4. Given(c) + n = s.segments /\ \A i \in 1 .. n : w[i].id = Given(c) + i - 1
    BY <1>1, <1>2, <1>3 DEF ConnOK, SegmentsOK, s, r
  <2> HIDE DEF w, n
  <2>5. /\ Len(Append(w, j)) = n + 1 /\ Append(w, j)[n + 1] = j
        /\ \A i \in 1 .. n : Append(w, j)[i] = w[i]
    BY <1>5, <2>2, AppendProperties DEF n
  <2>6. Given(c) \in Int
    <3>1. s.succeeded \in Int /\ s.failed \in Int
      BY <1>1 DEF Session
    <3>2. QED
      BY <3>1, DueNat DEF Given, s
  <2>7. \A i \in 1 .. n + 1 : Append(w, j)[i].id = Given(c) + i - 1
    <3>1. \A i \in 1 .. n + 1 : i \in 1 .. n \/ i = n + 1
      BY <2>2
    <3>2. Given(c) + (n + 1) - 1 = s.segments
      BY <2>2, <2>4, <2>6
    <3>3. QED
      BY <1>5, <2>4, <2>5, <3>1, <3>2
  <2>8. Given(c) + (n + 1) = s.segments + 1
    BY <2>2, <2>4, <2>6
  <2>9. QED
    BY <1>3, <1>10, <2>3, <2>5, <2>7, <2>8 DEF r
<1>12. StreamOK(c)'
  <2>1. CASE Active(c)
    <3>1. Stream(c)' = Stream(c)
      BY <1>2 DEF Stream, InHand
    <3>2. QED
      BY <1>1, <1>2, <1>3, <1>4, <1>9, <2>1, <3>1, StreamGoesOn DEF ConnOK, s, r
  <2>2. CASE ~Active(c)
    BY <1>2, <2>2 DEF StreamOK, Active
  <2>3. QED
    BY <2>1, <2>2
<1>13. FatalOK(c)'
  BY <1>1, <1>2, <1>3 DEF ConnOK, FatalOK, s, r
<1>14. SentOK(c)'
  BY <1>1, <1>2, <1>4, SentGoesOn DEF ConnOK
<1>15. QED
  BY <1>6, <1>8, <1>11, <1>12, <1>13, <1>14 DEF ConnOK

\* A mark at the end of the results.
LEMMA PutEndedOK ==
  ASSUME IInv, NEW c \in Connections, PutEnded(c)
  PROVE  ConnOK(c)'
<1> USE DEF At
<1> DEFINE s == session[c]
           e == IF At(ingest, c, "ending") THEN Ended ELSE EofMark
<1>1. /\ TypeOK /\ ConnOK(c) /\ s \in Session
  BY DEF IInv, ConnOK, TypeOK
<1>2. /\ ingest[c] \in {"ending", "closing"}
      /\ ingest'[c] = IF At(ingest, c, "ending") THEN "closing" ELSE "done"
      /\ results'[c] = Append(results[c], e)
      /\ UNCHANGED <<handler, emit, recording, session, sending, sent,
                     asr_queue, batch, jobs, loop, failure>>
  BY <1>1 DEF PutEnded, TypeOK, asrVars
<1>3. At(handler, c, "serving")
  BY <1>2, Serving
<1>4. s.stopping = "yes" /\ s.pending_jobs = 0 /\ (At(ingest, c, "ending") => s.aborted = "no")
  BY <1>1, <1>2 DEF ConnOK, StageOK
<1>5. Settled(c)' /\ (Settled(c) <=> At(ingest, c, "closing"))
  BY <1>2, <1>4 DEF Settled
<1>6. e \in Result /\ e.kind \in {"ended", "eof"} /\ results[c] \in Seq(Result)
  BY <1>1 DEF Ended, EofMark, Result, TypeOK
<1>7. StageOK(c)'
  BY <1>1, <1>2, <1>3, <1>4 DEF ConnOK, StageOK
<1>8. PendingOK(c)'
  BY <1>1, <1>2 DEF ConnOK, PendingOK, JobsOf
<1>9. \A v : Due(c, v)' = Due(c, v)
  BY <1>2 DEF Due
<1>10. SegmentsOK(c)'
  <2>1. Waiting(c)' = Waiting(c)
    BY <1>2 DEF Waiting, Ahead, Own
  <2>2. QED
    BY <1>1, <1>2, <1>9, <2>1, SegmentsGoOn DEF ConnOK, SameCounts
<1> HIDE DEF s
<1>11. StreamOK(c)'
  <2> SUFFICES ASSUME Active(c)' PROVE StreamOK(c)'
    BY DEF StreamOK
  <2> DEFINE m == Stream(c)
             n == Len(m)
  <2>1. Active(c)
    BY <1>2 DEF Active
  <2>2. /\ sent[c] \o InHand(c) \in Seq(Result) /\ m \in Seq(Result) /\ n \in Nat
    <3>1. sent[c] \in Seq(Result) /\ InHand(c) \in Seq(Result)
      BY <1>1, EmptySeq DEF TypeOK, InHand
    <3>2. sent[c] \o InHand(c) \in Seq(Result)
      BY <3>1, ConcatProperties
    <3>3. QED
      BY <1>6, <3>2, ConcatProperties, LenProperties DEF Stream
  <2> HIDE DEF e
  <2>3. Stream(c)' = Append(m, e)
    <3> DEFINE p == sent[c] \o InHand(c)
               q == results[c]
    <3>1. Stream(c)' = p \o Append(q, e) /\ m = p \o q
      BY <1>2 DEF Stream, InHand
    <3> HIDE DEF p, q, m
    <3>2. p \in Seq(Result) /\ q \in Seq(Result) /\ e \in Result
      BY <1>6, <2>2 DEF p, q
    <3>3. p \o Append(q, e) = Append(p \o q, e)
      BY <3>2, AppendToConcat
    <3>4. QED
      BY <3>1, <3>3
  <2> HIDE DEF m, n
  <2>4. /\ Append(m, e) \in Seq(Result) /\ Len(Append(m, e)) = n + 1
        /\ Append(m, e)[n + 1] = e
        /\ \A i \in 1 .. n : Append(m, e)[i] = m[i]
    BY <1>6, <2>2, AppendProperties DEF n
  <2>5. ASSUME NEW i \in 1 .. n PROVE StreamItem(c, i)'
    <3>1. StreamItem(c, i) /\ Append(m, e)[i] = m[i]
      BY <1>1, <2>1, <2>4, <2>5 DEF ConnOK, StreamOK, m, n
    <3>2. CASE m[i].kind \in Verdicts /\ m[i].id = i - 1
      BY <2>3, <3>1, <3>2 DEF StreamItem
    <3>3. CASE m[i] = Ended /\ Settled(c) /\ session[c].aborted = "no" /\ i = n
      <4>1. At(ingest, c, "closing") /\ e = EofMark /\ At(ingest', c, "done")
        BY <1>2, <1>5, <3>3 DEF e
      <4>2. n = (n + 1) - 1
        BY <2>2
      <4>3. QED
        BY <1>2, <1>5, <2>3, <2>4, <3>1, <3>3, <4>1, <4>2 DEF StreamItem
    <3>4. QED
      BY <1>2, <3>1, <3>2, <3>3 DEF StreamItem, m, n
  <2>6. ASSUME NEW i \in Nat, i = n + 1 PROVE StreamItem(c, i)'
    <3>0. Stream(c)'[i] = e /\ i = Len(Stream(c)')
      BY <2>3, <2>4, <2>6
    <3>1. CASE At(ingest, c, "ending")
      <4>1. /\ e = Ended /\ At(ingest', c, "closing") /\ session'[c].aborted = "no"
        BY <1>2, <1>4, <3>1 DEF e, s
      <4>2. QED
        BY <1>5, <3>0, <4>1 DEF StreamItem
    <3>2. CASE At(ingest, c, "closing")
      <4>1. e = EofMark /\ At(ingest', c, "done")
        BY <1>2, <3>2 DEF e
      <4>2. QED
        BY <1>5, <3>0, <4>1 DEF StreamItem
    <3>3. QED
      BY <1>2, <3>1, <3>2
  <2>7. \A i \in 1 .. Len(Stream(c)') : StreamItem(c, i)'
    <3>1. \A i \in 1 .. n + 1 : i \in 1 .. n \/ i = n + 1
      BY <2>2
    <3>2. Len(Stream(c)') = n + 1
      BY <2>3, <2>4
    <3>3. ASSUME NEW i \in 1 .. n + 1 PROVE StreamItem(c, i)'
      BY <2>2, <2>5, <2>6, <3>1
    <3>4. QED
      BY <3>2, <3>3
  <2>8. \A kinds : kinds \subseteq Verdicts =>
          Results(kinds, Append(m, e)) = Results(kinds, m)
    <3> SUFFICES ASSUME NEW kinds, kinds \subseteq Verdicts
                 PROVE  Results(kinds, Append(m, e)) = Results(kinds, m)
      OBVIOUS
    <3> DEFINE X == [kind : kinds, id : Nat]
    <3>1. e \notin X
      BY <1>6 DEF Verdicts
    <3> HIDE DEF X
    <3>2. Selected(X, Append(m, e)) = Selected(X, m)
      BY <1>6, <2>2, <3>1, SelectedOfAppend
    <3>3. QED
      BY <3>2 DEF Results, X
  <2>9. session'[c].aborted = "no" =>
          /\ Results({"committed"}, Stream(c)') = session'[c].succeeded - Due(c, {"committed"})'
          /\ Results({"failed", "fatal"}, Stream(c)')
             = session'[c].failed - Due(c, {"failed", "fatal"})'
    <3>1. {"committed"} \subseteq Verdicts /\ {"failed", "fatal"} \subseteq Verdicts
      BY DEF Verdicts
    <3>2. QED
      BY <1>1, <1>2, <1>9, <2>1, <2>3, <2>8, <3>1 DEF ConnOK, StreamOK, m
  <2>10. QED
    BY <1>5, <2>7, <2>9 DEF StreamOK, Results
<1>12. FatalOK(c)'
  <2>1. /\ Len(results'[c]) = Len(results[c]) + 1 /\ Len(results[c]) \in Nat
        /\ results'[c][Len(results[c]) + 1] = e
        /\ \A i \in 1 .. Len(results[c]) : results'[c][i] = results[c][i]
    BY <1>2, <1>6, AppendProperties, LenProperties
  <2>2. \A i \in 1 .. Len(results'[c]) :
          i \in 1 .. Len(results[c]) \/ i = Len(results[c]) + 1
    BY <2>1
  <2> HIDE DEF e
  <2>3. QED
    BY <1>1, <1>2, <1>6, <2>1, <2>2 DEF ConnOK, FatalOK
<1>13. SentOK(c)'
  BY <1>1, <1>2, <1>5, SentGoesOn DEF ConnOK
<1>14. QED
  BY <1>7, <1>8, <1>10, <1>11, <1>12, <1>13 DEF ConnOK

\* Where the results of a stream are.
LEMMA StreamPlaces ==
  ASSUME TypeOK, NEW c \in Connections
  PROVE  /\ sent[c] \in Seq(Result) /\ InHand(c) \in Seq(Result) /\ results[c] \in Seq(Result)
         /\ Len(sent[c]) \in Nat /\ Len(InHand(c)) \in Nat /\ Len(results[c]) \in Nat
         /\ Stream(c) \in Seq(Result)
         /\ Len(Stream(c)) = Len(sent[c]) + Len(InHand(c)) + Len(results[c])
         /\ \A i \in 1 .. Len(sent[c]) : Stream(c)[i] = sent[c][i]
         /\ \A i \in 1 .. Len(InHand(c)) : Stream(c)[Len(sent[c]) + i] = InHand(c)[i]
         /\ \A i \in 1 .. Len(results[c]) :
              Stream(c)[Len(sent[c]) + Len(InHand(c)) + i] = results[c][i]
<1> DEFINE p == sent[c]
           q == InHand(c)
           r == results[c]
<1>1. p \in Seq(Result) /\ q \in Seq(Result) /\ r \in Seq(Result)
  BY EmptySeq DEF TypeOK, InHand
<1>2. Stream(c) = (p \o q) \o r
  BY DEF Stream
<1> HIDE DEF p, q, r
<1>3. Len(p) \in Nat /\ Len(q) \in Nat /\ Len(r) \in Nat
  BY <1>1, LenProperties
<1>4. /\ p \o q \in Seq(Result) /\ Len(p \o q) = Len(p) + Len(q)
      /\ \A i \in 1 .. Len(p) + Len(q) :
           (p \o q)[i] = IF i =< Len(p) THEN p[i] ELSE q[i - Len(p)]
  BY <1>1, ConcatProperties
<1> DEFINE t == p \o q
<1> HIDE DEF t
<1>5. /\ t \in Seq(Result) /\ Len(t) = Len(p) + Len(q)
      /\ t \o r \in Seq(Result) /\ Len(t \o r) = Len(t) + Len(r)
      /\ \A i \in 1 .. Len(t) + Len(r) :
           (t \o r)[i] = IF i =< Len(t) THEN t[i] ELSE r[i - Len(t)]
  BY <1>1, <1>4, ConcatProperties DEF t
<1>6. ASSUME NEW i \in 1 .. Len(p) PROVE (t \o r)[i] = p[i]
  <2>1. i \in 1 .. Len(t) + Len(r) /\ i =< Len(t) /\ i \in 1 .. Len(p) + Len(q) /\ i =< Len(p)
    BY <1>3, <1>5
  <2>2. t[i] = p[i]
    BY <1>4, <2>1 DEF t
  <2>3. QED
    BY <1>5, <2>1, <2>2
<1>7. ASSUME NEW i \in 1 .. Len(q) PROVE (t \o r)[Len(p) + i] = q[i]
  <2>1. /\ Len(p) + i \in 1 .. Len(t) + Len(r) /\ Len(p) + i =< Len(t)
        /\ Len(p) + i \in 1 .. Len(p) + Len(q) /\ ~(Len(p) + i =< Len(p))
        /\ Len(p) + i - Len(p) = i
    BY <1>3, <1>5
  <2>2. t[Len(p) + i] = q[i]
    BY <1>4, <2>1 DEF t
  <2>3. QED
    BY <1>5, <2>1, <2>2
<1>8. ASSUME NEW i \in 1 .. Len(r) PROVE (t \o r)[Len(p) + Len(q) + i] = r[i]
  <2>1. /\ Len(p) + Len(q) + i \in 1 .. Len(t) + Len(r)
        /\ ~(Len(p) + Len(q) + i =< Len(t))
        /\ (Len(p) + Len(q) + i) - Len(t) = i
    BY <1>3, <1>5
  <2>2. QED
    BY <1>5, <2>1
<1>9. QED
  BY <1>1, <1>2, <1>3, <1>5, <1>6, <1>7, <1>8 DEF t, p, q, r

LEMMA TakeResultOK ==
  ASSUME IInv, NEW c \in Connections, TakeResult(c)
  PROVE  ConnOK(c)'
<1> USE DEF At
<1> DEFINE e == Head(results[c])
<1>1. TypeOK /\ ConnOK(c)
  BY DEF IInv, ConnOK
<1>2. /\ At(emit, c, "waiting") /\ results[c] # << >> /\ results[c] \in Seq(Result)
      /\ emit'[c] = IF e = EofMark THEN "done" ELSE IF Refused(c) THEN "failed" ELSE "sending"
      /\ results'[c] = Tail(results[c]) /\ sending'[c] = e
      /\ UNCHANGED <<handler, ingest, recording, session, sent,
                     asr_queue, batch, jobs, loop, failure>>
  BY <1>1 DEF TakeResult, TypeOK, asrVars
<1>3. At(handler, c, "serving") /\ Active(c)
  BY <1>2, Serving DEF Active
<1>4. /\ results[c] = <<e>> \o results'[c] /\ e \in Result /\ <<e>> \in Seq(Result)
      /\ results'[c] \in Seq(Result)
  BY <1>2, HeadThenTail
<1>5. /\ Len(results[c]) \in Nat \ {0} /\ Len(results'[c]) = Len(results[c]) - 1
      /\ \A i \in 1 .. Len(results[c]) - 1 : results'[c][i] = results[c][i + 1]
      /\ e = results[c][1]
  <2>1. Len(results[c]) \in Nat \ {0} /\ e = results[c][1]
    BY <1>2, EmptySeq
  <2>2. /\ Len(Tail(results[c])) = Len(results[c]) - 1
        /\ \A i \in 1 .. Len(Tail(results[c])) : Tail(results[c])[i] = results[c][i + 1]
    BY <1>2, HeadTailProperties
  <2>3. QED
    BY <1>2, <2>1, <2>2
<1> HIDE DEF e
<1>6. StageOK(c)'
  BY <1>1, <1>2, <1>3 DEF ConnOK, StageOK
<1>7. PendingOK(c)'
  BY <1>1, <1>2 DEF ConnOK, PendingOK, JobsOf
<1>8. \A v : Due(c, v)' = Due(c, v)
  BY <1>2 DEF Due
<1>9. SegmentsOK(c)'
  <2>1. Waiting(c)' = Waiting(c)
    BY <1>2 DEF Waiting, Ahead, Own
  <2>2. QED
    BY <1>1, <1>2, <1>8, <2>1, SegmentsGoOn DEF ConnOK, SameCounts
<1>10. StreamOK(c)'
  <2>1. CASE emit'[c] = "sending"
    <3> DEFINE p == sent[c]
               q == results'[c]
    <3>1. Stream(c) = (p \o << >>) \o (<<e>> \o q) /\ Stream(c)' = (p \o <<e>>) \o q
      BY <1>2, <1>4, <2>1 DEF Stream, InHand
    <3>2. p \in Seq(Result) /\ q \in Seq(Result)
      BY <1>1, <1>4 DEF TypeOK
    <3> HIDE DEF p, q
    <3>3. p \o << >> = p /\ (p \o <<e>>) \o q = p \o (<<e>> \o q)
      <4> DEFINE one == <<e>>
      <4>1. one \in Seq(Result)
        BY <1>4
      <4> HIDE DEF one
      <4>2. Joined(Joined(p, one), q) = Joined(p, Joined(one, q))
        BY <3>2, <4>1, JoinedFromEither
      <4>3. p \o << >> = p
        BY <3>2, ConcatEmptySeq
      <4>4. (p \o <<e>>) \o q = p \o (<<e>> \o q)
        BY ONLY <4>2 DEF Joined, one
      <4>5. QED
        BY <4>3, <4>4
    <3>4. Stream(c)' = Stream(c)
      BY <3>1, <3>3
    <3>5. Settled(c)' = Settled(c)
      BY <1>2 DEF Settled
    <3>6. QED
      BY <1>1, <1>2, <1>3, <1>8, <3>4, <3>5, StreamGoesOn DEF ConnOK
  <2>2. CASE emit'[c] # "sending"
    BY <1>2, <2>2 DEF StreamOK, Active
  <2>3. QED
    BY <2>1, <2>2
<1>11. FatalOK(c)'
  <2>1. \A i \in 1 .. Len(results'[c]) :
          results'[c][i].kind = "fatal" => session'[c].failure # "none"
    <3>1. \A i \in 1 .. Len(results[c]) - 1 : i + 1 \in 1 .. Len(results[c])
      BY <1>5
    <3>2. QED
      BY <1>1, <1>2, <1>5, <3>1 DEF ConnOK, FatalOK
  <2>2. emit'[c] = "sending" => e.kind \notin {"fatal", "eof"}
    <3> SUFFICES ASSUME emit'[c] = "sending" PROVE e.kind \notin {"fatal", "eof"}
      OBVIOUS
    <3>1. session[c].failure = "none" /\ e # EofMark
      BY <1>2 DEF Refused
    <3>2. 1 \in 1 .. Len(results[c])
      BY <1>5
    <3>3. e.kind # "fatal"
      BY <1>1, <1>5, <3>1, <3>2 DEF ConnOK, FatalOK
    <3>4. PICK i \in 1 .. Len(Stream(c)) : Stream(c)[i] = e
      <4> DEFINE a == Len(sent[c])
                 b == Len(InHand(c))
                 l == Len(results[c])
      <4>1. a \in Nat /\ b \in Nat /\ l \in Nat \ {0} /\ Len(Stream(c)) = a + b + l
        BY <1>1, <1>5, StreamPlaces
      <4>2. Stream(c)[a + b + 1] = e
        BY <1>1, <1>5, <3>2, StreamPlaces
      <4> HIDE DEF a, b, l
      <4>3. a + b + 1 \in 1 .. Len(Stream(c))
        BY <4>1
      <4>4. QED
        BY <4>2, <4>3
    <3>5. StreamItem(c, i)
      BY <1>1, <1>3 DEF ConnOK, StreamOK
    <3>6. e.kind \in Verdicts \/ e = Ended
      BY <3>1, <3>4, <3>5 DEF StreamItem
    <3>7. QED
      BY <3>3, <3>6 DEF Verdicts, Ended
  <2>3. QED
    BY <1>1, <1>2, <2>1, <2>2 DEF ConnOK, FatalOK
<1>12. SentOK(c)'
  <2>1. Settled(c)' = Settled(c)
    BY <1>2 DEF Settled
  <2>2. QED
    BY <1>1, <1>2, <2>1, SentGoesOn DEF ConnOK
<1>13. QED
  BY <1>6, <1>7, <1>9, <1>10, <1>11, <1>12 DEF ConnOK

LEMMA SendResultOK ==
  ASSUME IInv, NEW c \in Connections, SendResult(c)
  PROVE  ConnOK(c)'
<1> USE DEF At
<1> DEFINE e == sending[c]
           n == Len(sent[c])
           m == Stream(c)
           k == Len(m)
           l == Len(results[c])
<1>1. TypeOK /\ ConnOK(c)
  BY DEF IInv, ConnOK
<1>2. /\ At(emit, c, "sending") /\ e \in Result /\ sending'[c] = EofMark
      /\ \/ sent'[c] = Append(sent[c], e) /\ emit'[c] = "waiting"
         \/ sent'[c] = sent[c] /\ emit'[c] = "failed"
      /\ UNCHANGED <<handler, ingest, recording, session, results,
                     asr_queue, batch, jobs, loop, failure>>
  BY <1>1 DEF SendResult, TypeOK, asrVars
<1>3. At(handler, c, "serving") /\ Active(c)
  BY <1>2, Serving DEF Active
<1>4. InHand(c) = <<e>> /\ Len(InHand(c)) = 1
  BY <1>2 DEF InHand
<1>5. /\ n \in Nat /\ Len(results[c]) \in Nat /\ Len(m) = n + 1 + Len(results[c])
      /\ sent[c] \in Seq(Result) /\ results[c] \in Seq(Result) /\ m \in Seq(Result)
      /\ \A i \in 1 .. n : m[i] = sent[c][i]
      /\ m[n + 1] = e
      /\ \A i \in 1 .. Len(results[c]) : m[n + 1 + i] = results[c][i]
  <2>1. 1 \in 1 .. Len(InHand(c)) /\ InHand(c)[1] = e
    BY <1>4
  <2>2. QED
    BY <1>1, <1>4, <2>1, StreamPlaces
<1>15. n \in Nat /\ l \in Nat /\ k = n + 1 + l
  BY <1>5
<1>16. \A i \in 1 .. n : m[i] = sent[c][i] /\ i \in 1 .. k
  <2>1. \A i \in 1 .. n : m[i] = sent[c][i]
    BY <1>5
  <2> HIDE DEF m, n, k, l
  <2>2. \A i \in 1 .. n : i \in 1 .. k
    BY <1>15
  <2>3. QED
    BY <2>1, <2>2
<1>17. m[n + 1] = e
  BY <1>5
<1>6. Settled(c)' = Settled(c)
  BY <1>2 DEF Settled
<1>7. \A v : Due(c, v)' = Due(c, v)
  BY <1>2 DEF Due
<1>8. StageOK(c)'
  BY <1>1, <1>2, <1>3 DEF ConnOK, StageOK
<1>9. PendingOK(c)'
  BY <1>1, <1>2 DEF ConnOK, PendingOK, JobsOf
<1>10. SegmentsOK(c)'
  <2>1. Waiting(c)' = Waiting(c)
    BY <1>2 DEF Waiting, Ahead, Own
  <2>2. QED
    BY <1>1, <1>2, <1>7, <2>1, SegmentsGoOn DEF ConnOK, SameCounts
<1>11. FatalOK(c)'
  BY <1>1, <1>2 DEF ConnOK, FatalOK
<1>12. CASE sent'[c] = sent[c] /\ emit'[c] = "failed"
  <2>1. SentOK(c)'
    BY <1>1, <1>2, <1>6, <1>12, SentGoesOn DEF ConnOK
  <2>2. StreamOK(c)'
    BY <1>12 DEF StreamOK, Active
  <2>3. QED
    BY <1>8, <1>9, <1>10, <1>11, <2>1, <2>2 DEF ConnOK
<1>13. CASE sent'[c] = Append(sent[c], e) /\ emit'[c] = "waiting"
  <2> DEFINE t == Append(sent[c], e)
             q == results[c]
  <2>1. /\ t \in Seq(Result) /\ Len(t) = n + 1 /\ t[n + 1] = e
        /\ \A i \in 1 .. n : t[i] = sent[c][i]
    BY <1>2, <1>5, AppendProperties
  <2>2. m = t \o q /\ Stream(c)' = t \o q
    <3>1. t = sent[c] \o <<e>>
      BY <1>2, <1>5, AppendIsConcat
    <3>2. m = t \o q
      BY <1>4, <3>1 DEF Stream
    <3>3. Stream(c)' = (t \o << >>) \o q
      BY <1>2, <1>13 DEF Stream, InHand
    <3> HIDE DEF t, q, m
    <3>4. t \o << >> = t
      BY <2>1, ConcatEmptySeq
    <3>5. QED
      BY <3>2, <3>3, <3>4
  <2> HIDE DEF e, n, t, q, k, l
  <2>3. StreamOK(c)'
    <3>1. Stream(c)' = Stream(c)
      BY <2>2
    <3> HIDE DEF m
    <3>2. QED
      BY <1>1, <1>2, <1>3, <1>6, <1>7, <3>1, StreamGoesOn DEF ConnOK
  <2> HIDE DEF m
  <2>4. \A i \in 1 .. k : StreamItem(c, i)
    BY <1>1, <1>3 DEF ConnOK, StreamOK, m, k
  <2>5. e.kind \notin {"fatal", "eof"} /\ e # EofMark
    <3>1. e.kind \notin {"fatal", "eof"}
      BY <1>1, <1>2 DEF ConnOK, FatalOK, e
    <3>2. QED
      BY <3>1 DEF EofMark
  <2>6. ASSUME NEW i \in 1 .. n PROVE SentItem(c, i)'
    <3>1. SentItem(c, i) /\ m[i] = sent[c][i] /\ t[i] = sent[c][i] /\ i \in 1 .. k
      <4>1. m[i] = sent[c][i] /\ t[i] = sent[c][i] /\ i \in 1 .. k
        BY <1>16, <2>1, <2>6
      <4>2. SentItem(c, i)
        BY <1>1, <2>6 DEF ConnOK, SentOK, n
      <4>3. QED
        BY <4>1, <4>2
    <3>2. CASE sent[c][i] = Ended /\ i = n
      <4>1. StreamItem(c, i) /\ m[i] = Ended
        BY <2>4, <3>1, <3>2
      <4>2. Ended.kind \notin Verdicts /\ Ended # EofMark
        BY DEF Ended, EofMark, Verdicts
      <4>3. i # k
        BY <1>15, <3>2
      <4>4. i = k - 1 /\ m[k] = EofMark
        BY <4>1, <4>2, <4>3 DEF StreamItem, m, k
      <4>5. n + 1 = k
        BY <1>15, <3>2, <4>4
      <4>6. QED
        BY <1>17, <2>5, <4>4, <4>5
    <3>3. CASE sent[c][i].kind \in {"committed", "failed"} /\ sent[c][i].id = i - 1
      BY <1>13, <3>1, <3>3 DEF SentItem, t
    <3>4. QED
      BY <3>1, <3>2, <3>3 DEF SentItem, n
  <2>7. ASSUME NEW i \in Nat, i = n + 1 PROVE SentItem(c, i)'
    <3>1. StreamItem(c, i) /\ m[i] = e /\ t[i] = e /\ i = Len(t) /\ i \in 1 .. k
      <4>1. i \in 1 .. k
        BY <1>15, <2>7
      <4>2. m[i] = e /\ t[i] = e /\ i = Len(t)
        BY <1>17, <2>1, <2>7
      <4>3. QED
        BY <2>4, <4>1, <4>2
    <3>2. CASE e.kind \in Verdicts /\ e.id = i - 1
      <4>1. e.kind \in {"committed", "failed"}
        BY <2>5, <3>2 DEF Verdicts
      <4>2. QED
        BY <1>13, <3>1, <3>2, <4>1 DEF SentItem, t, e
    <3>3. CASE /\ e = Ended /\ Settled(c) /\ session[c].aborted = "no"
               /\ \/ i = k
                  \/ i = k - 1 /\ m[k] = EofMark
      <4>1. \A j \in 1 .. Len(q) : q[j] = EofMark
        <5> SUFFICES ASSUME NEW j \in 1 .. Len(q) PROVE q[j] = EofMark
          OBVIOUS
        <5>1. k = i + Len(q) /\ Len(q) \in Nat
          BY <1>15, <2>7 DEF q, l
        <5>2. q[j] = m[i + j]
          BY <1>5, <2>7 DEF q
        <5>3. Len(q) # 0
          BY <5>1
        <5>4. i # k
          BY <5>1, <5>3
        <5>5. i = k - 1 /\ m[k] = EofMark
          BY <3>3, <5>4
        <5>6. i + j = k
          BY <5>1, <5>5
        <5>7. QED
          BY <5>2, <5>5, <5>6
      <4>2. \A kinds : kinds \subseteq Verdicts => Results(kinds, m) = Results(kinds, t)
        <5> SUFFICES ASSUME NEW kinds, kinds \subseteq Verdicts
                     PROVE  Results(kinds, m) = Results(kinds, t)
          OBVIOUS
        <5> DEFINE K == [kind : kinds, id : Nat]
        <5>1. EofMark \notin K
          BY DEF EofMark, Verdicts
        <5> HIDE DEF K
        <5>2. q \in Seq(Result) /\ t \in Seq(Result)
          BY <1>5, <2>1 DEF q
        <5>3. Selected(K, q) = << >>
          BY <4>1, <5>1, <5>2, SelectedNone
        <5>4. Selected(K, m) = Selected(K, t) \o << >>
          <6>1. Selected(K, t \o q) = Selected(K, t) \o Selected(K, q)
            BY <5>2, SelectedOfConcat
          <6>2. QED
            BY <2>2, <5>3, <6>1
        <5>5. Selected(K, t) \in Seq(Result)
          BY <5>2, SelectedSeq
        <5>6. Selected(K, m) = Selected(K, t)
          BY <5>4, <5>5, ConcatEmptySeq
        <5>7. QED
          BY <5>6 DEF Results, K
      <4>3. {"committed"} \subseteq Verdicts /\ {"failed", "fatal"} \subseteq Verdicts
        BY DEF Verdicts
      <4>4. session[c].pending_jobs = 0
        BY <3>3 DEF Settled
      <4>5. Due(c, {"committed"}) = 0 /\ Due(c, {"failed", "fatal"}) = 0
        BY <4>3, <4>4, NoneDue
      <4>6. session[c].succeeded \in Nat /\ session[c].failed \in Nat
        BY <1>1 DEF TypeOK, Session
      <4>7. /\ Results({"committed"}, m) = session[c].succeeded
            /\ Results({"failed", "fatal"}, m) = session[c].failed
        BY <1>1, <1>3, <3>3, <4>5, <4>6 DEF ConnOK, StreamOK, m
      <4>8. /\ Results({"committed"}, t) = session[c].succeeded
            /\ Results({"failed", "fatal"}, t) = session[c].failed
        BY <4>2, <4>3, <4>7
      <4>9. /\ sent'[c] = t /\ Settled(c)' /\ session' = session
        BY <1>2, <1>6, <1>13, <3>3 DEF t, e
      <4>10. QED
        BY <3>1, <3>3, <4>8, <4>9 DEF SentItem, Results
    <3>4. QED
      <4>1. \/ m[i].kind \in Verdicts /\ m[i].id = i - 1
            \/ /\ m[i] = Ended /\ Settled(c) /\ session[c].aborted = "no"
               /\ \/ i = k
                  \/ i = k - 1 /\ m[k] = EofMark
            \/ m[i] = EofMark
        BY <3>1 DEF StreamItem, m, k
      <4>2. QED
        BY <2>5, <3>1, <3>2, <3>3, <4>1
  <2>8. SentOK(c)'
    <3>1. sent'[c] = t /\ Len(t) = n + 1
      BY <1>13, <2>1 DEF t, e
    <3>2. \A i \in 1 .. n + 1 : i \in Nat /\ (i \in 1 .. n \/ i = n + 1)
      BY <1>5
    <3>3. ASSUME NEW i \in 1 .. n + 1 PROVE SentItem(c, i)'
      <4>1. i \in Nat /\ (i \in 1 .. n \/ i = n + 1)
        BY <3>2
      <4>2. CASE i \in 1 .. n
        BY <2>6, <4>2
      <4>3. CASE i = n + 1
        BY <2>7, <4>1, <4>3
      <4>4. QED
        BY <4>1, <4>2, <4>3
    <3>4. QED
      BY <3>1, <3>3 DEF SentOK
  <2>9. QED
    BY <1>8, <1>9, <1>10, <1>11, <2>3, <2>8 DEF ConnOK
<1>14. QED
  BY <1>2, <1>12, <1>13

LEMMA ReleaseOK ==
  ASSUME IInv, NEW c \in Connections, Release(c)
  PROVE  ConnOK(c)'
<1> USE DEF At
<1> DEFINE s == session[c]
           r == session'[c]
           n == JobsOf(c, asr_queue)
<1>1. /\ TypeOK /\ ConnOK(c) /\ s \in Session /\ n \in Nat
  BY PendingBounds DEF IInv, ConnOK, TypeOK
<1>2. /\ At(handler, c, "leaving") /\ handler'[c] = "closed" /\ results'[c] = << >>
      /\ asr_queue' = Retained(c)
      /\ UNCHANGED <<ingest, emit, recording, sending, sent, batch, jobs, loop, failure>>
  BY <1>1 DEF Release, TypeOK
<1>3. /\ r.stopping = s.stopping /\ r.segments = s.segments
      /\ r.pending_jobs = s.pending_jobs - n
      /\ r.drained = IF n # 0 /\ s.pending_jobs = n THEN "set" ELSE s.drained
      /\ r.succeeded = s.succeeded /\ r.failed = s.failed
      /\ r.aborted = "yes" /\ r.failure = s.failure
  BY SessionRelease
<1>4. At(ingest, c, "done") /\ At(emit, c, "done")
  BY <1>1, <1>2 DEF ConnOK, StageOK
<1>5. JobsOf(c, asr_queue') = 0
  <2>1. asr_queue \in Seq(Job) /\ Connections \ {c} \in SUBSET Connections
        /\ c \notin Connections \ {c}
    BY <1>1 DEF TypeOK
  <2>2. QED
    BY <1>2, <2>1, OwnOfSelected DEF Retained
<1>6. /\ s.pending_jobs = n + JobsOf(c, batch) /\ JobsOf(c, batch) \in Nat
      /\ s.pending_jobs = 0 => s.drained = "set"
      /\ s.drained = "set" => s.pending_jobs = 0 \/ s.failure # "none"
  BY <1>1, <1>4, PendingBounds DEF ConnOK, PendingOK
<1> HIDE DEF s, r, n
<1>7. StageOK(c)'
  BY <1>2, <1>3, <1>4 DEF StageOK, r
<1>8. PendingOK(c)'
  <2>1. r.pending_jobs = JobsOf(c, asr_queue') + JobsOf(c, batch')
    BY <1>1, <1>2, <1>3, <1>5, <1>6
  <2>2. r.pending_jobs = 0 => r.drained = "set"
    BY <1>1, <1>3, <1>6
  <2>3. r.drained = "set" => r.pending_jobs = 0 \/ r.failure # "none"
    BY <1>1, <1>3, <1>6
  <2>4. JobsOf(c, asr_queue') \in Nat /\ JobsOf(c, batch') \in Nat
    BY <1>2, <1>5, <1>6
  <2>5. QED
    BY <1>2, <1>4, <2>1, <2>2, <2>3, <2>4 DEF PendingOK, r
<1>9. SegmentsOK(c)'
  BY <1>3 DEF SegmentsOK, r
<1>10. StreamOK(c)'
  BY <1>2, <1>4 DEF StreamOK, Active
<1>11. FatalOK(c)'
  <2>1. Len(<< >>) = 0
    OBVIOUS
  <2>2. QED
    BY <1>1, <1>2, <1>3, <1>4, <2>1 DEF ConnOK, FatalOK, s, r
<1>12. SentOK(c)'
  <2>1. Settled(c) => Settled(c)'
    BY <1>1, <1>2, <1>3, <1>6 DEF Settled, s, r
  <2>2. QED
    BY <1>1, <1>2, <1>3, <2>1, SentGoesOn DEF ConnOK, s, r
<1>13. QED
  BY <1>7, <1>8, <1>9, <1>10, <1>11, <1>12 DEF ConnOK

\* A step of a connection leaves the loop as it is.
LEMMA ConnStepLoop ==
  ASSUME IInv, NEW c \in Connections, ConnStep(c)
  PROVE  LoopOK'
<1> USE DEF At
<1>1. TypeOK /\ LoopOK
  BY DEF IInv
<1>2. LoopKept /\ \A d \in Connections : Aborted(d)' => Aborted(d) \/ At(handler', d, "closed")
  <2>1. CASE TaskStep(c)
    <3>1. TaskKept(c)
      BY <2>1, TaskStepKeeps
    <3>2. \A d \in Connections : session'[d].aborted = session[d].aborted
      BY <2>1, <3>1, StepsBeside DEF ConnStep, TaskStep, Beside, ConnKept, TaskKept, SameCounts
    <3>3. QED
      BY <3>1, <3>2 DEF TaskKept, Aborted
  <2>2. CASE PutJob(c)
    <3>1. session'[c].aborted = session[c].aborted
      BY <1>1, <2>2, SessionPutJob
    <3>2. \A d \in Connections : d # c => session'[d] = session[d]
      BY <2>2, StepsBeside DEF ConnStep, Beside, ConnKept
    <3>3. QED
      BY <2>2, <3>1, <3>2 DEF PutJob, LoopKept, Aborted
  <2>3. CASE PutEnded(c) \/ TakeResult(c) \/ SendResult(c)
    BY <2>3 DEF PutEnded, TakeResult, SendResult, LoopKept, asrVars, Aborted
  <2>4. CASE Release(c)
    <3>1. At(handler', c, "closed")
      BY <1>1, <2>4 DEF Release, TypeOK
    <3>2. \A d \in Connections : d # c => session'[d] = session[d]
      BY <2>4, StepsBeside DEF ConnStep, Beside, ConnKept
    <3>3. QED
      BY <2>4, <3>1, <3>2 DEF Release, LoopKept, Aborted
  <2>5. QED
    BY <2>1, <2>2, <2>3, <2>4 DEF ConnStep, TaskStep
<1>3. \A d \in Connections : At(handler, d, "closed") => At(handler', d, "closed")
  <2>1. \A d \in Connections : d # c => handler'[d] = handler[d]
    BY StepsBeside DEF Beside, ConnKept
  <2>2. At(handler, c, "closed") => At(handler', c, "closed")
    BY <1>1 DEF ConnStep, Open, CloseTurn, PutJob, PutJobTimeout, FeedFails, Stop, WaitDrained,
                Drained, PutEnded, DrainTimeout, TakeResult, SendResult, Leave, Release, TypeOK
  <2>3. QED
    BY <2>1, <2>2
<1>4. jobs # << >> => Head(jobs).conn \in Connections
  BY HeadCounted
<1>5. \A d \in Connections : /\ JobsOf(d, jobs)' = JobsOf(d, jobs)
                             /\ JobsOf(d, batch)' = JobsOf(d, batch)
  BY <1>2 DEF JobsOf, LoopKept
<1>6. QED
  BY <1>1, <1>2, <1>3, <1>4, <1>5 DEF LoopOK, LoopKept

LEMMA ConnStepOK ==
  ASSUME IInv, NEW c \in Connections, ConnStep(c), TypeOK'
  PROVE  IInv'
<1>1. ConnOK(c)'
  <2>1. CASE TaskStep(c)
    <3>1. TaskKept(c)
      BY <2>1, TaskStepKeeps
    <3>2. SegmentsOK(c)' /\ StreamOK(c)' /\ FatalOK(c)' /\ SentOK(c)'
      BY <3>1, TaskStepOK
    <3>3. StageOK(c)'
      BY <2>1, TaskStepStage
    <3>4. PendingOK(c)'
      BY <2>1, TaskStepPending
    <3>5. QED
      BY <3>2, <3>3, <3>4 DEF ConnOK
  <2>2. QED
    BY <2>1, PutJobOK, PutEndedOK, TakeResultOK, SendResultOK, ReleaseOK DEF ConnStep, TaskStep
<1>2. \A d \in Connections : d # c => ConnOK(d)'
  <2> SUFFICES ASSUME NEW d \in Connections, d # c PROVE ConnOK(d)'
    OBVIOUS
  <2>1. ConnOK(d) /\ Beside(d)
    BY StepsBeside DEF IInv, ConnOK
  <2>2. QED
    BY <2>1, BesideKept
<1>3. LoopOK'
  BY ConnStepLoop
<1>4. \A d \in Connections : ConnOK(d)'
  BY <1>1, <1>2
<1>5. QED
  BY <1>3, <1>4 DEF IInv, ConnOK

-----------------------------------------------------------------------------
\* The steps of the loop.

\* A step of the loop that delivers nothing to a session, and may count off n of
\* its jobs.
LoopLeaves(d, n) ==
  /\ UNCHANGED connVars /\ results'[d] = results[d]
  /\ OnlyCounted(session[d], session'[d], n)
  /\ JobsOf(d, asr_queue') + JobsOf(d, batch')
     = (JobsOf(d, asr_queue) + JobsOf(d, batch)) - n
  /\ session[d].aborted = "no" /\ failure' = "none" =>
       Own(d, Ahead') \o Own(d, asr_queue') = Own(d, Ahead) \o Own(d, asr_queue)
  /\ failure' = "none" => failure = "none"
  /\ \A v : v \subseteq Verdicts => Due(d, v)' = Due(d, v)

LEMMA LoopLeavesOK ==
  ASSUME IInv, NEW d \in Connections, NEW n \in Nat, LoopLeaves(d, n)
  PROVE  ConnOK(d)'
<1> USE DEF At
<1> DEFINE s == session[d]
           r == session'[d]
<1>1. ConnOK(d) /\ s \in Session /\ s.pending_jobs \in Nat
  BY DEF IInv, ConnOK, TypeOK, Session
<1>2. /\ handler'[d] = handler[d] /\ ingest'[d] = ingest[d] /\ emit'[d] = emit[d]
      /\ sending'[d] = sending[d] /\ sent'[d] = sent[d] /\ results'[d] = results[d]
  BY DEF LoopLeaves, connVars
<1>3. /\ n =< s.pending_jobs /\ r.pending_jobs = s.pending_jobs - n
      /\ n = 0 => r = s
      /\ r.stopping = s.stopping /\ SameCounts(s, r)
  BY DEF LoopLeaves, OnlyCounted, SameCounts
<1>4. s.pending_jobs = 0 => r = s
  BY <1>1, <1>3
<1>5. {"committed"} \subseteq Verdicts /\ {"failed", "fatal"} \subseteq Verdicts
      /\ {"fatal"} \subseteq Verdicts /\ Verdicts \subseteq Verdicts
  BY DEF Verdicts
<1>6. \A v : v \subseteq Verdicts => Due(d, v)' = Due(d, v)
  BY DEF LoopLeaves
<1>7. StageOK(d)'
  <2>1. s = NewSession => r = s
    BY <1>4 DEF NewSession
  <2> HIDE DEF s, r
  <2>2. QED
    BY <1>1, <1>2, <1>3, <1>4, <2>1 DEF ConnOK, StageOK, SameCounts, s, r
<1>8. PendingOK(d)'
  <2> DEFINE put == IF At(ingest, d, "putting") THEN 1 ELSE 0
             waits == JobsOf(d, asr_queue) + JobsOf(d, batch)
  <2>1. s.pending_jobs = waits + put /\ waits \in Nat
    BY <1>1, PendingBounds DEF ConnOK, PendingOK
  <2>2. JobsOf(d, asr_queue') + JobsOf(d, batch') = waits - n
    BY DEF LoopLeaves
  <2>3. /\ r.pending_jobs = 0 => r.drained = "set"
        /\ r.drained = "set" => r.pending_jobs = 0 \/ r.failure # "none"
    <3>1. OnlyCounted(s, r, n)
      BY DEF LoopLeaves
    <3> HIDE DEF s, r
    <3>2. QED
      BY <1>1, <3>1, CountedOff DEF ConnOK, PendingOK, s
  <2> HIDE DEF waits
  <2>4. r.pending_jobs = JobsOf(d, asr_queue') + JobsOf(d, batch') + put
    BY <1>3, <2>1, <2>2
  <2>5. QED
    BY <1>2, <2>3, <2>4 DEF PendingOK
<1>9. SegmentsOK(d)'
  <2>1. CASE session[d].aborted = "no" /\ failure' = "none"
    <3>1. Waiting(d)' = Waiting(d)
      BY <2>1 DEF LoopLeaves, Waiting
    <3>2. QED
      BY <1>1, <1>3, <1>5, <1>6, <3>1, SegmentsGoOn DEF ConnOK, LoopLeaves
  <2>2. QED
    BY <1>3, <2>1 DEF SegmentsOK, SameCounts
<1>10. Settled(d) => Settled(d)'
  BY <1>2, <1>3, <1>4 DEF Settled
<1>11. StreamOK(d)'
  <2>1. Active(d)' = Active(d) /\ Stream(d)' = Stream(d)
    BY <1>2 DEF Active, Stream, InHand
  <2>2. Given(d)' = Given(d)
    BY <1>3, <1>5, <1>6 DEF Given, SameCounts
  <2> SUFFICES ASSUME Active(d) PROVE StreamOK(d)'
    BY <2>1 DEF StreamOK
  <2>3. \A i \in 1 .. Len(Stream(d)) : StreamItem(d, i)'
    BY <1>1, <1>2, <1>3, <1>10, <2>1 DEF ConnOK, StreamOK, StreamItem, SameCounts
  <2>4. QED
    BY <1>1, <1>3, <1>5, <1>6, <1>10, <2>1, <2>2, <2>3 DEF ConnOK, StreamOK, SameCounts
<1>12. FatalOK(d)'
  <2>1. loop' = "fatal" /\ Head(jobs').conn = d => loop = "fatal" /\ Head(jobs).conn = d
    <3>1. Due(d, {"fatal"})' = Due(d, {"fatal"})
      BY <1>5, <1>6
    <3>2. QED
      BY <3>1 DEF Due
  <2>2. QED
    BY <1>1, <1>2, <1>3, <2>1 DEF ConnOK, FatalOK, SameCounts
<1>13. SentOK(d)'
  BY <1>1, <1>2, <1>3, <1>10, SentGoesOn DEF ConnOK, SameCounts
<1>14. QED
  BY <1>7, <1>8, <1>9, <1>11, <1>12, <1>13 DEF ConnOK

LEMMA NothingCounted ==
  ASSUME NEW s \in Session
  PROVE  OnlyCounted(s, s, 0) /\ 0 \in Nat
BY DEF OnlyCounted, Session

\* Every session is left with its results, and with its jobs, or without those
\* of the batch.
LEMMA AllLeft ==
  ASSUME IInv, TypeOK', LoopOK',
         \A d \in Connections : \E n \in Nat : LoopLeaves(d, n)
  PROVE  IInv'
<1>1. \A d \in Connections : ConnOK(d)'
  BY LoopLeavesOK
<1>2. QED
  BY <1>1 DEF IInv, ConnOK

LEMMA TakeJobOK ==
  ASSUME IInv, TakeJob, TypeOK'
  PROVE  IInv'
<1> DEFINE h == Head(asr_queue)
<1>1. TypeOK /\ LoopOK /\ asr_queue \in Seq(Job) /\ batch \in Seq(Job)
  BY DEF IInv, TypeOK
<1>2. /\ loop \in {"idle", "collecting"} /\ loop' = "collecting" /\ asr_queue # << >>
      /\ batch' = Append(batch, h) /\ asr_queue' = Tail(asr_queue)
      /\ UNCHANGED connVars /\ UNCHANGED <<session, results, jobs, failure>>
  BY DEF TakeJob
<1>3. jobs = << >> /\ failure = "none" /\ (loop = "idle" => batch = << >>)
  BY <1>1, <1>2 DEF LoopOK, TypeOK
<1>4. h \in Job /\ Tail(asr_queue) \in Seq(Job)
  BY <1>1, <1>2, OwnOfTail
<1> HIDE DEF h
<1>5. LoopOK'
  <2>1. \A d \in Connections : JobsOf(d, jobs') = 0 /\ JobsOf(d, batch') \in Nat
    <3>1. batch' \in Seq(Job)
      BY DEF TypeOK
    <3>2. jobs' = << >>
      BY <1>2, <1>3
    <3>3. QED
      BY <3>1, <3>2, OwnOf, OwnOfEmpty
  <2>2. loop' \notin Verdicts
    BY <1>2 DEF Verdicts
  <2>3. \A d \in Connections : JobsOf(d, jobs') =< JobsOf(d, batch')
    BY <2>1
  <2>4. QED
    BY <1>2, <1>3, <2>2, <2>3 DEF LoopOK
<1>6. ASSUME NEW d \in Connections PROVE LoopLeaves(d, 0)
  <2>1. OnlyCounted(session[d], session'[d], 0)
    <3>1. session[d] \in Session /\ session' = session
      BY <1>1, <1>2 DEF TypeOK
    <3>2. QED
      BY <3>1, NothingCounted
  <2> DEFINE one == IF h.conn = d THEN 1 ELSE 0
             q == asr_queue
             t == Tail(asr_queue)
  <2>2. /\ JobsOf(d, batch') = JobsOf(d, batch) + one
        /\ JobsOf(d, q) = one + JobsOf(d, t)
        /\ JobsOf(d, batch) \in Nat /\ JobsOf(d, t) \in Nat
    <3>1. JobsOf(d, batch') = JobsOf(d, batch) + one
      BY <1>1, <1>2, <1>4, OwnOfAppend
    <3>2. JobsOf(d, q) = one + JobsOf(d, t)
      BY <1>1, <1>2, OwnOfTail DEF h
    <3>3. JobsOf(d, batch) \in Nat /\ JobsOf(d, t) \in Nat
      BY <1>1, <1>4, OwnOf
    <3>4. QED
      BY <3>1, <3>2, <3>3
  <2>3. JobsOf(d, asr_queue') + JobsOf(d, batch') = (JobsOf(d, q) + JobsOf(d, batch)) - 0
    <3>1. asr_queue' = t /\ one \in Nat
      BY <1>2
    <3> HIDE DEF one, t, q
    <3>2. QED
      BY <2>2, <3>1
  <2>4. Own(d, Ahead) = Own(d, batch) /\ Own(d, Ahead') = Own(d, batch')
    BY <1>2, <1>3 DEF Ahead
  <2>5. Own(d, batch') \o Own(d, t) = Own(d, batch) \o Own(d, q)
    <3> DEFINE b == Own(d, batch)
               o == Own(d, t)
    <3>1. b \in Seq(Job) /\ o \in Seq(Job)
      BY <1>1, <1>4, OwnOf
    <3>2. /\ Own(d, batch') = IF h.conn = d THEN Append(b, h) ELSE b
          /\ Own(d, q) = IF h.conn = d THEN <<h>> \o o ELSE o
      BY <1>1, <1>2, <1>4, OwnOfAppend, OwnOfTail DEF h
    <3> HIDE DEF b, o, t, q
    <3>3. Append(b, h) \o o = b \o (<<h>> \o o)
      <4> DEFINE last == <<h>>
      <4>1. last \in Seq(Job) /\ Append(b, h) = b \o last
        BY <1>4, <3>1, AppendIsConcat
      <4> HIDE DEF last
      <4>2. Joined(Joined(b, last), o) = Joined(b, Joined(last, o))
        BY <3>1, <4>1, JoinedFromEither
      <4>3. (b \o <<h>>) \o o = b \o (<<h>> \o o)
        BY ONLY <4>2 DEF Joined, last
      <4>4. QED
        BY <4>1, <4>3 DEF last
    <3>4. QED
      BY <3>2, <3>3 DEF b, o
  <2>6. \A v : v \subseteq Verdicts => Due(d, v) = 0 /\ Due(d, v)' = 0
    BY <1>2 DEF Due, Verdicts
  <2>7. QED
    BY <1>2, <2>1, <2>3, <2>4, <2>5, <2>6 DEF LoopLeaves
<1>7. QED
  BY <1>5, <1>6, AllLeft, NothingCounted

LEMMA StartBatchOK ==
  ASSUME IInv, StartBatch, TypeOK'
  PROVE  IInv'
<1> DEFINE live == {c \in Connections : ~Aborted(c)}
<1>1. TypeOK /\ LoopOK /\ batch \in Seq(Job)
  BY DEF IInv, TypeOK
<1>2. /\ loop = "collecting" /\ loop' = "transcribing"
      /\ jobs' = Selected(JobsFor(live), batch)
      /\ UNCHANGED connVars /\ UNCHANGED <<session, results, asr_queue, batch, failure>>
  BY DEF StartBatch
<1>3. jobs = << >> /\ failure = "none"
  BY <1>1, <1>2 DEF LoopOK, TypeOK
<1>4. \A d \in Connections :
        /\ d \in live => Own(d, jobs') = Own(d, batch) /\ JobsOf(d, jobs') = JobsOf(d, batch)
        /\ d \notin live => JobsOf(d, jobs') = 0
        /\ JobsOf(d, batch) \in Nat
  <2>1. live \in SUBSET Connections
    OBVIOUS
  <2> HIDE DEF live
  <2>2. QED
    BY <1>1, <1>2, <2>1, OwnOfSelected, OwnOf
<1>5. LoopOK'
  <2>1. \A d \in Connections : JobsOf(d, jobs') =< JobsOf(d, batch')
    <3> HIDE DEF live
    <3>1. QED
      BY <1>2, <1>4
  <2>2. loop' \notin Verdicts /\ failure' = "none"
    BY <1>2, <1>3 DEF Verdicts
  <2>3. QED
    BY <1>2, <2>1, <2>2 DEF LoopOK
<1>6. ASSUME NEW d \in Connections PROVE LoopLeaves(d, 0)
  <2>1. OnlyCounted(session[d], session'[d], 0)
    <3>1. session[d] \in Session /\ session' = session
      BY <1>1, <1>2 DEF TypeOK
    <3>2. QED
      BY <3>1, NothingCounted
  <2>2. JobsOf(d, asr_queue') + JobsOf(d, batch') = (JobsOf(d, asr_queue) + JobsOf(d, batch)) - 0
    BY <1>2, PendingBounds
  <2>3. session[d].aborted = "no" => Own(d, Ahead') = Own(d, Ahead)
    <3>1. session[d].aborted = "no" => d \in live
      BY DEF Aborted
    <3> HIDE DEF live
    <3>2. QED
      BY <1>2, <1>4, <3>1 DEF Ahead
  <2>4. \A v : v \subseteq Verdicts => Due(d, v) = 0 /\ Due(d, v)' = 0
    BY <1>2 DEF Due, Verdicts
  <2>5. QED
    BY <1>2, <2>1, <2>2, <2>3, <2>4 DEF LoopLeaves
<1>7. QED
  BY <1>5, <1>6, AllLeft, NothingCounted

\* The two ends of a batch.
LEMMA BatchEnds ==
  ASSUME IInv, WorkerFails \/ FinishBatch, TypeOK'
  PROVE  IInv'
<1>1. TypeOK /\ LoopOK
  BY DEF IInv, TypeOK
<1>2. /\ loop \in {"transcribing", "delivering"} /\ loop' \in {"idle", "dead"}
      /\ session' = BatchDone /\ batch' = << >> /\ jobs' = << >>
      /\ UNCHANGED connVars /\ UNCHANGED <<results, asr_queue>>
      /\ \/ loop' = "dead" /\ failure' # "none"
         \/ loop' = "idle" /\ failure' = failure /\ jobs = << >>
  BY DEF WorkerFails, FinishBatch
<1>3. failure = "none"
  BY <1>1, <1>2 DEF LoopOK, TypeOK
<1>4. LoopOK'
  <2>1. \A d \in Connections : JobsOf(d, jobs') =< JobsOf(d, batch')
    BY <1>2, OwnOfEmpty
  <2>2. loop' \notin Verdicts
    BY <1>2 DEF Verdicts
  <2>3. QED
    BY <1>2, <1>3, <2>1, <2>2 DEF LoopOK
<1>5. ASSUME NEW d \in Connections PROVE LoopLeaves(d, JobsOf(d, batch))
  <2>1. OnlyCounted(session[d], session'[d], JobsOf(d, batch))
    BY <1>2, BatchDoneIs
  <2>2. JobsOf(d, asr_queue') + JobsOf(d, batch')
        = (JobsOf(d, asr_queue) + JobsOf(d, batch)) - JobsOf(d, batch)
    BY <1>2, OwnOfEmpty, PendingBounds
  <2>3. failure' = "none" => Ahead' = Ahead
    BY <1>2 DEF Ahead
  <2>4. \A v : v \subseteq Verdicts => Due(d, v) = 0 /\ Due(d, v)' = 0
    BY <1>2 DEF Due, Verdicts
  <2>5. QED
    BY <1>2, <1>3, <2>1, <2>2, <2>3, <2>4 DEF LoopLeaves
<1>6. \A d \in Connections : JobsOf(d, batch) \in Nat
  BY PendingBounds
<1>7. QED
  BY <1>4, <1>5, <1>6, AllLeft

\* A step of the loop that takes the first job off: what is left of the jobs.
LEMMA JobsTail ==
  ASSUME IInv, jobs # << >>
  PROVE  /\ \A d \in Connections :
              /\ JobsOf(d, Tail(jobs)) =< JobsOf(d, batch) /\ JobsOf(d, Tail(jobs)) \in Nat
              /\ d # Head(jobs).conn => Own(d, Tail(jobs)) = Own(d, jobs)
         /\ LET c == Head(jobs).conn
            IN Own(c, jobs) = <<Head(jobs)>> \o Own(c, Tail(jobs))
<1>1. jobs \in Seq(Job)
  BY DEF IInv, TypeOK
<1>2. ASSUME NEW d \in Connections
      PROVE  /\ JobsOf(d, Tail(jobs)) =< JobsOf(d, batch) /\ JobsOf(d, Tail(jobs)) \in Nat
             /\ d # Head(jobs).conn => Own(d, Tail(jobs)) = Own(d, jobs)
  <2> DEFINE a == JobsOf(d, jobs)
             b == JobsOf(d, Tail(jobs))
             l == JobsOf(d, batch)
             one == IF Head(jobs).conn = d THEN 1 ELSE 0
  <2>1. a = one + b /\ one \in Nat /\ b \in Nat
    <3>1. a = one + b /\ Tail(jobs) \in Seq(Job)
      BY <1>1, OwnOfTail
    <3>2. QED
      BY <3>1, OwnOf
  <2>2. a =< l /\ a \in Nat /\ l \in Nat
    BY PendingBounds DEF IInv, LoopOK
  <2>3. d # Head(jobs).conn => Own(d, Tail(jobs)) = Own(d, jobs)
    BY <1>1, OwnOfTail
  <2> HIDE DEF a, b, l, one
  <2>4. b =< l
    BY <2>1, <2>2
  <2>5. QED
    BY <2>1, <2>3, <2>4 DEF b, l
<1>3. LET c == Head(jobs).conn
      IN Own(c, jobs) = <<Head(jobs)>> \o Own(c, Tail(jobs))
  BY <1>1, OwnOfTail
<1>4. QED
  BY <1>2, <1>3

\* The first job is of a session that has been aborted.
LEMMA SkipOK ==
  ASSUME IInv, TypeOK', loop \in {"transcribing", "delivering"}, jobs # << >>,
         Aborted(Head(jobs).conn), jobs' = Tail(jobs), loop' = "delivering",
         UNCHANGED connVars, UNCHANGED <<session, results, asr_queue, batch, failure>>
  PROVE  IInv'
<1> DEFINE c == Head(jobs).conn
<1>1. TypeOK /\ LoopOK
  BY DEF IInv
<1>2. failure = "none" /\ loop' \notin Verdicts
  BY <1>1 DEF LoopOK, TypeOK, Verdicts
<1>3. LoopOK'
  <2>1. \A d \in Connections : JobsOf(d, jobs') =< JobsOf(d, batch')
    BY JobsTail
  <2>2. QED
    BY <1>2, <2>1 DEF LoopOK
<1>4. ASSUME NEW d \in Connections PROVE LoopLeaves(d, 0)
  <2>1. OnlyCounted(session[d], session'[d], 0)
    <3>1. session[d] \in Session /\ session' = session
      BY <1>1 DEF TypeOK
    <3>2. QED
      BY <3>1, NothingCounted
  <2>2. JobsOf(d, asr_queue') + JobsOf(d, batch') = (JobsOf(d, asr_queue) + JobsOf(d, batch)) - 0
    BY PendingBounds
  <2>3. session[d].aborted = "no" => Own(d, Ahead') = Own(d, Ahead)
    <3>1. session[d].aborted = "no" => d # c
      BY DEF Aborted
    <3>2. Ahead = jobs /\ Ahead' = Tail(jobs)
      BY DEF Ahead
    <3>3. QED
      BY <3>1, <3>2, JobsTail
  <2>4. \A v : v \subseteq Verdicts => Due(d, v) = 0 /\ Due(d, v)' = 0
    BY DEF Due, Verdicts
  <2>5. QED
    BY <2>1, <2>2, <2>3, <2>4 DEF LoopLeaves
<1>5. QED
  BY <1>3, <1>4, AllLeft, NothingCounted

\* A verdict is counted.
LEMMA CountsVerdictOK ==
  ASSUME IInv, TypeOK', NEW c \in Connections, CountsVerdict(c)
  PROVE  IInv'
<1> USE DEF At
<1> DEFINE s == session[c]
           r == session'[c]
<1>1. TypeOK /\ LoopOK /\ ConnOK(c) /\ s \in Session
  BY DEF IInv, ConnOK, TypeOK
<1>2. /\ loop \in {"transcribing", "delivering"} /\ jobs # << >> /\ c = Head(jobs).conn
      /\ ~Aborted(c) /\ loop' \in Verdicts
      /\ UNCHANGED connVars /\ UNCHANGED <<jobs, results, asr_queue, batch, failure>>
  BY DEF CountsVerdict
<1>3. /\ session' = [session EXCEPT ![c] = r]
      /\ r.stopping = s.stopping /\ r.segments = s.segments
      /\ r.pending_jobs = s.pending_jobs /\ r.drained = s.drained
      /\ r.succeeded = s.succeeded + (IF loop' = "committed" THEN 1 ELSE 0)
      /\ r.failed = s.failed + (IF loop' = "committed" THEN 0 ELSE 1)
      /\ r.aborted = s.aborted
      /\ r.failure = IF loop' = "fatal" THEN "asr_result_mismatch" ELSE s.failure
  BY <1>1, SessionCountResult
<1>4. s.pending_jobs # 0 /\ s # NewSession /\ s.aborted = "no"
  <2>1. s.pending_jobs # 0
    BY <1>2, HeadCounted
  <2>2. s.aborted \in {"no", "yes"}
    BY <1>1 DEF Session
  <2>3. QED
    BY <1>2, <2>1, <2>2 DEF NewSession, Aborted
<1>5. failure = "none" /\ failure' = "none"
  BY <1>1, <1>2 DEF LoopOK, TypeOK
<1>6. /\ \A v : v \subseteq Verdicts => Due(c, v) = 0
      /\ \A v : Due(c, v)' = IF loop' \in v THEN 1 ELSE 0
  BY <1>2 DEF Due, Verdicts
<1>7. \A d \in Connections : d # c => session'[d] = session[d]
  BY <1>1, <1>3 DEF TypeOK
<1>8. LoopOK'
  <2>1. \A d \in Connections : JobsOf(d, jobs') =< JobsOf(d, batch')
    BY <1>1, <1>2 DEF LoopOK
  <2>2. ~Aborted(Head(jobs).conn)'
    <3>1. session'[c].aborted # "yes"
      BY <1>3, <1>4
    <3>2. QED
      BY <1>2, <3>1 DEF Aborted
  <2>3. loop' \notin {"idle", "collecting", "dead"}
    BY <1>2 DEF Verdicts
  <2>4. QED
    BY <1>2, <1>5, <2>1, <2>2, <2>3 DEF LoopOK
<1>9. ASSUME NEW d \in Connections, d # c PROVE ConnOK(d)'
  <2>1. OnlyCounted(session[d], session'[d], 0)
    <3>1. session[d] \in Session /\ session'[d] = session[d]
      BY <1>1, <1>7, <1>9 DEF TypeOK
    <3>2. QED
      BY <3>1, NothingCounted
  <2>2. JobsOf(d, asr_queue') + JobsOf(d, batch') = (JobsOf(d, asr_queue) + JobsOf(d, batch)) - 0
    BY <1>2, PendingBounds
  <2>3. Ahead' = Ahead
    BY <1>2 DEF Ahead, Verdicts
  <2>4. \A v : v \subseteq Verdicts => Due(d, v) = 0 /\ Due(d, v)' = 0
    BY <1>2, <1>9 DEF Due, Verdicts
  <2>5. LoopLeaves(d, 0)
    BY <1>2, <1>5, <2>1, <2>2, <2>3, <2>4 DEF LoopLeaves
  <2>6. QED
    BY <2>5, LoopLeavesOK, NothingCounted
<1> HIDE DEF r, s
<1>10. /\ handler'[c] = handler[c] /\ ingest'[c] = ingest[c] /\ emit'[c] = emit[c]
       /\ sending'[c] = sending[c] /\ sent'[c] = sent[c] /\ results'[c] = results[c]
       /\ handler[c] # "closed" /\ handler[c] # "new"
  <2>1. handler[c] # "closed" /\ handler[c] # "new"
    BY <1>1, <1>4 DEF ConnOK, StageOK, s
  <2>2. QED
    BY <1>2, <2>1 DEF connVars
<1>11. StageOK(c)'
  BY <1>1, <1>3, <1>4, <1>10 DEF ConnOK, StageOK, s, r
<1>12. PendingOK(c)'
  BY <1>1, <1>2, <1>3, <1>10 DEF ConnOK, PendingOK, JobsOf, s, r
<1>13. s.succeeded \in Nat /\ s.failed \in Nat
  BY <1>1 DEF Session
<1>14. Given(c)' = Given(c)
  <2>1. Due(c, Verdicts) = 0 /\ Due(c, Verdicts)' = 1
    BY <1>2, <1>6
  <2>2. Given(c) = s.succeeded + s.failed - Due(c, Verdicts)
        /\ Given(c)' = r.succeeded + r.failed - Due(c, Verdicts)'
    BY DEF Given, s, r
  <2>3. QED
    BY <1>3, <1>13, <2>1, <2>2
<1>15. SegmentsOK(c)'
  <2>1. Waiting(c)' = Waiting(c)
    BY <1>2 DEF Waiting, Ahead, Own, Verdicts
  <2>2. QED
    BY <1>1, <1>3, <1>5, <1>14, <2>1 DEF ConnOK, SegmentsOK, s, r
<1>16. ~Settled(c) /\ ~Settled(c)'
  BY <1>3, <1>4 DEF Settled, s, r
<1>17. StreamOK(c)'
  <2>1. Active(c)' = Active(c) /\ Stream(c)' = Stream(c)
    BY <1>10 DEF Active, Stream, InHand
  <2> SUFFICES ASSUME Active(c) PROVE StreamOK(c)'
    BY <2>1 DEF StreamOK
  <2> DEFINE m == Stream(c)
  <2>2. /\ \A i \in 1 .. Len(m) : StreamItem(c, i)
        /\ Len(m) = Given(c)
        /\ Results({"committed"}, m) = s.succeeded - Due(c, {"committed"})
        /\ Results({"failed", "fatal"}, m) = s.failed - Due(c, {"failed", "fatal"})
    BY <1>1, <1>4, <1>16 DEF ConnOK, StreamOK, s
  <2>3. /\ Due(c, {"committed"}) = 0 /\ Due(c, {"failed", "fatal"}) = 0
        /\ Due(c, {"committed"})' = IF loop' = "committed" THEN 1 ELSE 0
        /\ Due(c, {"failed", "fatal"})' = IF loop' = "committed" THEN 0 ELSE 1
    BY <1>2, <1>6 DEF Verdicts
  <2> HIDE DEF m
  <2>4. /\ Results({"committed"}, m) = r.succeeded - Due(c, {"committed"})'
        /\ Results({"failed", "fatal"}, m) = r.failed - Due(c, {"failed", "fatal"})'
    BY <1>3, <1>13, <2>2, <2>3
  <2>5. \A i \in 1 .. Len(m) : StreamItem(c, i)'
    <3>1. \A i \in 1 .. Len(m) : m[i].kind \in Verdicts /\ m[i].id = i - 1
      BY <1>16, <2>2 DEF StreamItem, m
    <3>2. Stream(c)' = m
      BY <2>1 DEF m
    <3>3. QED
      BY <3>1, <3>2 DEF StreamItem
  <2>6. QED
    BY <1>14, <2>1, <2>2, <2>4, <2>5 DEF StreamOK, m, r
<1>18. FatalOK(c)'
  BY <1>1, <1>2, <1>3, <1>10 DEF ConnOK, FatalOK, s, r
<1>19. SentOK(c)'
  BY <1>1, <1>10, <1>16, SentGoesOn DEF ConnOK
<1>20. \A d \in Connections : ConnOK(d)'
  BY <1>9, <1>11, <1>12, <1>15, <1>17, <1>18, <1>19 DEF ConnOK
<1>21. QED
  BY <1>8, <1>20 DEF IInv, ConnOK

\* The loop is done with its first job: what that means for the loop, and for
\* the other sessions.
FirstJobOver ==
  /\ loop \in Verdicts /\ jobs' = Tail(jobs) /\ loop' = "delivering"
  /\ UNCHANGED connVars /\ UNCHANGED <<asr_queue, batch, failure>>

LEMMA FirstJobOverOK ==
  ASSUME IInv, FirstJobOver
  PROVE  /\ LoopOK' /\ jobs # << >> /\ failure = "none"
         /\ \A d \in Connections :
              d # Head(jobs).conn /\ session'[d] = session[d] /\ results'[d] = results[d] =>
                ConnOK(d)'
<1>1. TypeOK /\ LoopOK
  BY DEF IInv
<1>2. jobs # << >> /\ failure = "none" /\ loop' = "delivering" /\ loop' \notin Verdicts
  BY <1>1 DEF FirstJobOver, LoopOK, TypeOK, Verdicts
<1>3. LoopOK'
  <2>1. \A d \in Connections : JobsOf(d, jobs') =< JobsOf(d, batch')
    BY <1>2, JobsTail DEF FirstJobOver
  <2>2. QED
    BY <1>2, <2>1 DEF FirstJobOver, LoopOK
<1>4. ASSUME NEW d \in Connections, d # Head(jobs).conn,
             session'[d] = session[d], results'[d] = results[d]
      PROVE  ConnOK(d)'
  <2>1. OnlyCounted(session[d], session'[d], 0)
    <3>1. session[d] \in Session
      BY <1>1 DEF TypeOK
    <3>2. QED
      BY <1>4, <3>1, NothingCounted
  <2>2. JobsOf(d, asr_queue') + JobsOf(d, batch') = (JobsOf(d, asr_queue) + JobsOf(d, batch)) - 0
    BY PendingBounds DEF FirstJobOver
  <2>3. Own(d, Ahead') = Own(d, Ahead)
    <3>1. Ahead = jobs /\ Ahead' = Tail(jobs)
      BY DEF Ahead, FirstJobOver, Verdicts
    <3>2. QED
      BY <1>2, <1>4, <3>1, JobsTail
  <2>4. \A v : v \subseteq Verdicts => Due(d, v) = 0 /\ Due(d, v)' = 0
    BY <1>2, <1>4 DEF Due
  <2>5. LoopLeaves(d, 0)
    BY <1>4, <2>1, <2>2, <2>3, <2>4 DEF LoopLeaves, FirstJobOver
  <2>6. QED
    BY <2>5, LoopLeavesOK, NothingCounted
<1>5. QED
  BY <1>2, <1>3, <1>4

\* Nothing ends the stream of a session that has a job before the loop.
LEMMA NotSettled ==
  ASSUME IInv, NEW c \in Connections, jobs # << >>, Head(jobs).conn = c
  PROVE  /\ ~Settled(c) /\ session[c].pending_jobs # 0 /\ session[c] # NewSession
         /\ handler[c] # "new"
         /\ Active(c) => \A i \in 1 .. Len(Stream(c)) :
              Stream(c)[i].kind \in Verdicts /\ Stream(c)[i].id = i - 1
<1>1. session[c].pending_jobs # 0
  BY HeadCounted
<1>2. session[c] # NewSession
  BY <1>1 DEF NewSession
<1>3. ~Settled(c)
  BY <1>1 DEF Settled
<1>4. handler[c] # "new"
  BY <1>2 DEF IInv, StageOK, At
<1>5. Active(c) => \A i \in 1 .. Len(Stream(c)) :
        Stream(c)[i].kind \in Verdicts /\ Stream(c)[i].id = i - 1
  BY <1>3 DEF IInv, StreamOK, StreamItem
<1>6. QED
  BY <1>1, <1>2, <1>3, <1>4, <1>5

LEMMA CutsOffOK ==
  ASSUME IInv, TypeOK', NEW c \in Connections, CutsOff(c)
  PROVE  IInv'
<1> USE DEF At
<1> DEFINE s == session[c]
           r == session'[c]
<1>1. TypeOK /\ ConnOK(c) /\ s \in Session
  BY DEF IInv, ConnOK, TypeOK
<1>2. FirstJobOver /\ c = Head(jobs).conn /\ results' = results
  BY DEF CutsOff, FirstJobOver
<1>3. /\ session' = [session EXCEPT ![c] = r]
      /\ r.stopping = s.stopping /\ r.segments = s.segments
      /\ r.pending_jobs = s.pending_jobs /\ r.succeeded = s.succeeded
      /\ r.failed = s.failed /\ r.drained = "set"
      /\ r.aborted = "yes" /\ r.failure = "result_delivery_timeout"
  BY <1>1, SessionCutOff
<1>4. \A d \in Connections : d # c => session'[d] = session[d]
  BY <1>1, <1>3 DEF TypeOK
<1>5. LoopOK' /\ jobs # << >> /\ \A d \in Connections : d # c => ConnOK(d)'
  BY <1>2, <1>4, FirstJobOverOK
<1>6. /\ ~Settled(c) /\ s.pending_jobs # 0 /\ s # NewSession /\ handler[c] # "new"
      /\ Active(c) => \A i \in 1 .. Len(Stream(c)) :
           Stream(c)[i].kind \in Verdicts /\ Stream(c)[i].id = i - 1
  BY <1>2, <1>5, NotSettled
<1> HIDE DEF s, r
<1>7. /\ handler'[c] = handler[c] /\ ingest'[c] = ingest[c] /\ emit'[c] = emit[c]
      /\ sending'[c] = sending[c] /\ sent'[c] = sent[c] /\ results'[c] = results[c]
  BY <1>2 DEF FirstJobOver, connVars
<1>8. StageOK(c)'
  BY <1>1, <1>3, <1>6, <1>7 DEF ConnOK, StageOK, s, r
<1>9. PendingOK(c)'
  BY <1>1, <1>2, <1>3, <1>7 DEF ConnOK, PendingOK, JobsOf, FirstJobOver, s, r
<1>10. SegmentsOK(c)'
  BY <1>3 DEF SegmentsOK, r
<1>11. StreamOK(c)'
  <2>1. Active(c)' = Active(c) /\ Stream(c)' = Stream(c)
    BY <1>7 DEF Active, Stream, InHand
  <2>2. session'[c].aborted # "no"
    BY <1>3 DEF r
  <2>3. QED
    BY <1>6, <2>1, <2>2 DEF StreamOK, StreamItem
<1>12. FatalOK(c)'
  BY <1>1, <1>3, <1>7 DEF ConnOK, FatalOK, r
<1>13. SentOK(c)'
  BY <1>1, <1>6, <1>7, SentGoesOn DEF ConnOK
<1>14. \A d \in Connections : ConnOK(d)'
  BY <1>5, <1>8, <1>9, <1>10, <1>11, <1>12, <1>13 DEF ConnOK
<1>15. QED
  BY <1>5, <1>14 DEF IInv, ConnOK

\* The result of a segment goes behind those of the segments before it.
LEMMA PutResultOK ==
  ASSUME IInv, TypeOK', NEW c \in Connections, c = Head(jobs).conn, PutResult
  PROVE  IInv'
<1> USE DEF At
<1> DEFINE s == session[c]
           h == Head(jobs)
           e == [kind |-> loop, id |-> h.id]
<1>1. TypeOK /\ LoopOK /\ ConnOK(c) /\ s \in Session
  BY DEF IInv, ConnOK, TypeOK
<1>2. /\ FirstJobOver /\ session' = session
      /\ results' = [results EXCEPT ![c] = Append(results[c], e)]
  BY DEF PutResult, FirstJobOver
<1>3. /\ results'[c] = Append(results[c], e)
      /\ \A d \in Connections : d # c => results'[d] = results[d]
  BY <1>1, <1>2 DEF TypeOK
<1>4. /\ LoopOK' /\ jobs # << >> /\ failure = "none"
      /\ \A d \in Connections : d # c => ConnOK(d)'
  BY <1>2, <1>3, FirstJobOverOK
<1>5. /\ ~Settled(c) /\ s.pending_jobs # 0 /\ handler[c] # "new"
      /\ Active(c) => \A i \in 1 .. Len(Stream(c)) :
           Stream(c)[i].kind \in Verdicts /\ Stream(c)[i].id = i - 1
  BY <1>4, NotSettled
<1>6. /\ handler'[c] = handler[c] /\ ingest'[c] = ingest[c] /\ emit'[c] = emit[c]
      /\ sending'[c] = sending[c] /\ sent'[c] = sent[c] /\ failure' = failure
      /\ asr_queue' = asr_queue /\ batch' = batch
  BY <1>2 DEF FirstJobOver, connVars
<1>7. h \in Job /\ loop \in Verdicts /\ e \in Result /\ results[c] \in Seq(Result)
  <2>1. h \in Job /\ loop \in Verdicts /\ results[c] \in Seq(Result)
    BY <1>1, <1>2, <1>4, HeadCounted DEF FirstJobOver, TypeOK
  <2>2. h.id \in Nat
    BY <2>1 DEF Job, JobsFor
  <2> HIDE DEF h
  <2>3. QED
    BY <2>1, <2>2 DEF Result, Verdicts
<1>8. \A v : /\ Due(c, v) = IF loop \in v THEN 1 ELSE 0
             /\ v \subseteq Verdicts => Due(c, v)' = 0
  BY <1>2 DEF Due, FirstJobOver, Verdicts
<1>9. e.kind = loop /\ e.id = h.id
  OBVIOUS
<1> HIDE DEF e, s
<1>10. /\ Len(results'[c]) = Len(results[c]) + 1 /\ Len(results[c]) \in Nat
       /\ results'[c][Len(results[c]) + 1] = e
       /\ \A i \in 1 .. Len(results[c]) : results'[c][i] = results[c][i]
  BY <1>3, <1>7, AppendProperties, LenProperties
<1>11. s.succeeded \in Nat /\ s.failed \in Nat
  BY <1>1 DEF Session
<1> DEFINE given == Given(c)
<1>12. given = s.succeeded + s.failed - 1 /\ Given(c)' = given + 1 /\ given \in Int
  <2>1. Due(c, Verdicts) = 1 /\ Due(c, Verdicts)' = 0
    BY <1>7, <1>8
  <2>2. Given(c) = s.succeeded + s.failed - Due(c, Verdicts)
        /\ Given(c)' = s.succeeded + s.failed - Due(c, Verdicts)'
    BY <1>2 DEF Given, s
  <2>3. QED
    BY <1>11, <2>1, <2>2
<1> HIDE DEF given
\* The job is that of the first segment that waits.
<1>13. s.aborted = "no" => h.id = given /\ SegmentsOK(c)'
  <2> SUFFICES ASSUME s.aborted = "no" PROVE h.id = given /\ SegmentsOK(c)'
    OBVIOUS
  <2> DEFINE w == Waiting(c)
             u == Own(c, Tail(jobs)) \o Own(c, asr_queue)
             l == Len(u)
             segments == s.segments
  <2>1. u \in Seq(Job) /\ l \in Nat /\ w = <<h>> \o u /\ Waiting(c)' = u
    <3>1. Tail(jobs) \in Seq(Job) /\ asr_queue \in Seq(Job)
      BY <1>1, <1>4, HeadCounted DEF TypeOK
    <3>2. Own(c, Tail(jobs)) \in Seq(Job) /\ Own(c, asr_queue) \in Seq(Job)
      BY <3>1, OwnOf
    <3>3. u \in Seq(Job) /\ l \in Nat
      BY <3>2, ConcatProperties, LenProperties
    <3>4. Own(c, jobs) = <<h>> \o Own(c, Tail(jobs))
      BY <1>4, JobsTail
    <3>5. Ahead = jobs /\ Ahead' = Tail(jobs)
      BY <1>2 DEF Ahead, FirstJobOver, Verdicts
    <3>6. w = (<<h>> \o Own(c, Tail(jobs))) \o Own(c, asr_queue)
      BY <3>4, <3>5 DEF Waiting
    <3>7. Waiting(c)' = u
      BY <1>6, <3>5 DEF Waiting
    <3> HIDE DEF w, h
    <3>8. w = <<h>> \o u
      <4> DEFINE one == <<h>>
                 a == Own(c, Tail(jobs))
                 b == Own(c, asr_queue)
      <4>1. one \in Seq(Job) /\ a \in Seq(Job) /\ b \in Seq(Job)
        BY <1>7, <3>2
      <4> HIDE DEF one, a, b
      <4>2. Joined(Joined(one, a), b) = Joined(one, Joined(a, b))
        BY <4>1, JoinedFromEither
      <4>3. (<<h>> \o a) \o b = <<h>> \o (a \o b)
        BY ONLY <4>2 DEF Joined, one
      <4>4. QED
        BY <3>6, <4>3 DEF a, b
    <3>9. QED
      BY <3>3, <3>7, <3>8
  <2> HIDE DEF u, h, l
  <2>2. /\ Len(w) = l + 1 /\ w[1] = h
        /\ \A i \in 1 .. l : w[i + 1] = u[i]
    BY <1>7, <2>1, HeadThenTail DEF l
  <2>3. /\ given + Len(w) = segments
        /\ \A i \in 1 .. Len(w) : w[i].id = given + i - 1
    BY <1>1, <1>4 DEF ConnOK, SegmentsOK, given, s
  <2> HIDE DEF w, segments
  <2>4. h.id = given
    <3>1. 1 \in 1 .. Len(w)
      BY <2>1, <2>2
    <3>2. h.id = given + 1 - 1
      BY <2>2, <2>3, <3>1
    <3>3. QED
      BY <1>12, <3>2
  <2>5. (given + 1) + l = segments
    BY <1>12, <2>1, <2>2, <2>3
  <2>6. ASSUME NEW i \in 1 .. l PROVE u[i].id = (given + 1) + i - 1
    <3>1. i + 1 \in 1 .. Len(w) /\ w[i + 1] = u[i]
      BY <2>1, <2>2
    <3>2. u[i].id = given + (i + 1) - 1
      BY <2>3, <3>1
    <3>3. given + (i + 1) - 1 = (given + 1) + i - 1
      BY <1>12
    <3>4. QED
      BY <3>2, <3>3
  <2>7. SegmentsOK(c)'
    <3>1. session'[c].segments = segments
      BY <1>2 DEF s, segments
    <3>2. QED
      BY <1>12, <2>1, <2>5, <2>6, <3>1 DEF SegmentsOK, l
  <2>8. QED
    BY <2>4, <2>7
<1>14. SegmentsOK(c)'
  BY <1>2, <1>13 DEF SegmentsOK, s
<1> HIDE DEF h
<1>15. StageOK(c)'
  BY <1>1, <1>2, <1>5, <1>6 DEF ConnOK, StageOK, s
<1>16. PendingOK(c)'
  BY <1>1, <1>2, <1>6 DEF ConnOK, PendingOK, JobsOf, s
<1>17. ~Settled(c)'
  BY <1>2, <1>5 DEF Settled, s
<1>18. StreamOK(c)'
  <2> SUFFICES ASSUME Active(c)' PROVE StreamOK(c)'
    BY DEF StreamOK
  <2> DEFINE m == Stream(c)
             n == Len(m)
             t == Append(m, e)
  <2>1. Active(c) /\ s.aborted = "no"
    <3>1. Active(c)
      BY <1>6 DEF Active
    <3>2. At(handler, c, "serving")
      BY <3>1, Serving
    <3>3. ~Aborted(c)
      BY <1>1, <1>4, <1>7, <3>2 DEF LoopOK
    <3>4. QED
      BY <1>1, <3>1, <3>3 DEF Aborted, Session, s
  <2>2. h.id = given
    BY <1>13, <2>1
  <2>3. Stream(c)' = t /\ m \in Seq(Result)
    <3> DEFINE p == sent[c] \o InHand(c)
               q == results[c]
    <3>1. p \in Seq(Result) /\ q \in Seq(Result) /\ m \in Seq(Result)
      <4>1. p \in Seq(Result) /\ q \in Seq(Result)
        BY <1>1, StreamPlaces, ConcatProperties
      <4>2. m \in Seq(Result)
        BY <1>1, StreamPlaces
      <4>3. QED
        BY <4>1, <4>2
    <3>2. Stream(c)' = p \o Append(q, e) /\ m = p \o q
      BY <1>3, <1>6 DEF Stream, InHand
    <3> HIDE DEF p, q, m
    <3>3. p \o Append(q, e) = Append(p \o q, e)
      BY <1>7, <3>1, AppendToConcat
    <3>4. QED
      BY <3>1, <3>2, <3>3
  <2>4. /\ \A i \in 1 .. n : m[i].kind \in Verdicts /\ m[i].id = i - 1
        /\ n = given
        /\ Results({"committed"}, m) = s.succeeded - Due(c, {"committed"})
        /\ Results({"failed", "fatal"}, m) = s.failed - Due(c, {"failed", "fatal"})
    BY <1>1, <1>5, <2>1 DEF ConnOK, StreamOK, given, s
  <2> HIDE DEF m, t, n
  <2>5. n \in Nat /\ Len(t) = n + 1 /\ t[n + 1] = e /\ \A i \in 1 .. n : t[i] = m[i]
    BY <1>7, <2>3, AppendProperties, LenProperties DEF t, n
  <2>6. \A i \in 1 .. Len(t) : t[i].kind \in Verdicts /\ t[i].id = i - 1
    <3> SUFFICES ASSUME NEW i \in 1 .. n + 1
                 PROVE  t[i].kind \in Verdicts /\ t[i].id = i - 1
      BY <2>5
    <3>1. CASE i \in 1 .. n
      BY <2>4, <2>5, <3>1
    <3>2. CASE i = n + 1
      <4>1. t[i] = e /\ i - 1 = n
        BY <2>5, <3>2
      <4>2. QED
        BY <1>7, <1>9, <2>2, <2>4, <4>1
    <3>3. i \in 1 .. n \/ i = n + 1
      BY <2>5
    <3>4. QED
      BY <3>1, <3>2, <3>3
  <2>7. \A kinds : kinds \subseteq Verdicts =>
          /\ Results(kinds, t) = Results(kinds, m) + Due(c, kinds)
          /\ Results(kinds, m) \in Nat
    <3> SUFFICES ASSUME NEW kinds, kinds \subseteq Verdicts
                 PROVE  /\ Results(kinds, t) = Results(kinds, m) + Due(c, kinds)
                        /\ Results(kinds, m) \in Nat
      OBVIOUS
    <3> DEFINE K == [kind : kinds, id : Nat]
               q == Selected(K, m)
    <3>1. e \in K <=> loop \in kinds
      BY <1>7, <1>9 DEF Result
    <3> HIDE DEF K
    <3>2. Selected(K, t) = (IF e \in K THEN Append(q, e) ELSE q) /\ q \in Seq(Result)
      BY <1>7, <2>3, SelectedOfAppend, SelectedSeq DEF t
    <3> HIDE DEF q
    <3>3. Len(Append(q, e)) = Len(q) + 1 /\ Len(q) \in Nat
      BY <1>7, <3>2, AppendProperties, LenProperties
    <3>4. Results(kinds, m) = Len(q) /\ Results(kinds, t) = Len(Selected(K, t))
      BY DEF Results, K, q
    <3>5. QED
      BY <1>8, <3>1, <3>2, <3>3, <3>4
  <2>8. /\ Results({"committed"}, t) = s.succeeded - Due(c, {"committed"})'
        /\ Results({"failed", "fatal"}, t) = s.failed - Due(c, {"failed", "fatal"})'
    <3>1. {"committed"} \subseteq Verdicts /\ {"failed", "fatal"} \subseteq Verdicts
      BY DEF Verdicts
    <3>2. /\ Due(c, {"committed"})' = 0 /\ Due(c, {"failed", "fatal"})' = 0
          /\ Due(c, {"committed"}) \in Nat /\ Due(c, {"failed", "fatal"}) \in Nat
      BY <1>8, <3>1, DueNat
    <3>3. /\ Results({"committed"}, t) = Results({"committed"}, m) + Due(c, {"committed"})
          /\ Results({"failed", "fatal"}, t)
             = Results({"failed", "fatal"}, m) + Due(c, {"failed", "fatal"})
      BY <2>7, <3>1
    <3>4. QED
      BY <1>11, <2>4, <3>2, <3>3
  <2>9. session'[c] = s /\ Len(t) = Given(c)'
    BY <1>2, <1>12, <2>4, <2>5 DEF s
  <2>10. \A i \in 1 .. Len(t) : StreamItem(c, i)'
    BY <2>3, <2>6 DEF StreamItem
  <2>11. QED
    BY <2>3, <2>8, <2>9, <2>10 DEF StreamOK
<1>19. FatalOK(c)'
  <2>1. \A i \in 1 .. Len(results'[c]) :
          i \in 1 .. Len(results[c]) \/ i = Len(results[c]) + 1
    BY <1>10
  <2>2. loop = "fatal" => session[c].failure # "none"
    BY <1>1 DEF ConnOK, FatalOK
  <2>3. loop' # "fatal"
    BY <1>2 DEF FirstJobOver
  <2>4. QED
    BY <1>1, <1>2, <1>6, <1>9, <1>10, <2>1, <2>2, <2>3 DEF ConnOK, FatalOK
<1>20. SentOK(c)'
  BY <1>1, <1>5, <1>6, SentGoesOn DEF ConnOK
<1>21. \A d \in Connections : ConnOK(d)'
  BY <1>4, <1>14, <1>15, <1>16, <1>18, <1>19, <1>20 DEF ConnOK
<1>22. QED
  BY <1>4, <1>21 DEF IInv, ConnOK

-----------------------------------------------------------------------------
\* The invariant.

LEMMA InitOK == Init => IInv
<1> SUFFICES ASSUME Init PROVE IInv
  OBVIOUS
<1> USE DEF At
<1>1. /\ << >> \in Seq(Job) /\ << >> \in Seq(Result) /\ Len(<< >>) = 0
      /\ << >> \o << >> = << >>
  OBVIOUS
<1>2. NewSession \in Session /\ EofMark \in Result
  BY DEF NewSession, Session, EofMark, Result
<1>3. TypeOK
  <2>1. WithinSizes
    BY <1>1, PipelineAssumption DEF Init, WithinSizes
  <2>2. QED
    BY <1>1, <1>2, <2>1 DEF Init, TypeOK
<1>4. LoopOK
  <2>1. \A d \in Connections : JobsOf(d, << >>) = 0
    BY OwnOfEmpty
  <2>2. loop \notin Verdicts
    BY DEF Init, Verdicts
  <2>3. QED
    BY <2>1, <2>2 DEF Init, LoopOK
<1>5. ASSUME NEW c \in Connections PROVE ConnOK(c)
  <2>1. /\ handler[c] = "new" /\ ingest[c] = "none" /\ emit[c] = "none"
        /\ session[c] = NewSession /\ results[c] = << >> /\ sent[c] = << >>
        /\ sending[c] = EofMark /\ asr_queue = << >> /\ batch = << >> /\ jobs = << >>
        /\ loop = "idle" /\ failure = "none"
    BY DEF Init
  <2>2. /\ NewSession.pending_jobs = 0 /\ NewSession.segments = 0
        /\ NewSession.succeeded = 0 /\ NewSession.failed = 0
        /\ NewSession.drained = "set" /\ NewSession.aborted = "no"
    BY DEF NewSession
  <2>3. StageOK(c)
    BY <2>1, <2>2 DEF StageOK
  <2>4. PendingOK(c)
    BY <2>1, <2>2, OwnOfEmpty DEF PendingOK
  <2>5. SegmentsOK(c)
    <3>1. Waiting(c) = << >>
      BY <1>1, <2>1, OwnOfEmpty DEF Waiting, Ahead
    <3>2. Due(c, Verdicts) = 0
      BY <2>1 DEF Due, Verdicts
    <3>3. Given(c) = 0
      BY <2>1, <2>2, <3>2 DEF Given
    <3>4. QED
      BY <1>1, <2>1, <2>2, <3>1, <3>3 DEF SegmentsOK
  <2>6. StreamOK(c)
    BY <2>1 DEF StreamOK, Active
  <2>7. FatalOK(c)
    BY <1>1, <2>1 DEF FatalOK
  <2>8. SentOK(c)
    BY <1>1, <2>1 DEF SentOK
  <2>9. QED
    BY <2>3, <2>4, <2>5, <2>6, <2>7, <2>8 DEF ConnOK
<1>6. QED
  BY <1>3, <1>4, <1>5 DEF IInv, ConnOK

LEMMA UnchangedOK ==
  ASSUME IInv, UNCHANGED vars
  PROVE  IInv'
<1>1. TypeOK' /\ LoopOK'
  BY DEF IInv, TypeOK, WithinSizes, LoopOK, vars, Aborted, At, JobsOf
<1>2. ASSUME NEW d \in Connections PROVE ConnOK(d)'
  <2>1. ConnOK(d) /\ Beside(d)
    BY DEF IInv, ConnOK, Beside, ConnKept, LoopKept, vars, Own
  <2>2. QED
    BY <2>1, BesideKept
<1>3. QED
  BY <1>1, <1>2 DEF IInv, ConnOK

LEMMA StepOK ==
  ASSUME IInv, [Next]_vars
  PROVE  IInv'
<1>1. TypeOK'
  BY TypeStep
<1>2. CASE UNCHANGED vars
  BY <1>2, UnchangedOK
<1>3. CASE \E c \in Connections : ConnStep(c)
  BY <1>1, <1>3, ConnStepOK
<1>4. CASE TakeJob
  BY <1>1, <1>4, TakeJobOK
<1>5. CASE StartBatch
  BY <1>1, <1>5, StartBatchOK
<1>6. CASE WorkerFails \/ FinishBatch
  BY <1>1, <1>6, BatchEnds
<1>7. CASE CountResult
  <2> DEFINE c == Head(jobs).conn
  <2>1. jobs # << >> /\ c \in Connections
    BY <1>7, HeadCounted DEF CountResult
  <2>2. CASE Aborted(c)
    BY <1>1, <1>7, <2>1, <2>2, SkipOK DEF CountResult
  <2>3. CASE ~Aborted(c)
    <3>1. CountsVerdict(c)
      BY <1>7, <2>3, PipelineAssumption DEF CountResult, CountsVerdict
    <3> HIDE DEF c
    <3>2. QED
      BY <1>1, <2>1, <3>1, CountsVerdictOK
  <2>4. QED
    BY <2>2, <2>3
<1>8. CASE PutResult \/ PutResultTimeout
  <2> DEFINE c == Head(jobs).conn
  <2>1. c \in Connections
    BY <1>8, HeadCounted DEF PutResult, PutResultTimeout, IInv, LoopOK
  <2>2. CASE PutResult
    BY <1>1, <2>1, <2>2, PutResultOK
  <2>3. CASE PutResultTimeout
    <3>1. CutsOff(c)
      BY <2>3 DEF PutResultTimeout, CutsOff, GivesUp
    <3> HIDE DEF c
    <3>2. QED
      BY <1>1, <2>1, <3>1, CutsOffOK
  <2>4. QED
    BY <1>8, <2>2, <2>3
<1>9. QED
  BY <1>2, <1>3, <1>4, <1>5, <1>6, <1>7, <1>8 DEF Next, ConnStep, Closed

\* What the pipeline keeps, whatever the connections, their clients and the model
\* do: the verdicts, the jobs and the results of every session agree.
THEOREM Invariance == Spec => []IInv
<1>1. Init => IInv
  BY InitOK
<1>2. IInv /\ [Next]_vars => IInv'
  BY StepOK
<1>3. QED
  BY <1>1, <1>2, PTL DEF Spec

\* The sessions, their queues and the loop only ever hold what they are meant to,
\* and no queue and no batch exceeds its size: release, too, puts back no more
\* jobs than there is room for.
THEOREM TypeCorrect == Spec => []TypeOK
<1>1. IInv => TypeOK
  BY DEF IInv
<1>2. QED
  BY <1>1, Invariance, PTL

-----------------------------------------------------------------------------
\* What follows for the sessions and their clients.

\* A session that drains has a verdict for every segment, unless something failed.
LEMMA NoneMissing ==
  ASSUME IInv, NEW c \in Connections, At(ingest, c, "draining"),
         session[c].drained = "set", session[c].failure = "none", failure = "none"
  PROVE  ~ResultMissing(c)
<1> DEFINE s == session[c]
<1>1. s \in Session /\ asr_queue \in Seq(Job) /\ batch \in Seq(Job) /\ jobs \in Seq(Job)
  BY DEF IInv, TypeOK
<1>2. s.pending_jobs = 0
  BY DEF IInv, PendingOK
<1>3. JobsOf(c, asr_queue) = 0 /\ JobsOf(c, batch) = 0 /\ JobsOf(c, jobs) = 0
  <2> DEFINE a == JobsOf(c, asr_queue)
             b == JobsOf(c, batch)
             j == JobsOf(c, jobs)
  <2>1. a \in Nat /\ b \in Nat /\ j \in Nat /\ a =< 0 /\ b =< 0 /\ j =< 0
    BY <1>2, PendingBounds
  <2> HIDE DEF a, b, j
  <2>2. a = 0 /\ b = 0 /\ j = 0
    BY <2>1
  <2>3. QED
    BY <2>2 DEF a, b, j
<1>4. Own(c, asr_queue) = << >> /\ Own(c, Ahead) = << >>
  BY <1>1, <1>3, OwnOf DEF Ahead
<1>5. s.aborted = "no"
  <2>1. At(handler, c, "serving")
    BY Serving DEF At
  <2>2. s.aborted # "yes"
    BY <2>1 DEF IInv, StageOK, At
  <2>3. QED
    BY <1>1, <2>2 DEF Session
<1>6. Given(c) + Len(Waiting(c)) = s.segments
  BY <1>5 DEF IInv, SegmentsOK
<1>7. Len(Waiting(c)) = 0
  <2>1. << >> \o << >> = << >> /\ Len(<< >>) = 0
    OBVIOUS
  <2>2. QED
    BY <1>4, <2>1 DEF Waiting
<1>8. Given(c) = s.succeeded + s.failed
  <2>1. Due(c, Verdicts) = 0
    BY <1>2, NoneDue
  <2>2. s.succeeded \in Nat /\ s.failed \in Nat
    BY <1>1 DEF Session
  <2>3. QED
    BY <2>1, <2>2 DEF Given
<1>9. s.succeeded + s.failed = s.segments
  <2>1. s.succeeded \in Nat /\ s.failed \in Nat
    BY <1>1 DEF Session
  <2> HIDE DEF s
  <2>2. QED
    BY <1>6, <1>7, <1>8, <2>1
<1>10. QED
  BY <1>9 DEF ResultMissing

\* pending_jobs counts exactly the jobs of the session that are being put, wait,
\* or are in the batch, nobody drains before the last of them, and finish never
\* meets segment_result_missing.
THEOREM JobsAlwaysCounted == Spec => []PendingJobs
<1>1. IInv => PendingJobs
  <2> SUFFICES ASSUME IInv, NEW c \in Connections
               PROVE  /\ PendingOK(c)
                      /\ /\ At(ingest, c, "draining") /\ session[c].drained = "set"
                         /\ session[c].failure = "none" /\ failure = "none"
                         => ~ResultMissing(c)
    BY DEF PendingJobs, PendingOK
  <2>1. PendingOK(c)
    BY DEF IInv
  <2>2. QED
    BY <2>1, NoneMissing
<1>2. QED
  BY <1>1, Invariance, PTL

\* The results of one kind among the first of a sequence of results.
Received(c, i, kind) == {j \in 1 .. i - 1 : sent[c][j].kind = kind}

\* Before a result that is not the first, only verdicts a session survives.
LEMMA SentBefore ==
  ASSUME IInv, NEW c \in Connections, NEW i \in 1 .. Len(sent[c])
  PROVE  /\ sent[c] \in Seq(Result) /\ Len(sent[c]) \in Nat
         /\ \A j \in 1 .. i - 1 : sent[c][j].kind \in {"committed", "failed"}
<1>1. sent[c] \in Seq(Result) /\ Len(sent[c]) \in Nat
  BY LenProperties DEF IInv, TypeOK
<1>2. ASSUME NEW j \in 1 .. i - 1 PROVE sent[c][j].kind \in {"committed", "failed"}
  <2>1. j \in 1 .. Len(sent[c]) /\ j # Len(sent[c])
    BY <1>1
  <2>2. SentItem(c, j)
    BY <2>1 DEF IInv, SentOK
  <2>3. QED
    BY <2>1, <2>2 DEF SentItem
<1>3. QED
  BY <1>1, <1>2

\* A verdict carries the number of those before it.
LEMMA SegmentAccepted ==
  ASSUME IInv, NEW c \in Connections, NEW i \in 1 .. Len(sent[c]),
         sent[c][i].kind \in {"committed", "failed"}, sent[c][i].id = i - 1
  PROVE  Accepted(c, i)
<1> DEFINE good == Received(c, i, "committed")
           bad == Received(c, i, "failed")
<1>1. i \in Nat \ {0}
  BY SentBefore
<1>2. good \cup bad = 1 .. i - 1 /\ good \cap bad = {}
  BY SentBefore DEF Received
<1>3. IsFiniteSet(1 .. i - 1) /\ Cardinality(1 .. i - 1) = i - 1
  <2>1. i - 1 \in Nat
    BY <1>1
  <2>2. /\ IsFiniteSet(1 .. i - 1)
        /\ Cardinality(1 .. i - 1) = IF 1 > i - 1 THEN 0 ELSE i - 1 - 1 + 1
    BY <2>1, FS_Interval
  <2>3. QED
    BY <2>1, <2>2
<1> HIDE DEF good, bad
<1>4. IsFiniteSet(good) /\ IsFiniteSet(bad)
  BY <1>2, <1>3, FS_Subset
<1>5. Cardinality(good \cup bad) = Cardinality(good) + Cardinality(bad)
  <2>1. Cardinality(good \cup bad)
        = Cardinality(good) + Cardinality(bad) - Cardinality(good \cap bad)
    BY <1>4, FS_Union
  <2>2. Cardinality({}) = 0 /\ Cardinality(good) \in Nat /\ Cardinality(bad) \in Nat
    BY <1>4, FS_EmptySet, FS_CardinalityType
  <2>3. Cardinality(good \cap bad) = 0
    BY <1>2, <2>2
  <2> DEFINE all == Cardinality(good \cup bad)
             g == Cardinality(good)
             b == Cardinality(bad)
  <2>4. g \in Nat /\ b \in Nat /\ all = g + b - 0
    BY <2>1, <2>2, <2>3
  <2> HIDE DEF all, g, b
  <2>5. all = g + b
    BY <2>4
  <2>6. QED
    BY <2>5 DEF all, g, b
<1>6. sent[c][i].id = Cardinality(good) + Cardinality(bad)
  BY <1>2, <1>3, <1>5
<1>7. sent[c][i] # Ended /\ sent[c][i].kind # "fatal"
  BY DEF Ended
<1>8. QED
  BY <1>6, <1>7 DEF Accepted, Received, good, bad

\* How many of them there were is what session.ended says.
LEMMA EndedAccepted ==
  ASSUME IInv, NEW c \in Connections, NEW i \in 1 .. Len(sent[c]),
         sent[c][i] = Ended, SentItem(c, i)
  PROVE  Accepted(c, i)
<1> DEFINE m == sent[c]
<1>1. /\ m \in Seq(Result) /\ i \in Nat \ {0}
      /\ \A j \in 1 .. i - 1 : m[j].kind \in {"committed", "failed"}
      /\ \A j \in 1 .. i : m[j] \in Result
  <2>1. m \in Seq(Result) /\ Len(m) \in Nat
        /\ \A j \in 1 .. i - 1 : m[j].kind \in {"committed", "failed"}
    BY SentBefore
  <2>2. \A j \in 1 .. Len(m) : m[j] \in Result
    BY <2>1, ElementOfSeq
  <2>3. QED
    BY <2>1, <2>2
<1>2. /\ i = Len(m) /\ Settled(c)
      /\ Results({"committed"}, m) = session[c].succeeded
      /\ Results({"failed", "fatal"}, m) = session[c].failed
  BY DEF SentItem, Ended
<1>3. m[i] = Ended /\ Ended.kind = "ended"
  BY DEF Ended
<1> DEFINE Of(kinds) == {j \in 1 .. Len(m) : m[j] \in [kind : kinds, id : Nat]}
<1>4. /\ Cardinality(Of({"committed"})) = session[c].succeeded
      /\ Cardinality(Of({"failed", "fatal"})) = session[c].failed
  <2>1. \A kinds : Results(kinds, m) = Cardinality(Of(kinds))
    BY <1>1, LenOfSelected DEF Results
  <2> HIDE DEF Of
  <2>2. QED
    BY <1>2, <2>1
<1>5. /\ Of({"committed"}) = Received(c, i, "committed")
      /\ Of({"failed", "fatal"}) = Received(c, i, "failed")
  <2>1. \A kinds : \A j \in 1 .. i : m[j] \in [kind : kinds, id : Nat] <=> m[j].kind \in kinds
    BY <1>1 DEF Result
  <2>2. \A j \in 1 .. i : j \in 1 .. i - 1 \/ j = i
    BY <1>1
  <2>3. \A j \in 1 .. i - 1 : j \in 1 .. i
    BY <1>1
  <2> HIDE DEF m
  <2>4. ASSUME NEW kinds
        PROVE  Of(kinds) = {j \in 1 .. i : m[j].kind \in kinds}
    BY <1>2, <2>1
  <2>5. {j \in 1 .. i : m[j].kind \in {"committed"}} = {j \in 1 .. i - 1 : m[j].kind = "committed"}
    BY <1>3, <2>2, <2>3
  <2>6. {j \in 1 .. i : m[j].kind \in {"failed", "fatal"}}
        = {j \in 1 .. i - 1 : m[j].kind = "failed"}
    BY <1>1, <1>3, <2>2, <2>3
  <2> HIDE DEF Of
  <2>7. QED
    BY <2>4, <2>5, <2>6 DEF Received, m
<1>6. QED
  BY <1>2, <1>4, <1>5 DEF Accepted, Settled, Received

\* The client, which is the recording server, accepts every message: results come
\* in the order of their segments and without a gap, and session.ended comes last
\* and agrees with what was received before it.
THEOREM ClientAlwaysAccepts == Spec => []ClientAccepts
<1>1. IInv => ClientAccepts
  <2> SUFFICES ASSUME IInv, NEW c \in Connections, NEW i \in 1 .. Len(sent[c])
               PROVE  Accepted(c, i)
    BY DEF ClientAccepts
  <2>1. SentItem(c, i)
    BY DEF IInv, SentOK
  <2>2. CASE sent[c][i] = Ended
    BY <2>1, <2>2, EndedAccepted
  <2>3. CASE sent[c][i].kind \in {"committed", "failed"} /\ sent[c][i].id = i - 1
    BY <2>3, SegmentAccepted
  <2>4. QED
    BY <2>1, <2>2, <2>3 DEF SentItem
<1>2. QED
  BY <1>1, Invariance, PTL

-----------------------------------------------------------------------------
\* What the loop still does for a session that has been released.

\* Nothing has been put for it, or the one result that had been counted has been.
Quiet(c) ==
  At(handler, c, "closed") =>
    results[c] = << >> \/ (Len(results[c]) = 1 /\ Due(c, Verdicts) = 0)

\* The tasks and the handler of a closed connection are over.
LEMMA ClosedIsStill ==
  ASSUME IInv, NEW c \in Connections, At(handler, c, "closed")
  PROVE  ~ConnStep(c)
<1>1. /\ ingest[c] \in {"none", "done"} /\ emit[c] \in {"none", "done"}
      /\ ingest[c] = "none" => session[c].stopping = "no"
  BY DEF IInv, StageOK, At, NewSession
<1>2. QED
  BY <1>1 DEF ConnStep, Open, CloseTurn, PutJob, PutJobTimeout, FeedFails, Stop,
     WaitDrained, Drained, PutEnded, DrainTimeout, TakeResult, SendResult, Leave,
     Release, At

\* A job of a closed connection is one of a released session.
LEMMA ClosedWithJob ==
  ASSUME IInv, jobs # << >>, At(handler, Head(jobs).conn, "closed")
  PROVE  Aborted(Head(jobs).conn)
<1> DEFINE c == Head(jobs).conn
<1>1. c \in Connections /\ session[c].pending_jobs # 0
  BY HeadCounted
<1>2. session[c] # NewSession
  BY <1>1 DEF NewSession
<1> HIDE DEF c
<1>3. StageOK(c) /\ At(handler, c, "closed")
  BY <1>1 DEF IInv, c
<1>4. QED
  BY <1>2, <1>3 DEF StageOK, At, Aborted, c

LEMMA QuietStep ==
  ASSUME IInv, [Next]_vars, NEW c \in Connections, Quiet(c)
  PROVE  Quiet(c)'
<1> USE DEF At
<1>1. TypeOK /\ StageOK(c)
  BY DEF IInv
<1>2. CASE \E d \in Connections : ConnStep(d) /\ d # c
  <2>1. Beside(c)
    BY <1>2, StepsBeside
  <2>2. QED
    BY <2>1 DEF Quiet, Beside, ConnKept, LoopKept, Due
<1>3. CASE ConnStep(c)
  <2>1. handler[c] # "closed"
    BY <1>3, ClosedIsStill
  <2>2. ASSUME handler'[c] = "closed" PROVE results'[c] = << >>
    <3>1. CASE Open(c)
      BY <1>1, <3>1 DEF Open, StageOK
    <3>2. CASE Release(c)
      BY <1>1, <3>2 DEF Release, TypeOK
    <3>3. CASE Leave(c)
      BY <1>1, <2>2, <3>3 DEF Leave, TypeOK
    <3>4. CASE handler' = handler
      BY <2>1, <2>2, <3>4
    <3>5. QED
      BY <1>3, <3>1, <3>2, <3>3, <3>4
         DEF ConnStep, CloseTurn, PutJob, PutJobTimeout, FeedFails, Stop, WaitDrained,
             Drained, PutEnded, DrainTimeout, TakeResult, SendResult
  <2>3. QED
    BY <2>2 DEF Quiet
<1>4. CASE TakeJob \/ StartBatch \/ WorkerFails \/ FinishBatch \/ PutResultTimeout
  <2>1. UNCHANGED <<handler, results>> /\ loop' \notin Verdicts
    BY <1>4 DEF TakeJob, StartBatch, WorkerFails, FinishBatch, PutResultTimeout, connVars,
                Verdicts
  <2>2. QED
    BY <2>1 DEF Quiet, Due
<1>5. CASE CountResult
  <2>1. UNCHANGED <<handler, results>> /\ jobs # << >>
    BY <1>5 DEF CountResult, connVars
  <2>2. CASE Aborted(Head(jobs).conn)
    <3>1. loop' = "delivering"
      BY <1>5, <2>2 DEF CountResult
    <3>2. QED
      BY <2>1, <3>1 DEF Quiet, Due, Verdicts
  <2>3. CASE ~Aborted(Head(jobs).conn)
    <3>1. jobs' = jobs
      BY <1>5, <2>3 DEF CountResult
    <3>2. handler[c] = "closed" => Head(jobs).conn # c
      BY <2>1, <2>3, ClosedWithJob
    <3>3. QED
      BY <2>1, <3>1, <3>2 DEF Quiet, Due
  <2>4. QED
    BY <2>2, <2>3
<1>6. CASE PutResult
  <2> DEFINE d == Head(jobs).conn
             m == [kind |-> loop, id |-> Head(jobs).id]
  <2>1. /\ loop \in Verdicts /\ loop' = "delivering" /\ handler' = handler
        /\ results' = [results EXCEPT ![d] = Append(@, m)]
    BY <1>6 DEF PutResult, connVars
  <2>2. "delivering" \notin Verdicts
    BY DEF Verdicts
  <2>3. Due(c, Verdicts)' = 0
    BY <2>1, <2>2 DEF Due
  <2>4. d = c => Due(c, Verdicts) = 1
    BY <2>1 DEF Due
  <2> HIDE DEF d, m
  <2>5. CASE d # c
    <3>1. results'[c] = results[c]
      BY <1>1, <2>1, <2>5 DEF TypeOK
    <3>2. QED
      BY <2>1, <2>3, <3>1 DEF Quiet
  <2>6. CASE d = c
    <3>1. results'[c] = Append(results[c], m)
      BY <1>1, <2>1, <2>6 DEF TypeOK
    <3>2. Len(Append(<< >>, m)) = 1
      OBVIOUS
    <3>3. handler[c] = "closed" => results[c] = << >>
      BY <2>4, <2>6 DEF Quiet
    <3>4. QED
      BY <2>1, <2>3, <3>1, <3>2, <3>3 DEF Quiet
  <2>7. QED
    BY <2>5, <2>6
<1>7. CASE UNCHANGED vars
  BY <1>7 DEF Quiet, Due, vars
<1>8. QED
  BY <1>2, <1>3, <1>4, <1>5, <1>6, <1>7 DEF Next, ConnStep, Closed

AllQuiet == \A c \in Connections : Quiet(c)

\* A step that does no work for a session that has been released.
NoWorkForClosed ==
  \A c \in Connections :
    At(handler, c, "closed") =>
      /\ session'[c].succeeded = session[c].succeeded
      /\ session'[c].failed = session[c].failed
      /\ sent'[c] = sent[c]
      /\ Len(results'[c]) =< 1

\* No verdict is counted for a released session and its client is sent nothing
\* more, whichever batch it still has a job in; of the results only one that had
\* been counted before the release may still be put into its emptied queue.
THEOREM ReleasedGetNothing == Spec => NoWorkAfterRelease
<1>1. Init => AllQuiet
  BY DEF Init, AllQuiet, Quiet
<1>2. IInv /\ AllQuiet /\ [Next]_vars => AllQuiet'
  BY QuietStep DEF AllQuiet
<1>3. IInv /\ AllQuiet /\ [Next]_vars => [NoWorkForClosed]_vars
  <2> SUFFICES ASSUME IInv, AllQuiet, Next, NEW c \in Connections,
                      At(handler, c, "closed")
               PROVE  /\ session'[c].succeeded = session[c].succeeded
                      /\ session'[c].failed = session[c].failed
                      /\ sent'[c] = sent[c]
                      /\ Len(results'[c]) =< 1
    BY DEF NoWorkForClosed
  <2> DEFINE s == session[c]
             r == session'[c]
  <2>1. TypeOK /\ s \in Session /\ StageOK(c)
    BY DEF IInv, TypeOK
  <2>2. /\ handler'[c] = handler[c] /\ sent'[c] = sent[c]
        /\ r.succeeded = s.succeeded /\ r.failed = s.failed
    <3>1. CASE \E d \in Connections : ConnStep(d) /\ d # c
      BY <3>1, StepsBeside DEF Beside, ConnKept
    <3>2. ~ConnStep(c)
      BY ClosedIsStill
    <3>3. CASE TakeJob \/ StartBatch \/ PutResult \/ Closed
      BY <3>3 DEF TakeJob, StartBatch, PutResult, Closed, connVars, vars
    <3>4. CASE WorkerFails \/ FinishBatch
      <4>1. OnlyCounted(s, r, JobsOf(c, batch)) /\ UNCHANGED <<handler, sent>>
        BY <3>4, BatchDoneIs DEF WorkerFails, FinishBatch, connVars
      <4>2. QED
        BY <4>1 DEF OnlyCounted
    <3>5. CASE CountResult
      <4> DEFINE d == Head(jobs).conn
      <4>1. jobs # << >> /\ UNCHANGED <<handler, sent>>
        BY <3>5 DEF CountResult, connVars
      <4>2. CASE d = c
        <5>1. Aborted(d)
          BY <4>1, <4>2, ClosedWithJob
        <5>2. QED
          BY <3>5, <4>1, <5>1 DEF CountResult
      <4>3. CASE d # c
        BY <2>1, <3>5, <4>1, <4>3 DEF CountResult, TypeOK
      <4>4. QED
        BY <4>2, <4>3
    <3>6. CASE PutResultTimeout
      <4> DEFINE d == Head(jobs).conn
      <4>1. CutsOff(d) /\ d \in Connections /\ UNCHANGED <<handler, sent>>
        BY <3>6, HeadCounted
           DEF PutResultTimeout, CutsOff, GivesUp, IInv, LoopOK, connVars
      <4> HIDE DEF d
      <4>2. /\ session' = [session EXCEPT ![d] = session'[d]]
            /\ session'[d].succeeded = session[d].succeeded
            /\ session'[d].failed = session[d].failed
        BY <2>1, <4>1, SessionCutOff
      <4>3. QED
        BY <2>1, <4>1, <4>2 DEF TypeOK
    <3>7. QED
      BY <3>1, <3>2, <3>3, <3>4, <3>5, <3>6 DEF Next, ConnStep
  <2>3. Quiet(c)'
    BY QuietStep DEF AllQuiet
  <2>4. Len(results'[c]) =< 1
    <3>1. results'[c] = << >> \/ Len(results'[c]) = 1
      BY <2>2, <2>3 DEF Quiet, At
    <3>2. CASE results'[c] = << >>
      <4>1. Len(results'[c]) = 0
        BY <3>2
      <4>2. QED
        BY <4>1
    <3>3. CASE Len(results'[c]) = 1
      BY <3>3
    <3>4. QED
      BY <3>1, <3>2, <3>3
  <2>5. QED
    BY <2>2, <2>4
<1>4. NoWorkAfterRelease <=> [][NoWorkForClosed]_vars
  BY DEF NoWorkAfterRelease, NoWorkForClosed
<1>5. QED
  BY <1>1, <1>2, <1>3, <1>4, Invariance, PTL DEF Spec

===============================================================================
