------------------------ MODULE DiarizationRpc_proofs ------------------------
(***************************************************************************)
(* Proofs about DiarizationRpc for any connections and any chunks.         *)
(***************************************************************************)
EXTENDS DiarizationRpc, CollectionLemmas

-----------------------------------------------------------------------------
\* The inductive invariants.

ScalarsOK ==
  /\ ingest \in [Connections -> {"listening", "queued", "calling", "holding", "done"}]
  /\ handler \in [Connections -> {"serving", "leaving", "queued", "calling", "closed"}]
  /\ timer \in [Connections -> {"off", "armed", "fired"}]
  /\ chunks \in [Connections -> 0 .. MaxChunks]
  /\ lock_owner \in Callers \cup {NoCaller} /\ lock_queue \in Seq(Callers)
  /\ thread \in [Callers -> {"none", "writing", "reading", "answered", "failed"}]
  /\ requests \in Seq(Callers) /\ responses \in Seq(Callers)
  /\ answer \in [Callers -> Callers \cup {NoCaller}]
  /\ abandoned \subseteq Callers
  /\ failure \in {"none", "diarization_worker_unavailable"}

\* The line of the lock: each caller in it waits, and each that waits is in it
\* once.
LineOnce ==
  \A i, j \in 1 .. Len(lock_queue) : lock_queue[i] = lock_queue[j] => i = j
LineWaits ==
  \A k \in Callers, i \in 1 .. Len(lock_queue) : lock_queue[i] = k => Waits(k)
WaitsInLine ==
  \A k \in Callers : Waits(k) => \E i \in 1 .. Len(lock_queue) : lock_queue[i] = k

LineOK == LineOnce /\ LineWaits /\ WaitsInLine

\* Under no abandoned call: the thread that runs, the caller that awaits it and
\* the owner of the lock are one.
OneThread ==
  \A k \in Callers :
    /\ thread[k] # "none" <=> lock_owner = k
    /\ thread[k] # "none" <=> Awaits(k)

\* The lines in the pipe are those of the thread that reads, or whose read has
\* timed out.
OwnLine ==
  /\ \A k \in Callers :
       /\ answer[k] # NoCaller => thread[k] = "answered" /\ answer[k] = k
       /\ thread[k] \in {"reading", "failed"} => Len(requests) + Len(responses) =< 1
       /\ thread[k] # "none" =>
            /\ \A i \in 1 .. Len(requests) : requests[i] = k
            /\ \A i \in 1 .. Len(responses) : responses[i] = k
       /\ thread[k] \in {"writing", "answered"} => requests = << >> /\ responses = << >>
       /\ thread[k] # "none" => failure = "none"
  /\ failure = "none" /\ (\A k \in Callers : thread[k] = "none") =>
       requests = << >> /\ responses = << >>

Exclusive == abandoned = {} => OneThread /\ OwnLine

IInv == ScalarsOK /\ LineOK /\ Exclusive

-----------------------------------------------------------------------------
\* Callers and the line of the lock.

LEMMA CallerFields ==
  /\ \A k \in Callers : k.conn \in Connections /\ k.op \in {"chunk", "release"}
  /\ \A k \in Callers : k = Chunk(k.conn) \/ k = Release(k.conn)
  /\ \A c \in Connections : Chunk(c) \in Callers /\ Release(c) \in Callers
  /\ \A c \in Connections : Chunk(c).conn = c /\ Chunk(c).op = "chunk"
                            /\ Release(c).conn = c /\ Release(c).op = "release"
  /\ \A k \in Callers, c \in Connections :
       /\ k.conn = c /\ k.op = "chunk" => k = Chunk(c)
       /\ k.conn = c /\ k.op = "release" => k = Release(c)
  /\ NoCaller \notin Callers
BY DEF Callers, Chunk, Release, NoCaller

\* The line stays in order when a caller that was not in it joins the end ...
LEMMA JoinLine ==
  ASSUME ScalarsOK, LineOK, NEW k \in Callers, ~ Waits(k),
         lock_queue' = Append(lock_queue, k),
         \A m \in Callers : Waits(m)' <=> Waits(m) \/ m = k
  PROVE  lock_queue' \in Seq(Callers) /\ LineOK'
<1>1. /\ lock_queue \in Seq(Callers) /\ Len(lock_queue) \in Nat
      /\ \A i \in 1 .. Len(lock_queue) : lock_queue[i] \in Callers
  BY LenProperties, ElementOfSeq DEF ScalarsOK
<1>2. /\ lock_queue' \in Seq(Callers) /\ Len(lock_queue') = Len(lock_queue) + 1
      /\ \A i \in 1 .. Len(lock_queue) : lock_queue'[i] = lock_queue[i]
      /\ lock_queue'[Len(lock_queue) + 1] = k
  BY <1>1, AppendProperties
<1>3. \A i \in 1 .. Len(lock_queue) : lock_queue[i] # k
  BY DEF LineOK, LineWaits
<1>4. LineOnce'
  BY <1>1, <1>2, <1>3 DEF LineOK, LineOnce
<1>5. LineWaits'
  <2> SUFFICES ASSUME NEW m \in Callers, NEW i \in 1 .. Len(lock_queue'),
                      lock_queue'[i] = m
               PROVE  Waits(m)'
    BY DEF LineWaits
  <2>1. CASE i = Len(lock_queue) + 1
    BY <2>1, <1>2
  <2>2. CASE i # Len(lock_queue) + 1
    <3>1. i \in 1 .. Len(lock_queue)
      BY <2>2, <1>1, <1>2
    <3>2. lock_queue[i] \in Callers /\ Waits(lock_queue[i]) /\ lock_queue'[i] = lock_queue[i]
      BY <3>1, <1>1, <1>2 DEF LineOK, LineWaits
    <3>3. QED
      BY <3>2
  <2>3. QED
    BY <2>1, <2>2
<1>6. WaitsInLine'
  <2> SUFFICES ASSUME NEW m \in Callers, Waits(m)'
               PROVE  \E i \in 1 .. Len(lock_queue') : lock_queue'[i] = m
    BY DEF WaitsInLine
  <2>1. CASE m = k
    BY <2>1, <1>1, <1>2
  <2>2. CASE m # k
    <3>1. PICK i \in 1 .. Len(lock_queue) : lock_queue[i] = m
      BY <2>2 DEF LineOK, WaitsInLine
    <3>2. QED
      BY <3>1, <1>1, <1>2
  <2>3. QED
    BY <2>1, <2>2
<1>7. QED
  BY <1>2, <1>4, <1>5, <1>6 DEF LineOK

\* ... when the first caller leaves it ...
LEMMA HeadLeavesLine ==
  ASSUME ScalarsOK, LineOK, lock_queue # << >>, lock_queue' = Tail(lock_queue),
         \A m \in Callers : Waits(m)' <=> Waits(m) /\ m # Head(lock_queue)
  PROVE  lock_queue' \in Seq(Callers) /\ LineOK'
<1>1. /\ lock_queue \in Seq(Callers) /\ Len(lock_queue) \in Nat
      /\ \A i \in 1 .. Len(lock_queue) : lock_queue[i] \in Callers
  BY LenProperties, ElementOfSeq DEF ScalarsOK
<1>2. /\ lock_queue' \in Seq(Callers) /\ Len(lock_queue') = Len(lock_queue) - 1
      /\ \A i \in 1 .. Len(lock_queue') : lock_queue'[i] = lock_queue[i + 1]
      /\ Head(lock_queue) = lock_queue[1] /\ Len(lock_queue) >= 1
  BY <1>1, HeadTailProperties, EmptySeq
<1>3. Len(lock_queue') \in Nat
  BY <1>1, <1>2
<1>4. LineOnce'
  <2> SUFFICES ASSUME NEW i \in 1 .. Len(lock_queue'), NEW j \in 1 .. Len(lock_queue'),
                      lock_queue'[i] = lock_queue'[j]
               PROVE  i = j
    BY DEF LineOnce
  <2>1. i + 1 \in 1 .. Len(lock_queue) /\ j + 1 \in 1 .. Len(lock_queue)
    BY <1>1, <1>2
  <2>2. i + 1 = j + 1
    BY <2>1, <1>2 DEF LineOK, LineOnce
  <2>3. QED
    BY <2>2
<1>5. LineWaits'
  <2> SUFFICES ASSUME NEW m \in Callers, NEW i \in 1 .. Len(lock_queue'),
                      lock_queue'[i] = m
               PROVE  Waits(m)'
    BY DEF LineWaits
  <2>1. i + 1 \in 1 .. Len(lock_queue) /\ 1 \in 1 .. Len(lock_queue) /\ i + 1 # 1
    BY <1>1, <1>2
  <2>2. lock_queue[i + 1] # lock_queue[1] /\ lock_queue[i + 1] \in Callers
        /\ Waits(lock_queue[i + 1])
    BY <2>1, <1>1 DEF LineOK, LineOnce, LineWaits
  <2>3. QED
    BY <2>2, <1>2
<1>6. WaitsInLine'
  <2> SUFFICES ASSUME NEW m \in Callers, Waits(m)'
               PROVE  \E i \in 1 .. Len(lock_queue') : lock_queue'[i] = m
    BY DEF WaitsInLine
  <2>1. PICK i \in 1 .. Len(lock_queue) : lock_queue[i] = m
    BY DEF LineOK, WaitsInLine
  <2>2. i # 1
    BY <2>1, <1>2
  <2>3. i - 1 \in 1 .. Len(lock_queue') /\ (i - 1) + 1 = i
    BY <2>2, <1>1, <1>2
  <2>4. lock_queue'[i - 1] = m
    BY <2>1, <2>3, <1>2
  <2>5. QED
    BY <2>3, <2>4
<1>7. QED
  BY <1>2, <1>4, <1>5, <1>6 DEF LineOK

\* ... and when a caller somewhere in it, or not in it, gives up.
LEMMA GivesUpLine ==
  ASSUME ScalarsOK, LineOK, NEW k \in Callers, lock_queue' = RemoveFirst(lock_queue, k),
         \A m \in Callers : Waits(m)' <=> Waits(m) /\ m # k
  PROVE  lock_queue' \in Seq(Callers) /\ LineOK'
<1>1. /\ lock_queue \in Seq(Callers) /\ Len(lock_queue) \in Nat
      /\ \A i \in 1 .. Len(lock_queue) : lock_queue[i] \in Callers
  BY LenProperties, ElementOfSeq DEF ScalarsOK
<1>2. CASE /\ \A i \in 1 .. Len(lock_queue) : lock_queue[i] # k
           /\ lock_queue' = lock_queue
  BY <1>1, <1>2 DEF LineOK, LineOnce, LineWaits, WaitsInLine
<1>3. CASE \E n \in 1 .. Len(lock_queue) :
              /\ lock_queue[n] = k
              /\ lock_queue' \in Seq(Callers)
              /\ Len(lock_queue') = Len(lock_queue) - 1
              /\ \A i \in 1 .. Len(lock_queue) - 1 :
                   lock_queue'[i] = lock_queue[IF i < n THEN i ELSE i + 1]
  <2>1. PICK n \in 1 .. Len(lock_queue) :
          /\ lock_queue[n] = k
          /\ lock_queue' \in Seq(Callers)
          /\ Len(lock_queue') = Len(lock_queue) - 1
          /\ \A i \in 1 .. Len(lock_queue) - 1 :
               lock_queue'[i] = lock_queue[IF i < n THEN i ELSE i + 1]
    BY <1>3
  <2> DEFINE at(i) == IF i < n THEN i ELSE i + 1
  <2>2. \A i \in 1 .. Len(lock_queue') :
          /\ at(i) \in 1 .. Len(lock_queue) /\ at(i) # n
          /\ lock_queue'[i] = lock_queue[at(i)]
    BY <1>1, <2>1
  <2>3. \A i, j \in 1 .. Len(lock_queue') : at(i) = at(j) => i = j
    BY <1>1, <2>1
  <2>4. \A j \in 1 .. Len(lock_queue) :
          j # n => \E i \in 1 .. Len(lock_queue') : at(i) = j
    <3> SUFFICES ASSUME NEW j \in 1 .. Len(lock_queue), j # n
                 PROVE  \E i \in 1 .. Len(lock_queue') : at(i) = j
      OBVIOUS
    <3>1. CASE j < n
      BY <3>1, <1>1, <2>1
    <3>2. CASE ~ (j < n)
      <4>1. j - 1 \in 1 .. Len(lock_queue') /\ at(j - 1) = j
        BY <3>2, <1>1, <2>1
      <4>2. QED
        BY <4>1
    <3>3. QED
      BY <3>1, <3>2
  <2> HIDE DEF at
  <2>5. LineOnce'
    BY <2>2, <2>3 DEF LineOK, LineOnce
  <2>6. LineWaits'
    <3> SUFFICES ASSUME NEW m \in Callers, NEW i \in 1 .. Len(lock_queue'),
                      lock_queue'[i] = m
               PROVE  Waits(m)'
      BY DEF LineWaits
    <3>1. at(i) \in 1 .. Len(lock_queue) /\ at(i) # n /\ lock_queue'[i] = lock_queue[at(i)]
      BY <2>2
    <3>2. lock_queue[at(i)] # k /\ lock_queue[at(i)] \in Callers /\ Waits(lock_queue[at(i)])
      BY <3>1, <2>1, <1>1 DEF LineOK, LineOnce, LineWaits
    <3>3. QED
      BY <3>1, <3>2
  <2>7. WaitsInLine'
    <3> SUFFICES ASSUME NEW m \in Callers, Waits(m)'
                 PROVE  \E i \in 1 .. Len(lock_queue') : lock_queue'[i] = m
      BY DEF WaitsInLine
    <3>1. PICK j \in 1 .. Len(lock_queue) : lock_queue[j] = m
      BY DEF LineOK, WaitsInLine
    <3>2. PICK i \in 1 .. Len(lock_queue') : at(i) = j
      BY <3>1, <2>1, <2>4
    <3>3. QED
      BY <3>1, <3>2, <2>2
  <2>8. QED
    BY <2>1, <2>5, <2>6, <2>7 DEF LineOK
<1>4. QED
  BY <1>1, <1>2, <1>3, RemoveFirstIs

LEMMA LineKept ==
  ASSUME LineOK, UNCHANGED lock_queue, \A m \in Callers : Waits(m)' <=> Waits(m)
  PROVE  LineOK'
BY DEF LineOK, LineOnce, LineWaits, WaitsInLine

-----------------------------------------------------------------------------
\* Where the ingest task or the handler of a connection goes, and what that
\* changes for the callers.

Places == {"listening", "queued", "calling", "holding", "done"}
Stages == {"serving", "leaving", "queued", "calling", "closed"}

LEMMA IngestMoves ==
  ASSUME ScalarsOK, NEW c \in Connections, NEW p \in Places, Ingest(c, p)
  PROVE  /\ ingest' \in [Connections -> Places]
         /\ \A m \in Callers : m.op = "chunk" =>
              /\ Waits(m)' <=> IF m = Chunk(c) THEN p = "queued" ELSE Waits(m)
              /\ Awaits(m)' <=> IF m = Chunk(c) THEN p \in {"calling", "holding"}
                                ELSE Awaits(m)
<1>1. ingest \in [Connections -> Places] /\ ingest' = [ingest EXCEPT ![c] = p]
  BY DEF ScalarsOK, Places, Ingest
<1>2. \A d \in Connections : ingest'[d] = IF d = c THEN p ELSE ingest[d]
  BY <1>1
<1>3. QED
  BY <1>1, <1>2, CallerFields DEF Waits, Awaits

LEMMA HandlerMoves ==
  ASSUME ScalarsOK, NEW c \in Connections, NEW p \in Stages, Handler(c, p)
  PROVE  /\ handler' \in [Connections -> Stages]
         /\ \A m \in Callers : m.op = "release" =>
              /\ Waits(m)' <=> IF m = Release(c) THEN p = "queued" ELSE Waits(m)
              /\ Awaits(m)' <=> IF m = Release(c) THEN p = "calling" ELSE Awaits(m)
<1>1. handler \in [Connections -> Stages] /\ handler' = [handler EXCEPT ![c] = p]
  BY DEF ScalarsOK, Stages, Handler
<1>2. \A d \in Connections : handler'[d] = IF d = c THEN p ELSE handler[d]
  BY <1>1
<1>3. QED
  BY <1>1, <1>2, CallerFields DEF Waits, Awaits

LEMMA IngestStays ==
  ASSUME UNCHANGED ingest
  PROVE  \A m \in Callers : m.op = "chunk" =>
           (Waits(m)' <=> Waits(m)) /\ (Awaits(m)' <=> Awaits(m))
BY DEF Waits, Awaits

LEMMA HandlerStays ==
  ASSUME UNCHANGED handler
  PROVE  \A m \in Callers : m.op = "release" =>
           (Waits(m)' <=> Waits(m)) /\ (Awaits(m)' <=> Awaits(m))
BY CallerFields DEF Waits, Awaits

\* Nobody begins or ends a call: who awaits an answer stays the same.
LEMMA PipeKept ==
  ASSUME Exclusive, UNCHANGED <<lock_owner, pipeVars, abandoned, failure>>,
         \A m \in Callers : Awaits(m)' <=> Awaits(m)
  PROVE  Exclusive'
BY DEF Exclusive, OneThread, OwnLine, pipeVars

-----------------------------------------------------------------------------
\* One action at a time.

LEMMA NextChunkKeeps ==
  ASSUME IInv, NEW c \in Connections, NextChunk(c)
  PROVE  IInv'
<1>1. /\ ScalarsOK /\ LineOK /\ Exclusive /\ ingest[c] = "listening"
      /\ Chunk(c) \in Callers /\ ~ Waits(Chunk(c)) /\ ~ Awaits(Chunk(c))
  BY CallerFields DEF IInv, NextChunk, Waits, Awaits
<1>2. /\ ingest' \in [Connections -> Places]
      /\ \A m \in Callers :
           /\ Waits(m)' <=> Waits(m) \/ m = Chunk(c)
           /\ Awaits(m)' <=> Awaits(m)
  BY <1>1, IngestMoves, HandlerStays, CallerFields DEF NextChunk, Places
<1>3. lock_queue' \in Seq(Callers) /\ LineOK'
  BY <1>1, <1>2, JoinLine DEF NextChunk
<1>4. chunks' \in [Connections -> 0 .. MaxChunks]
  <2>1. chunks[c] \in 0 .. MaxChunks /\ chunks[c] < MaxChunks /\ MaxChunks \in Nat
    BY RpcAssumption DEF ScalarsOK, NextChunk, IInv
  <2>2. chunks[c] + 1 \in 0 .. MaxChunks
    BY <2>1
  <2>3. QED
    BY <2>2 DEF NextChunk, ScalarsOK, IInv
<1>5. ScalarsOK'
  BY <1>1, <1>2, <1>3, <1>4 DEF NextChunk, ScalarsOK, Places, pipeVars
<1>6. Exclusive'
  BY <1>1, <1>2, PipeKept DEF NextChunk
<1>7. QED
  BY <1>3, <1>5, <1>6 DEF IInv

LEMMA SessionStopKeeps ==
  ASSUME IInv, NEW c \in Connections, SessionStop(c)
  PROVE  IInv'
<1>1. \A m \in Callers : (Waits(m)' <=> Waits(m)) /\ (Awaits(m)' <=> Awaits(m))
  BY IngestStays, HandlerStays, CallerFields DEF SessionStop
<1>2. ScalarsOK'
  BY DEF IInv, SessionStop, ScalarsOK, lockVars, pipeVars
<1>3. LineOK' /\ Exclusive'
  BY <1>1, LineKept, PipeKept DEF IInv, SessionStop, lockVars
<1>4. QED
  BY <1>2, <1>3 DEF IInv

LEMMA IngestEndsKeeps ==
  ASSUME IInv, NEW c \in Connections, IngestEnds(c)
  PROVE  IInv'
<1>1. /\ ScalarsOK /\ LineOK /\ Exclusive
      /\ Chunk(c) \in Callers /\ ~ Waits(Chunk(c)) /\ ~ Awaits(Chunk(c))
  BY CallerFields DEF IInv, IngestEnds, Waits, Awaits
<1>2. /\ ingest' \in [Connections -> Places]
      /\ \A m \in Callers : (Waits(m)' <=> Waits(m)) /\ (Awaits(m)' <=> Awaits(m))
  BY <1>1, IngestMoves, HandlerStays, CallerFields DEF IngestEnds, Places
<1>3. ScalarsOK'
  BY <1>1, <1>2 DEF IngestEnds, ScalarsOK, Places, lockVars, pipeVars
<1>4. LineOK' /\ Exclusive'
  BY <1>1, <1>2, LineKept, PipeKept DEF IngestEnds, lockVars
<1>5. QED
  BY <1>3, <1>4 DEF IInv

\* A cancellation, whatever becomes of the timer and of a handler that does not
\* call or wait itself.
LEMMA CancelKeeps ==
  ASSUME IInv, NEW c \in Connections, Cancel(c), ingest[c] # "done",
         timer' \in [Connections -> {"off", "armed", "fired"}],
         handler' \in [Connections -> Stages],
         \A m \in Callers : m.op = "release" =>
           (Waits(m)' <=> Waits(m)) /\ (Awaits(m)' <=> Awaits(m)),
         UNCHANGED <<chunks, pipeVars, failure>>
  PROVE  IInv'
<1>1. /\ ScalarsOK /\ LineOK /\ Exclusive /\ Chunk(c) \in Callers
      /\ ingest[c] \in Places
  BY CallerFields DEF IInv, ScalarsOK, Places
<1>2. CASE ingest[c] = "calling"
  <2>1. Ingest(c, "holding") /\ UNCHANGED <<lockVars, abandoned>>
    BY <1>2 DEF Cancel
  <2>2. /\ ingest' \in [Connections -> Places]
        /\ \A m \in Callers : (Waits(m)' <=> Waits(m)) /\ (Awaits(m)' <=> Awaits(m))
    <3>1. ~ Waits(Chunk(c)) /\ Awaits(Chunk(c))
      BY <1>2, CallerFields DEF Waits, Awaits
    <3>2. QED
      BY <1>1, <2>1, <3>1, IngestMoves, CallerFields DEF Places
  <2>3. ScalarsOK'
    BY <1>1, <2>1, <2>2 DEF ScalarsOK, Places, Stages, lockVars, pipeVars
  <2>4. LineOK' /\ Exclusive'
    BY <1>1, <2>1, <2>2, LineKept, PipeKept DEF lockVars
  <2>5. QED
    BY <2>3, <2>4 DEF IInv
<1>3. CASE ingest[c] = "holding"
  <2>1. /\ Ingest(c, "done") /\ lock_owner' = NoCaller
        /\ abandoned' = abandoned \cup {Chunk(c)} /\ UNCHANGED lock_queue
    BY <1>3 DEF Cancel
  <2>2. /\ ingest' \in [Connections -> Places]
        /\ \A m \in Callers : Waits(m)' <=> Waits(m)
    <3>1. ~ Waits(Chunk(c))
      BY <1>3, CallerFields DEF Waits
    <3>2. QED
      BY <1>1, <2>1, <3>1, IngestMoves, CallerFields DEF Places
  <2>3. ScalarsOK'
    BY <1>1, <2>1, <2>2 DEF ScalarsOK, Places, Stages, pipeVars
  <2>4. LineOK' /\ Exclusive'
    BY <1>1, <2>1, <2>2, LineKept DEF Exclusive
  <2>5. QED
    BY <2>3, <2>4 DEF IInv
<1>4. CASE ingest[c] \notin {"calling", "holding"}
  <2>1. /\ Ingest(c, "done") /\ lock_queue' = RemoveFirst(lock_queue, Chunk(c))
        /\ UNCHANGED <<lock_owner, abandoned>>
    BY <1>4 DEF Cancel
  <2>2. /\ ingest' \in [Connections -> Places]
        /\ \A m \in Callers : /\ Waits(m)' <=> Waits(m) /\ m # Chunk(c)
                              /\ Awaits(m)' <=> Awaits(m)
    <3>1. ~ Awaits(Chunk(c))
      BY <1>4, CallerFields DEF Awaits
    <3>2. QED
      BY <1>1, <2>1, <3>1, IngestMoves, CallerFields DEF Places
  <2>3. lock_queue' \in Seq(Callers) /\ LineOK'
    BY <1>1, <2>1, <2>2, GivesUpLine
  <2>4. ScalarsOK'
    BY <1>1, <2>1, <2>2, <2>3 DEF ScalarsOK, Places, Stages, pipeVars
  <2>5. Exclusive'
    BY <1>1, <2>1, <2>2, PipeKept
  <2>6. QED
    BY <2>3, <2>4, <2>5 DEF IInv
<1>5. QED
  BY <1>2, <1>3, <1>4

LEMMA DrainTimeoutKeeps ==
  ASSUME IInv, NEW c \in Connections, DrainTimeout(c)
  PROVE  IInv'
<1>1. timer' \in [Connections -> {"off", "armed", "fired"}]
  BY DEF IInv, ScalarsOK, DrainTimeout
<1>2. handler' \in [Connections -> Stages]
  BY DEF IInv, ScalarsOK, DrainTimeout, Stages
<1>3. QED
  BY <1>1, <1>2, HandlerStays, CancelKeeps DEF DrainTimeout

LEMMA LeaveKeeps ==
  ASSUME IInv, NEW c \in Connections, Leave(c)
  PROVE  IInv'
<1>1. /\ ScalarsOK /\ LineOK /\ Exclusive /\ handler[c] = "serving"
      /\ ~ Waits(Release(c)) /\ ~ Awaits(Release(c))
  BY CallerFields DEF IInv, Leave, Waits, Awaits
<1>2. /\ handler' \in [Connections -> Stages]
      /\ \A m \in Callers : m.op = "release" =>
           (Waits(m)' <=> Waits(m)) /\ (Awaits(m)' <=> Awaits(m))
  BY <1>1, HandlerMoves DEF Leave, Stages
<1>3. CASE ingest[c] # "done" /\ timer[c] # "fired"
  <2>1. timer' \in [Connections -> {"off", "armed", "fired"}]
    BY <1>1 DEF ScalarsOK, Leave
  <2>2. QED
    BY <1>2, <1>3, <2>1, CancelKeeps DEF Leave
<1>4. CASE ~ (ingest[c] # "done" /\ timer[c] # "fired")
  <2>1. UNCHANGED <<ingest, lockVars, abandoned>>
    BY <1>4 DEF Leave
  <2>2. \A m \in Callers : (Waits(m)' <=> Waits(m)) /\ (Awaits(m)' <=> Awaits(m))
    BY <1>2, <2>1, IngestStays, CallerFields
  <2>3. ScalarsOK'
    BY <1>1, <1>2, <2>1 DEF Leave, ScalarsOK, Stages, lockVars, pipeVars
  <2>4. LineOK' /\ Exclusive'
    BY <1>1, <2>1, <2>2, LineKept, PipeKept DEF Leave, lockVars
  <2>5. QED
    BY <2>3, <2>4 DEF IInv
<1>5. QED
  BY <1>3, <1>4

LEMMA ReleaseSessionKeeps ==
  ASSUME IInv, NEW c \in Connections, ReleaseSession(c)
  PROVE  IInv'
<1>1. /\ ScalarsOK /\ LineOK /\ Exclusive /\ handler[c] = "leaving"
      /\ Release(c) \in Callers /\ ~ Waits(Release(c)) /\ ~ Awaits(Release(c))
  BY CallerFields DEF IInv, ReleaseSession, Waits, Awaits
<1>2. CASE failure = "none"
  <2>1. Handler(c, "queued") /\ lock_queue' = Append(lock_queue, Release(c))
    BY <1>2 DEF ReleaseSession
  <2>2. /\ handler' \in [Connections -> Stages]
        /\ \A m \in Callers : /\ Waits(m)' <=> Waits(m) \/ m = Release(c)
                              /\ Awaits(m)' <=> Awaits(m)
    BY <1>1, <2>1, HandlerMoves, IngestStays, CallerFields DEF ReleaseSession, Stages
  <2>3. lock_queue' \in Seq(Callers) /\ LineOK'
    BY <1>1, <2>1, <2>2, JoinLine
  <2>4. ScalarsOK'
    BY <1>1, <2>2, <2>3 DEF ReleaseSession, ScalarsOK, Stages, pipeVars
  <2>5. Exclusive'
    BY <1>1, <2>2, PipeKept DEF ReleaseSession
  <2>6. QED
    BY <2>3, <2>4, <2>5 DEF IInv
<1>3. CASE failure # "none"
  <2>1. Handler(c, "closed") /\ UNCHANGED lock_queue
    BY <1>3 DEF ReleaseSession
  <2>2. /\ handler' \in [Connections -> Stages]
        /\ \A m \in Callers : (Waits(m)' <=> Waits(m)) /\ (Awaits(m)' <=> Awaits(m))
    BY <1>1, <2>1, HandlerMoves, IngestStays, CallerFields DEF ReleaseSession, Stages
  <2>3. ScalarsOK'
    BY <1>1, <2>1, <2>2 DEF ReleaseSession, ScalarsOK, Stages, pipeVars
  <2>4. LineOK' /\ Exclusive'
    BY <1>1, <2>1, <2>2, LineKept, PipeKept DEF ReleaseSession
  <2>5. QED
    BY <2>3, <2>4 DEF IInv
<1>4. QED
  BY <1>2, <1>3

\* Where a caller goes from the lock, by its kind.
LEMMA CallerGoes ==
  ASSUME ScalarsOK, NEW k \in Callers, NEW p \in Places, NEW s \in Stages, Goes(k, p, s)
  PROVE  /\ ingest' \in [Connections -> Places] /\ handler' \in [Connections -> Stages]
         /\ \A m \in Callers \ {k} :
              (Waits(m)' <=> Waits(m)) /\ (Awaits(m)' <=> Awaits(m))
         /\ k.op = "chunk" => /\ Waits(k)' <=> p = "queued"
                              /\ Awaits(k)' <=> p \in {"calling", "holding"}
         /\ k.op = "release" => /\ Waits(k)' <=> s = "queued"
                                /\ Awaits(k)' <=> s = "calling"
<1>1. CASE k.op = "chunk"
  <2>1. Ingest(k.conn, p) /\ UNCHANGED handler /\ k = Chunk(k.conn) /\ k.conn \in Connections
    BY <1>1, CallerFields DEF Goes
  <2>2. handler' \in [Connections -> Stages]
    BY <2>1 DEF ScalarsOK, Stages
  <2>3. QED
    BY <1>1, <2>1, <2>2, IngestMoves, HandlerStays, CallerFields
<1>2. CASE k.op # "chunk"
  <2>1. Handler(k.conn, s) /\ UNCHANGED ingest /\ k = Release(k.conn) /\ k.conn \in Connections
    BY <1>2, CallerFields DEF Goes
  <2>2. ingest' \in [Connections -> Places]
    BY <2>1 DEF ScalarsOK, Places
  <2>3. QED
    BY <1>2, <2>1, <2>2, HandlerMoves, IngestStays, CallerFields
<1>3. QED
  BY <1>1, <1>2

LEMMA AcquireKeeps ==
  ASSUME IInv, NEW k \in Callers, Acquire(k)
  PROVE  IInv'
<1>1. /\ ScalarsOK /\ LineOK /\ Exclusive /\ lock_owner = NoCaller
      /\ lock_queue # << >> /\ Head(lock_queue) = k /\ lock_queue' = Tail(lock_queue)
      /\ lock_queue \in Seq(Callers)
  BY DEF IInv, Acquire, ScalarsOK
<1>2. Waits(k) /\ ~ Awaits(k)
  <2>1. 1 \in 1 .. Len(lock_queue) /\ lock_queue[1] = k
    BY <1>1, EmptySeq, LenProperties
  <2>2. Waits(k)
    BY <1>1, <2>1 DEF LineOK, LineWaits
  <2>3. QED
    BY <2>2 DEF Waits, Awaits
<1>3. CASE Healthy
  <2>1. /\ lock_owner' = k /\ thread' = [thread EXCEPT ![k] = "writing"]
        /\ Goes(k, "calling", "calling")
        /\ UNCHANGED <<timer, chunks, requests, responses, answer, abandoned, failure>>
    BY <1>3 DEF Acquire
  <2>2. /\ ingest' \in [Connections -> Places] /\ handler' \in [Connections -> Stages]
        /\ \A m \in Callers :
             /\ Waits(m)' <=> Waits(m) /\ m # k
             /\ Awaits(m)' <=> Awaits(m) \/ m = k
    BY <1>1, <1>2, <2>1, CallerGoes, CallerFields DEF Places, Stages
  <2>3. lock_queue' \in Seq(Callers) /\ LineOK'
    BY <1>1, <2>2, HeadLeavesLine
  <2>4. /\ thread' \in [Callers -> {"none", "writing", "reading", "answered", "failed"}]
        /\ \A m \in Callers : thread'[m] = IF m = k THEN "writing" ELSE thread[m]
    BY <1>1, <2>1 DEF ScalarsOK
  <2>5. ScalarsOK'
    BY <1>1, <2>1, <2>2, <2>3, <2>4 DEF ScalarsOK, Places, Stages
  <2>6. ASSUME abandoned' = {} PROVE OneThread' /\ OwnLine'
    <3>1. OneThread /\ OwnLine /\ failure = "none"
      BY <1>1, <1>3, <2>1, <2>6 DEF Exclusive, Healthy
    <3>2. \A m \in Callers : thread[m] = "none" /\ ~ Awaits(m)
      BY <1>1, <3>1, CallerFields DEF OneThread
    <3>3. requests = << >> /\ responses = << >>
      BY <3>1, <3>2 DEF OwnLine
    <3>4. OneThread'
      BY <2>1, <2>2, <2>4, <3>2 DEF OneThread
    <3>5. Len(requests) = 0 /\ Len(responses) = 0
      BY <3>3, EmptySeq
    <3>6. OwnLine'
      BY <2>1, <2>4, <3>1, <3>2, <3>3, <3>5 DEF OwnLine
    <3>7. QED
      BY <3>4, <3>6
  <2>7. QED
    BY <2>3, <2>5, <2>6 DEF IInv, Exclusive
<1>4. CASE ~ Healthy
  <2>1. /\ Goes(k, "done", "closed") /\ UNCHANGED <<lock_owner, thread>>
        /\ UNCHANGED <<timer, chunks, requests, responses, answer, abandoned, failure>>
    BY <1>4 DEF Acquire
  <2>2. /\ ingest' \in [Connections -> Places] /\ handler' \in [Connections -> Stages]
        /\ \A m \in Callers :
             /\ Waits(m)' <=> Waits(m) /\ m # k
             /\ Awaits(m)' <=> Awaits(m)
    BY <1>1, <1>2, <2>1, CallerGoes, CallerFields DEF Places, Stages
  <2>3. lock_queue' \in Seq(Callers) /\ LineOK'
    BY <1>1, <2>2, HeadLeavesLine
  <2>4. ScalarsOK'
    BY <1>1, <2>1, <2>2, <2>3 DEF ScalarsOK, Places, Stages
  <2>5. Exclusive'
    BY <1>1, <2>1, <2>2, PipeKept DEF pipeVars
  <2>6. QED
    BY <2>3, <2>4, <2>5 DEF IInv
<1>5. QED
  BY <1>3, <1>4

\* The steps of the pipe change neither the places nor the lock.
LEMMA PlacesKept ==
  ASSUME LineOK, UNCHANGED <<ingest, handler, lockVars>>
  PROVE  /\ LineOK'
         /\ \A m \in Callers : Awaits(m)' <=> Awaits(m)
<1>1. \A m \in Callers : (Waits(m)' <=> Waits(m)) /\ (Awaits(m)' <=> Awaits(m))
  BY IngestStays, HandlerStays, CallerFields
<1>2. QED
  BY <1>1, LineKept DEF lockVars

LEMMA WriteRequestKeeps ==
  ASSUME IInv, NEW k \in Callers, WriteRequest(k)
  PROVE  IInv'
<1>1. /\ ScalarsOK /\ LineOK /\ Exclusive /\ thread[k] = "writing"
      /\ requests \in Seq(Callers) /\ requests' = Append(requests, k)
      /\ UNCHANGED <<ingest, handler, timer, chunks, lockVars, responses, answer,
                     abandoned, failure>>
  BY DEF IInv, WriteRequest, ScalarsOK
<1>2. /\ thread' \in [Callers -> {"none", "writing", "reading", "answered", "failed"}]
      /\ \A m \in Callers : thread'[m] = IF m = k THEN "reading" ELSE thread[m]
  BY <1>1 DEF ScalarsOK, WriteRequest
<1>3. requests' \in Seq(Callers)
  BY <1>1, AppendProperties
<1>4. LineOK' /\ \A m \in Callers : Awaits(m)' <=> Awaits(m)
  BY <1>1, PlacesKept
<1>5. ScalarsOK'
  BY <1>1, <1>2, <1>3 DEF ScalarsOK, lockVars
<1>6. ASSUME abandoned' = {} PROVE OneThread' /\ OwnLine'
  <2>1. OneThread /\ OwnLine
    BY <1>1, <1>6 DEF Exclusive
  <2>2. \A m \in Callers : thread[m] # "none" => m = k
    BY <1>1, <2>1 DEF OneThread
  <2>3. requests = << >> /\ responses = << >> /\ failure = "none"
    BY <1>1, <2>1 DEF OwnLine
  <2>4. /\ Len(requests') = 1 /\ requests'[1] = k /\ Len(responses') = 0
    BY <1>1, <2>3, EmptySeq, AppendProperties
  <2>5. OneThread'
    BY <1>1, <1>2, <1>4, <2>1 DEF OneThread, lockVars
  <2>6. OwnLine'
    BY <1>1, <1>2, <2>1, <2>2, <2>3, <2>4 DEF OwnLine
  <2>7. QED
    BY <2>5, <2>6
<1>7. QED
  BY <1>4, <1>5, <1>6 DEF IInv, Exclusive

\* With a line in the pipe, a thread reads or has stopped reading, unless the
\* runtime has failed; and the line is the only one.
LEMMA WorkerAnswersKeeps ==
  ASSUME IInv, WorkerAnswers
  PROVE  IInv'
<1>1. /\ ScalarsOK /\ LineOK /\ Exclusive
      /\ requests \in Seq(Callers) /\ responses \in Seq(Callers) /\ requests # << >>
      /\ requests' = Tail(requests) /\ responses' = Append(responses, Head(requests))
      /\ UNCHANGED <<ingest, handler, timer, chunks, lockVars, thread, answer,
                     abandoned, failure>>
  BY DEF IInv, WorkerAnswers, ScalarsOK
<1>2. /\ requests' \in Seq(Callers) /\ Len(requests') = Len(requests) - 1
      /\ \A i \in 1 .. Len(requests') : requests'[i] = requests[i + 1]
      /\ Head(requests) = requests[1] /\ Head(requests) \in Callers
      /\ Len(requests) \in Nat /\ Len(requests) >= 1
  BY <1>1, HeadTailProperties, EmptySeq, LenProperties
<1>3. /\ responses' \in Seq(Callers) /\ Len(responses') = Len(responses) + 1
      /\ \A i \in 1 .. Len(responses) : responses'[i] = responses[i]
      /\ responses'[Len(responses) + 1] = requests[1]
      /\ Len(responses) \in Nat
  BY <1>1, <1>2, AppendProperties, LenProperties
<1>4. LineOK' /\ \A m \in Callers : Awaits(m)' <=> Awaits(m)
  BY <1>1, PlacesKept
<1>5. ScalarsOK'
  BY <1>1, <1>2, <1>3 DEF ScalarsOK, lockVars
<1>6. ASSUME abandoned' = {} PROVE OneThread' /\ OwnLine'
  <2>1. OneThread /\ OwnLine
    BY <1>1, <1>6 DEF Exclusive
  <2>2. OneThread'
    BY <1>1, <1>4, <2>1 DEF OneThread, lockVars
  <2>3. ASSUME NEW m \in Callers, thread[m] # "none"
        PROVE  /\ \A i \in 1 .. Len(requests') : requests'[i] = m
               /\ \A i \in 1 .. Len(responses') : responses'[i] = m
    <3>1. /\ \A i \in 1 .. Len(requests) : requests[i] = m
          /\ \A i \in 1 .. Len(responses) : responses[i] = m
      BY <2>1, <2>3 DEF OwnLine
    <3>2. \A i \in 1 .. Len(requests') : i + 1 \in 1 .. Len(requests)
      BY <1>2
    <3>3. 1 \in 1 .. Len(requests)
      BY <1>2
    <3>4. \A i \in 1 .. Len(responses') :
            i \in 1 .. Len(responses) \/ i = Len(responses) + 1
      BY <1>3
    <3>5. QED
      BY <3>1, <3>2, <3>3, <3>4, <1>2, <1>3
  <2>4. OwnLine'
    BY <1>1, <1>2, <1>3, <2>1, <2>3 DEF OwnLine
  <2>5. QED
    BY <2>2, <2>4
<1>7. QED
  BY <1>4, <1>5, <1>6 DEF IInv, Exclusive

LEMMA ReadResponseKeeps ==
  ASSUME IInv, NEW k \in Callers, ReadResponse(k)
  PROVE  IInv'
<1>1. /\ ScalarsOK /\ LineOK /\ Exclusive /\ thread[k] = "reading"
      /\ requests \in Seq(Callers) /\ responses \in Seq(Callers)
      /\ Len(requests) \in Nat /\ Len(responses) \in Nat
      /\ UNCHANGED <<ingest, handler, timer, chunks, lockVars, requests, abandoned,
                     failure>>
  BY LenProperties DEF IInv, ReadResponse, ScalarsOK
<1>2. LineOK' /\ \A m \in Callers : Awaits(m)' <=> Awaits(m)
  BY <1>1, PlacesKept
<1>3. CASE /\ responses # << >>
           /\ answer' = [answer EXCEPT ![k] = Head(responses)]
           /\ responses' = Tail(responses)
           /\ thread' = [thread EXCEPT ![k] = "answered"]
  <2>1. /\ responses' \in Seq(Callers) /\ Len(responses') = Len(responses) - 1
        /\ Head(responses) = responses[1] /\ Head(responses) \in Callers
        /\ Len(responses) >= 1
    BY <1>1, <1>3, HeadTailProperties, EmptySeq
  <2>2. /\ thread' \in [Callers -> {"none", "writing", "reading", "answered", "failed"}]
        /\ \A m \in Callers : thread'[m] = IF m = k THEN "answered" ELSE thread[m]
    BY <1>1, <1>3 DEF ScalarsOK
  <2>3. /\ answer' \in [Callers -> Callers \cup {NoCaller}]
        /\ \A m \in Callers : answer'[m] = IF m = k THEN Head(responses) ELSE answer[m]
    BY <1>1, <1>3, <2>1 DEF ScalarsOK
  <2>4. ScalarsOK'
    BY <1>1, <2>1, <2>2, <2>3 DEF ScalarsOK, lockVars
  <2>5. ASSUME abandoned' = {} PROVE OneThread' /\ OwnLine'
    <3>1. OneThread /\ OwnLine
      BY <1>1, <2>5 DEF Exclusive
    <3>2. OneThread'
      BY <1>1, <1>2, <2>2, <3>1 DEF OneThread, lockVars
    <3>3. \A m \in Callers : thread[m] # "none" => m = k
      BY <1>1, <3>1 DEF OneThread
    <3>4. /\ Len(requests) + Len(responses) =< 1 /\ failure = "none"
          /\ \A i \in 1 .. Len(responses) : responses[i] = k
      BY <1>1, <3>1 DEF OwnLine
    <3>5. Len(requests) = 0 /\ Len(responses') = 0 /\ Head(responses) = k
      BY <1>1, <2>1, <3>4
    <3>6. requests' = << >> /\ responses' = << >>
      BY <1>1, <2>1, <3>5, EmptySeq
    <3>7. OwnLine'
      BY <1>1, <2>2, <2>3, <3>1, <3>3, <3>4, <3>5, <3>6 DEF OwnLine
    <3>8. QED
      BY <3>2, <3>7
  <2>6. QED
    BY <1>2, <2>4, <2>5 DEF IInv, Exclusive
<1>4. CASE thread' = [thread EXCEPT ![k] = "failed"] /\ UNCHANGED <<answer, responses>>
  <2>1. /\ thread' \in [Callers -> {"none", "writing", "reading", "answered", "failed"}]
        /\ \A m \in Callers : thread'[m] = IF m = k THEN "failed" ELSE thread[m]
    BY <1>1, <1>4 DEF ScalarsOK
  <2>2. ScalarsOK'
    BY <1>1, <1>4, <2>1 DEF ScalarsOK, lockVars
  <2>3. ASSUME abandoned' = {} PROVE OneThread' /\ OwnLine'
    <3>1. OneThread /\ OwnLine
      BY <1>1, <2>3 DEF Exclusive
    <3>2. OneThread'
      BY <1>1, <1>2, <2>1, <3>1 DEF OneThread, lockVars
    <3>3. OwnLine'
      BY <1>1, <1>4, <2>1, <3>1 DEF OwnLine
    <3>4. QED
      BY <3>2, <3>3
  <2>4. QED
    BY <1>2, <2>2, <2>3 DEF IInv, Exclusive
<1>5. QED
  BY <1>3, <1>4 DEF ReadResponse

LEMMA ReturnKeeps ==
  ASSUME IInv, NEW k \in Callers, Return(k)
  PROVE  IInv'
<1>1. /\ ScalarsOK /\ LineOK /\ Exclusive /\ thread[k] \in {"answered", "failed"}
      /\ UNCHANGED <<timer, chunks, lock_queue, requests, responses, abandoned>>
  BY DEF IInv, Return
<1>2. /\ thread' \in [Callers -> {"none", "writing", "reading", "answered", "failed"}]
      /\ \A m \in Callers : thread'[m] = IF m = k THEN "none" ELSE thread[m]
  BY <1>1 DEF ScalarsOK, Return
<1>3. /\ answer' \in [Callers -> Callers \cup {NoCaller}]
      /\ \A m \in Callers : answer'[m] = IF m = k THEN NoCaller ELSE answer[m]
  BY <1>1 DEF ScalarsOK, Return
<1>4. CASE Awaits(k)
  <2> DEFINE place == IF thread[k] = "failed" \/ ingest[k.conn] = "holding"
                      THEN "done" ELSE "listening"
  <2>1. /\ lock_owner' = NoCaller /\ Goes(k, place, "closed")
        /\ failure' = IF failure = "none" /\ thread[k] = "failed"
                      THEN "diarization_worker_unavailable" ELSE failure
    BY <1>4 DEF Return, OwnerAfter
  <2>2. place \in Places \ {"queued", "calling", "holding"}
        /\ "closed" \in Stages /\ ~ Waits(k)
    BY <1>4 DEF Places, Stages, Waits, Awaits
  <2> HIDE DEF place
  <2>3. /\ ingest' \in [Connections -> Places] /\ handler' \in [Connections -> Stages]
        /\ \A m \in Callers : /\ Waits(m)' <=> Waits(m)
                              /\ Awaits(m)' <=> Awaits(m) /\ m # k
    BY <1>1, <2>1, <2>2, CallerGoes, CallerFields
  <2>4. LineOK'
    BY <1>1, <2>3, LineKept
  <2>5. ScalarsOK'
    BY <1>1, <1>2, <1>3, <2>1, <2>3 DEF ScalarsOK, Places, Stages
  <2>6. ASSUME abandoned' = {} PROVE OneThread' /\ OwnLine'
    <3>1. OneThread /\ OwnLine
      BY <1>1, <2>6 DEF Exclusive
    <3>2. \A m \in Callers : thread'[m] = "none"
      BY <1>1, <1>2, <3>1 DEF OneThread
    <3>3. OneThread'
      BY <1>1, <2>1, <2>3, <3>1, <3>2, CallerFields DEF OneThread
    <3>4. failure' = "none" => thread[k] = "answered"
      BY <1>1, <2>1
    <3>5. OwnLine'
      BY <1>1, <1>3, <3>1, <3>2, <3>4 DEF OwnLine, OneThread
    <3>6. QED
      BY <3>3, <3>5
  <2>7. QED
    BY <2>4, <2>5, <2>6 DEF IInv, Exclusive
<1>5. CASE ~ Awaits(k)
  <2>1. UNCHANGED <<lock_owner, failure, ingest, handler>>
    BY <1>5 DEF Return
  <2>2. ScalarsOK'
    BY <1>1, <1>2, <1>3, <2>1 DEF ScalarsOK
  <2>3. LineOK'
    BY <1>1, <2>1, PlacesKept DEF lockVars
  <2>4. abandoned # {}
    BY <1>1, <1>5 DEF Exclusive, OneThread
  <2>5. QED
    BY <1>1, <2>2, <2>3, <2>4 DEF IInv, Exclusive
<1>6. QED
  BY <1>4, <1>5

LEMMA StutterKeeps ==
  ASSUME IInv, UNCHANGED vars
  PROVE  IInv'
<1>1. ScalarsOK'
  BY DEF IInv, ScalarsOK, vars
<1>2. LineOK' /\ \A m \in Callers : Awaits(m)' <=> Awaits(m)
  BY PlacesKept DEF IInv, vars, lockVars
<1>3. Exclusive'
  BY <1>2, PipeKept DEF IInv, vars, pipeVars
<1>4. QED
  BY <1>1, <1>2, <1>3 DEF IInv

-----------------------------------------------------------------------------
\* The theorems.

LEMMA InitHolds == Init => IInv
<1> SUFFICES ASSUME Init PROVE IInv
  OBVIOUS
<1>1. \A k \in Callers : ~ Waits(k) /\ ~ Awaits(k)
  BY CallerFields DEF Init, Waits, Awaits
<1>2. << >> \in Seq(Callers) /\ Len(<< >>) = 0
  BY EmptySeq
<1>3. ScalarsOK
  BY <1>2, RpcAssumption DEF Init, ScalarsOK
<1>4. LineOK
  BY <1>1, <1>2 DEF Init, LineOK, LineOnce, LineWaits, WaitsInLine
<1>5. Exclusive
  BY <1>1, <1>2, CallerFields DEF Init, Exclusive, OneThread, OwnLine
<1>6. QED
  BY <1>3, <1>4, <1>5 DEF IInv

LEMMA StepKeeps == IInv /\ [Next]_vars => IInv'
<1> SUFFICES ASSUME IInv, [Next]_vars PROVE IInv'
  OBVIOUS
<1>1. ASSUME NEW c \in Connections,
             NextChunk(c) \/ SessionStop(c) \/ IngestEnds(c) \/ DrainTimeout(c)
             \/ Leave(c) \/ ReleaseSession(c)
      PROVE  IInv'
  BY <1>1, NextChunkKeeps, SessionStopKeeps, IngestEndsKeeps, DrainTimeoutKeeps,
     LeaveKeeps, ReleaseSessionKeeps
<1>2. ASSUME NEW k \in Callers,
             Acquire(k) \/ WriteRequest(k) \/ ReadResponse(k) \/ Return(k)
      PROVE  IInv'
  BY <1>2, AcquireKeeps, WriteRequestKeeps, ReadResponseKeeps, ReturnKeeps
<1>3. CASE WorkerAnswers
  BY <1>3, WorkerAnswersKeeps
<1>4. CASE Closed
  BY <1>4, StutterKeeps DEF Closed
<1>5. CASE UNCHANGED vars
  BY <1>5, StutterKeeps
<1>6. QED
  BY <1>1, <1>2, <1>3, <1>4, <1>5 DEF Next

THEOREM Invariance == Spec => []IInv
<1>1. QED
  BY InitHolds, StepKeeps, PTL DEF Spec

\* The callers, the lock and the pipe keep their types, and the line of the lock
\* holds each caller that waits, once, and nobody else.
THEOREM TypeCorrect == Spec => []TypeOK
<1>1. IInv => TypeOK
  <2> SUFFICES ASSUME IInv PROVE TypeOK
    OBVIOUS
  <2>1. \A i \in 1 .. Len(lock_queue) : lock_queue[i] \in Callers
    BY ElementOfSeq DEF IInv, ScalarsOK
  <2>2. {lock_queue[i] : i \in 1 .. Len(lock_queue)} = {k \in Callers : Waits(k)}
    BY <2>1 DEF IInv, LineOK, LineWaits, WaitsInLine
  <2>3. QED
    BY <2>2 DEF IInv, ScalarsOK, LineOK, LineOnce, TypeOK
<1>2. QED
  BY <1>1, Invariance, PTL

\* The shield around an RPC, with the lock kept until it completes, lets the
\* worker serve one thread at a time and every answer reach its own request, for
\* any number of connections and chunks and in whatever order clients leave, as
\* long as no caller is interrupted twice.
THEOREM OneCall == Spec => []OneCallAtATime
<1>1. IInv => OneCallAtATime
  <2> SUFFICES ASSUME IInv, abandoned = {}
               PROVE  /\ OwnAnswer
                      /\ \A k \in Callers : thread[k] # "none" => lock_owner = k /\ Awaits(k)
                      /\ failure = "none" => Len(requests) + Len(responses) =< 1
    BY DEF OneCallAtATime
  <2>1. OneThread /\ OwnLine /\ ScalarsOK
    BY DEF IInv, Exclusive
  <2>2. OwnAnswer
    BY <2>1 DEF OwnAnswer, OwnLine, ScalarsOK
  <2>3. \A k \in Callers : thread[k] # "none" => lock_owner = k /\ Awaits(k)
    BY <2>1 DEF OneThread
  <2>4. ASSUME failure = "none" PROVE Len(requests) + Len(responses) =< 1
    <3>1. CASE \A k \in Callers : thread[k] = "none"
      BY <2>1, <2>4, <3>1, EmptySeq DEF OwnLine
    <3>2. CASE \E k \in Callers : thread[k] \in {"reading", "failed"}
      BY <2>1, <3>2 DEF OwnLine
    <3>3. CASE \E k \in Callers : thread[k] \in {"writing", "answered"}
      BY <2>1, <3>3, EmptySeq DEF OwnLine
    <3>4. \A k \in Callers :
            thread[k] \in {"none", "writing", "reading", "answered", "failed"}
      BY <2>1 DEF ScalarsOK
    <3>5. QED
      BY <3>1, <3>2, <3>3, <3>4
  <2>5. QED
    BY <2>2, <2>3, <2>4
<1>2. QED
  BY <1>1, Invariance, PTL

CallsWhenHealthy ==
  \A k \in Callers : thread[k] = "none" /\ thread'[k] # "none" => failure = "none"

\* No request is sent to the worker once a call has failed, because the health
\* of the runtime is checked again behind the lock.
THEOREM NoCallOnceFailed == Spec => NoCallAfterFailure
<1>1. IInv /\ [Next]_vars => [CallsWhenHealthy]_vars
  <2> SUFFICES ASSUME IInv, Next, NEW k \in Callers,
                      thread[k] = "none", thread'[k] # "none"
               PROVE  failure = "none"
    BY DEF CallsWhenHealthy
  <2>1. thread \in [Callers -> {"none", "writing", "reading", "answered", "failed"}]
    BY DEF IInv, ScalarsOK
  <2>2. ASSUME UNCHANGED thread PROVE FALSE
    BY <2>2
  <2>3. ASSUME NEW c \in Connections,
               NextChunk(c) \/ SessionStop(c) \/ IngestEnds(c) \/ DrainTimeout(c)
               \/ Leave(c) \/ ReleaseSession(c)
        PROVE  UNCHANGED thread
    BY <2>3 DEF NextChunk, SessionStop, IngestEnds, DrainTimeout, Leave,
                ReleaseSession, pipeVars
  <2>4. ASSUME NEW m \in Callers, Acquire(m)
        PROVE  failure = "none"
    BY <2>2, <2>4 DEF Acquire, Healthy
  <2>5. ASSUME NEW m \in Callers, WriteRequest(m) \/ ReadResponse(m) \/ Return(m)
        PROVE  FALSE
    <3>1. thread[m] # "none" /\ \E p : thread' = [thread EXCEPT ![m] = p]
      BY <2>5 DEF WriteRequest, ReadResponse, Return
    <3>2. thread'[k] = thread[k]
      BY <2>1, <3>1
    <3>3. QED
      BY <3>2
  <2>6. CASE WorkerAnswers \/ Closed
    BY <2>2, <2>6 DEF WorkerAnswers, Closed, vars
  <2>7. QED
    BY <2>2, <2>3, <2>4, <2>5, <2>6 DEF Next
<1>2. Spec => [][CallsWhenHealthy]_vars
  BY <1>1, Invariance, PTL DEF Spec
<1>3. QED
  BY <1>2 DEF NoCallAfterFailure, CallsWhenHealthy
==============================================================================
