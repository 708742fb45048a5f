------------------------- MODULE Computations_proofs -------------------------
(***************************************************************************)
(* Proofs about the computations, for all their constants and for inputs   *)
(* of any length.                                                          *)
(***************************************************************************)
EXTENDS MCComputations, CollectionLemmas

-----------------------------------------------------------------------------
\* The batch of the ASR model: the inductive invariant.

Codes == {"generation_token_cap", "empty_transcript", "context_echo",
          "text_rate_exceeded", "committed", "asr_failed"}
Outputs == Batch!Output \cup {<< >>}

\* The verdict on one job, from its own output.
Judged(job, code, output) ==
  /\ (code = "asr_failed") = ~job.sound
  /\ job.sound => output \in Batch!Output /\ code = Batch!FailureCode(output, job.seconds)

\* Each verdict so far is that of the job at its place; jobs are only tried alone once
\* the call for all of them has given no verdict.
BatchOK ==
  /\ asr_jobs \in Seq(Batch!Job) /\ asr_jobs # << >>
  /\ verdicts \in Seq(Codes) /\ outputs \in Seq(Outputs)
  /\ Len(outputs) = Len(verdicts)
  /\ Len(verdicts) =< Len(asr_jobs)
  /\ returned = "none" => Len(verdicts) < Len(asr_jobs)
  /\ returned = "none" /\ ~alone => verdicts = << >>
  /\ \A i \in 1 .. Len(verdicts) : Judged(asr_jobs[i], verdicts[i], outputs[i])

LEMMA CodeOfOutput ==
  ASSUME NEW output \in Batch!Output, NEW seconds
  PROVE  /\ Batch!FailureCode(output, seconds) \in Codes \ {"asr_failed"}
         /\ output.finish = "stop" /\ ~output.blank
              /\ output.letters < CONTEXT_ECHO_MIN_CHARS
              => Batch!FailureCode(output, seconds) = "committed"
<1>1. output.blank \in BOOLEAN /\ output.finish \in {"stop", "length"}
  BY DEF Batch!Output
<1>2. QED
  BY <1>1 DEF Batch!FailureCode, Codes

\* The jobs of a call are those after the verdicts so far.
LEMMA CalledNext ==
  ASSUME BatchOK, returned = "none"
  PROVE  /\ Batch!Called \in Seq(Batch!Job) /\ Len(Batch!Called) \in Nat \ {0}
         /\ Len(verdicts) + Len(Batch!Called) =< Len(asr_jobs)
         /\ \A i \in 1 .. Len(Batch!Called) : Batch!Called[i] = asr_jobs[Len(verdicts) + i]
         /\ ~alone => Len(verdicts) + Len(Batch!Called) = Len(asr_jobs)
         /\ Len(Batch!Called) > 1 => ~alone
<1>1. Len(asr_jobs) \in Nat \ {0} /\ Len(verdicts) \in Nat
  BY EmptySeq, LenProperties DEF BatchOK
<1>2. CASE alone
  <2> DEFINE n == Len(verdicts) + 1
  <2>1. n \in 1 .. Len(asr_jobs)
    BY <1>1 DEF BatchOK
  <2>2. asr_jobs[n] \in Batch!Job
    BY <2>1 DEF BatchOK
  <2>3. Batch!Called = <<asr_jobs[n]>>
    BY <1>2 DEF Batch!Called
  <2> HIDE DEF n
  <2>4. <<asr_jobs[n]>> \in Seq(Batch!Job) /\ Len(<<asr_jobs[n]>>) = 1
        /\ <<asr_jobs[n]>>[1] = asr_jobs[n]
    BY <2>2
  <2>5. \A i \in 1 .. 1 : i = 1
    OBVIOUS
  <2>6. QED
    BY <1>1, <1>2, <2>1, <2>3, <2>4, <2>5 DEF n
<1>3. CASE ~alone
  <2>1. Batch!Called = asr_jobs /\ Len(verdicts) = 0 /\ asr_jobs \in Seq(Batch!Job)
    BY <1>3 DEF Batch!Called, BatchOK
  <2>2. QED
    BY <1>1, <1>3, <2>1
<1>4. QED
  BY <1>2, <1>3

\* Verdicts on the jobs of a call are put behind those there are.
LEMMA MoreVerdicts ==
  ASSUME BatchOK, returned = "none", UNCHANGED <<asr_jobs, alone>>,
         NEW codes \in Seq(Codes), NEW made \in Seq(Outputs),
         Len(codes) = Len(Batch!Called), Len(made) = Len(Batch!Called),
         \A i \in 1 .. Len(Batch!Called) : Judged(Batch!Called[i], codes[i], made[i]),
         Batch!Returned(codes), outputs' = outputs \o made
  PROVE  BatchOK'
<1> DEFINE b == Len(verdicts)
           n == Len(Batch!Called)
<1>1. /\ b \in Nat /\ n \in Nat \ {0} /\ b + n =< Len(asr_jobs) /\ Len(asr_jobs) \in Nat
      /\ ~alone => b + n = Len(asr_jobs)
      /\ \A i \in 1 .. n : Batch!Called[i] = asr_jobs[b + i]
  BY CalledNext, LenProperties DEF BatchOK
<1>2. /\ verdicts \in Seq(Codes) /\ outputs \in Seq(Outputs) /\ Len(outputs) = b
      /\ \A i \in 1 .. b : Judged(asr_jobs[i], verdicts[i], outputs[i])
  BY DEF BatchOK
<1>3. /\ verdicts' = verdicts \o codes
      /\ returned' = IF Len(verdicts') = Len(asr_jobs) THEN "results" ELSE "none"
  BY DEF Batch!Returned
<1> HIDE DEF b, n
<1>4. /\ Len(codes) = n /\ Len(made) = n
      /\ \A i \in 1 .. n : Judged(asr_jobs[b + i], codes[i], made[i])
  BY <1>1 DEF n
<1>5. /\ verdicts' \in Seq(Codes) /\ Len(verdicts') = b + n
      /\ \A i \in 1 .. b + n :
           verdicts'[i] = IF i =< b THEN verdicts[i] ELSE codes[i - b]
  <2>1. Len(verdicts) = b
    BY DEF b
  <2>2. QED
    BY <1>2, <1>3, <1>4, <2>1, ConcatProperties
<1>6. /\ outputs' \in Seq(Outputs) /\ Len(outputs') = b + n
      /\ \A i \in 1 .. b + n :
           outputs'[i] = IF i =< b THEN outputs[i] ELSE made[i - b]
  <2>1. Len(outputs) = b /\ outputs \in Seq(Outputs) /\ outputs' = outputs \o made
    BY <1>2
  <2>2. made \in Seq(Outputs) /\ Len(made) = n
    BY <1>4
  <2>3. QED
    BY ONLY <2>1, <2>2, ConcatProperties
<1>7. ASSUME NEW i \in 1 .. b + n PROVE Judged(asr_jobs[i], verdicts'[i], outputs'[i])
  <2>1. CASE i =< b
    <3>1. i \in 1 .. b /\ verdicts'[i] = verdicts[i] /\ outputs'[i] = outputs[i]
      BY <1>1, <1>5, <1>6, <2>1
    <3>2. QED
      BY <1>2, <3>1
  <2>2. CASE ~(i =< b)
    <3>1. i - b \in 1 .. n /\ b + (i - b) = i
      BY <1>1, <2>2
    <3>2. verdicts'[i] = codes[i - b] /\ outputs'[i] = made[i - b]
      BY <1>5, <1>6, <2>2
    <3>3. Judged(asr_jobs[b + (i - b)], codes[i - b], made[i - b])
      BY <1>4, <3>1
    <3>4. QED
      BY <3>1, <3>2, <3>3
  <2>3. QED
    BY <2>1, <2>2
<1>8. \A i \in 1 .. Len(verdicts') : Judged(asr_jobs'[i], verdicts'[i], outputs'[i])
  BY <1>5, <1>7
<1>9. asr_jobs' \in Seq(Batch!Job) /\ asr_jobs' # << >>
  BY DEF BatchOK
<1>10. returned' = "none" => b + n # Len(asr_jobs)
  BY <1>3, <1>5
<1>11. returned' = "none" => b + n < Len(asr_jobs) /\ alone'
  BY <1>1, <1>10
<1>12. /\ Len(outputs') = Len(verdicts') /\ Len(verdicts') =< Len(asr_jobs')
       /\ returned' = "none" => Len(verdicts') < Len(asr_jobs')
       /\ returned' = "none" /\ ~alone' => verdicts' = << >>
  BY <1>1, <1>5, <1>6, <1>11
<1>13. QED
  BY <1>5, <1>6, <1>8, <1>9, <1>12 DEF BatchOK

LEMMA TranscribedKeeps ==
  ASSUME BatchOK, Batch!Transcribed
  PROVE  BatchOK'
<1> DEFINE n == Len(Batch!Called)
<1>1. /\ returned = "none" /\ UNCHANGED <<asr_jobs, alone>>
      /\ \A i \in DOMAIN Batch!Called : Batch!Called[i].sound
  BY DEF Batch!Transcribed
<1>2. Batch!Called \in Seq(Batch!Job) /\ n \in Nat /\ DOMAIN Batch!Called = 1 .. n
  BY <1>1, CalledNext, LenProperties
<1>3. PICK made \in [DOMAIN Batch!Called -> Batch!Output] :
        /\ generations' = Batch!Cleared \o Batch!Finishes(made)
        /\ outputs' = outputs \o made
        /\ Batch!Returned(
             IF Len(generations') = Len(Batch!Called)
             THEN [i \in DOMAIN Batch!Called |->
                     Batch!FailureCode([made[i] EXCEPT !.finish = generations'[i]],
                                       Batch!Called[i].seconds)]
             ELSE [i \in DOMAIN Batch!Called |-> "asr_result_mismatch"])
  BY DEF Batch!Transcribed
<1> HIDE DEF n
<1>4. /\ made \in Seq(Batch!Output) /\ made \in Seq(Outputs) /\ Len(made) = n
      /\ \A i \in 1 .. n : made[i] \in Batch!Output
  BY <1>2 DEF Outputs
<1>5. Len(generations') = n /\ \A i \in 1 .. n : generations'[i] = made[i].finish
  <2> DEFINE f == Batch!Finishes(made)
  <2>1. f = [i \in 1 .. n |-> made[i].finish]
    BY <1>2 DEF Batch!Finishes
  <2>2. f \in Seq({"stop", "length"}) /\ Len(f) = n
    <3>1. \A i \in 1 .. n : made[i].finish \in {"stop", "length"}
      BY <1>4 DEF Batch!Output
    <3>2. QED
      BY <1>2, <2>1, <3>1
  <2>3. generations' = f
    <3> HIDE DEF f
    <3>1. << >> \o f = f
      BY <2>2, ConcatEmptySeq
    <3>2. QED
      BY <1>3, <3>1 DEF Batch!Cleared, f
  <2>4. QED
    BY <2>1, <2>2, <2>3
<1> DEFINE codes == [i \in 1 .. n |-> Batch!FailureCode(made[i], Batch!Called[i].seconds)]
<1>6. \A i \in 1 .. n : [made[i] EXCEPT !.finish = generations'[i]] = made[i]
  BY <1>4, <1>5 DEF Batch!Output
<1>7. Batch!Returned(codes)
  <2>1. Len(generations') = Len(Batch!Called)
    BY <1>5 DEF n
  <2>2. [i \in DOMAIN Batch!Called |->
           Batch!FailureCode([made[i] EXCEPT !.finish = generations'[i]],
                             Batch!Called[i].seconds)] = codes
    BY <1>2, <1>6
  <2> HIDE DEF codes
  <2>3. QED
    BY <1>3, <2>1, <2>2
<1>8. \A i \in 1 .. n :
        /\ codes[i] = Batch!FailureCode(made[i], Batch!Called[i].seconds)
        /\ codes[i] \in Codes \ {"asr_failed"}
  BY <1>4, CodeOfOutput
<1>9. codes \in Seq(Codes) /\ Len(codes) = n
  BY <1>2, <1>8
<1> HIDE DEF codes
<1>10. \A i \in 1 .. n : Judged(Batch!Called[i], codes[i], made[i])
  <2>1. \A i \in 1 .. n : Batch!Called[i].sound = TRUE
    BY <1>1, <1>2 DEF Batch!Job
  <2>2. QED
    BY <1>4, <1>8, <2>1 DEF Judged
<1>11. QED
  BY <1>1, <1>3, <1>4, <1>7, <1>9, <1>10, MoreVerdicts DEF n

LEMMA RefusedKeeps ==
  ASSUME BatchOK, Batch!Refused
  PROVE  BatchOK'
<1>1. returned = "none" /\ UNCHANGED asr_jobs /\ \E i \in DOMAIN Batch!Called : ~Batch!Called[i].sound
  BY DEF Batch!Refused
<1>2. /\ Batch!Called \in Seq(Batch!Job) /\ Len(Batch!Called) \in Nat \ {0}
      /\ DOMAIN Batch!Called = 1 .. Len(Batch!Called)
  BY <1>1, CalledNext, LenProperties
<1>3. CASE Len(Batch!Called) > 1
  <2>1. alone' = TRUE /\ UNCHANGED <<outputs, verdicts, returned>>
    BY <1>3 DEF Batch!Refused
  <2>2. QED
    BY <1>1, <2>1 DEF BatchOK
<1>4. CASE ~(Len(Batch!Called) > 1)
  <2>1. Len(Batch!Called) = 1 /\ Batch!Called[1] \in Batch!Job /\ ~Batch!Called[1].sound
    BY <1>1, <1>2, <1>4
  <2>2. Batch!Returned(<<"asr_failed">>) /\ outputs' = Append(outputs, << >>) /\ UNCHANGED alone
    BY <1>4 DEF Batch!Refused
  <2> DEFINE codes == <<"asr_failed">>
             made == << << >> >>
  <2>3. codes \in Seq(Codes) /\ Len(codes) = 1 /\ codes[1] = "asr_failed"
    BY DEF Codes
  <2>4. made \in Seq(Outputs) /\ Len(made) = 1
    BY DEF Outputs
  <2>5. outputs' = outputs \o made
    <3>1. << >> \in Outputs /\ outputs \in Seq(Outputs)
      BY DEF Outputs, BatchOK
    <3>2. QED
      BY <2>2, <3>1, AppendIsConcat
  <2> HIDE DEF made
  <2>6. Judged(Batch!Called[1], codes[1], made[1])
    BY <2>1, <2>3 DEF Judged, Batch!Job
  <2> HIDE DEF codes
  <2>7. Batch!Returned(codes)
    BY <2>2 DEF codes
  <2>8. \A i \in 1 .. Len(Batch!Called) : Judged(Batch!Called[i], codes[i], made[i])
    <3>1. \A i \in 1 .. 1 : i = 1
      OBVIOUS
    <3>2. QED
      BY <2>1, <2>6, <3>1
  <2>9. QED
    BY <1>1, <2>1, <2>2, <2>3, <2>4, <2>5, <2>7, <2>8, MoreVerdicts
<1>5. QED
  BY <1>3, <1>4

LEMMA BatchInit == Batch!Init => BatchOK
<1> SUFFICES ASSUME Batch!Init PROVE BatchOK
  OBVIOUS
<1>1. PICK n \in 1 .. BATCH_SIZE : asr_jobs \in [1 .. n -> Batch!Job]
  BY DEF Batch!Init
<1>2. n \in Nat \ {0}
  OBVIOUS
<1>3. asr_jobs \in Seq(Batch!Job) /\ Len(asr_jobs) = n
  BY <1>1, <1>2
<1>4. verdicts = << >> /\ outputs = << >> /\ Len(verdicts) = 0
  BY DEF Batch!Init
<1>5. QED
  BY <1>2, <1>3, <1>4 DEF BatchOK

LEMMA BatchNext == BatchOK /\ (Batch!Next \/ UNCHANGED batchVars) => BatchOK'
<1> SUFFICES ASSUME BatchOK, Batch!Next \/ UNCHANGED batchVars PROVE BatchOK'
  OBVIOUS
<1>1. CASE UNCHANGED batchVars
  BY <1>1 DEF batchVars, BatchOK
<1>2. CASE Batch!Raises
  BY <1>2 DEF Batch!Raises, BatchOK
<1>3. QED
  BY <1>1, <1>2, TranscribedKeeps, RefusedKeeps DEF Batch!Next

\* A step of the computations is a step of the batch, or leaves it.
LEMMA StepOfBatch ==
  ASSUME [Next]_vars
  PROVE  Batch!Next \/ UNCHANGED batchVars
BY DEF Next, vars, AssignmentStep, AttributionStep, ContextStep, TranscriptsStep, BatchStep

THEOREM BatchAlwaysJudged == Spec => []BatchOK
<1>1. Init => BatchOK
  BY BatchInit DEF Init
<1>2. BatchOK /\ [Next]_vars => BatchOK'
  BY StepOfBatch, BatchNext
<1>3. QED
  BY <1>1, <1>2, PTL DEF Spec

\* For batches of any size and all limits of the texts: a sound segment is judged by
\* its own output alone, whatever else is in the batch and however often the model
\* was called (_transcribe, _failure_code).
THEOREM AlwaysJudgedAlone == Spec => []JudgedAlone
<1>1. BatchOK => JudgedAlone
  <2> SUFFICES ASSUME BatchOK PROVE Batch!JudgedAlone
    BY DEF JudgedAlone
  <2>1. DOMAIN verdicts = 1 .. Len(verdicts)
    BY LenProperties DEF BatchOK
  <2>2. \A i \in 1 .. Len(verdicts) : Judged(asr_jobs[i], verdicts[i], outputs[i])
    BY DEF BatchOK
  <2>3. QED
    BY <2>1, <2>2, CodeOfOutput DEF Judged, Batch!JudgedAlone
<1>2. QED
  BY <1>1, BatchAlwaysJudged, PTL

-----------------------------------------------------------------------------
\* The sources of the document: the members of a sequence that are in a set.

\* a is in s before b is there for the first time.
Precedes(s, a, b) == \E n \in 1 .. Len(s) : s[n] = a /\ \A p \in 1 .. n : s[p] # b

\* g holds those of each beginning of the sequence.
AreAccepted(g, seq, set) ==
  g = [n \in 0 .. Len(seq) |->
         IF n = 0 THEN << >>
         ELSE IF seq[n] \in set /\ ~Context!Contains(g[n - 1], seq[n])
         THEN Append(g[n - 1], seq[n])
         ELSE g[n - 1]]

\* There is such a g.
LEMMA AcceptedExist ==
  ASSUME NEW S, NEW seq \in Seq(S), NEW set
  PROVE  \E g \in [0 .. Len(seq) -> Seq(S)] : AreAccepted(g, seq, set)
<1> DEFINE m == Len(seq)
           V == Seq(S)
           Value(kept, n) == IF seq[n] \in set /\ ~Context!Contains(kept, seq[n])
                             THEN Append(kept, seq[n]) ELSE kept
           step == [x \in V \X (1 .. m) |-> Value(x[1], x[2])]
<1>1. m \in Nat /\ \A n \in 1 .. m : seq[n] \in S
  BY LenProperties, ElementOfSeq
<1>2. ASSUME NEW kept \in V, NEW n \in 1 .. m PROVE Value(kept, n) \in V
  BY <1>1, AppendProperties
<1>3. step \in [V \X (1 .. m) -> V] /\ << >> \in V
  BY <1>2
<1> HIDE DEF V, m
<1>4. \A kept \in V, n \in 1 .. m : step[<<kept, n>>] = Value(kept, n)
  <2>1. ASSUME NEW kept \in V, NEW n \in 1 .. m PROVE step[<<kept, n>>] = Value(kept, n)
    <3> DEFINE x == <<kept, n>>
    <3>1. x \in V \X (1 .. m) /\ x[1] = kept /\ x[2] = n
      OBVIOUS
    <3> HIDE DEF x, Value
    <3>2. step[x] = Value(x[1], x[2])
      BY <3>1
    <3>3. QED
      BY <3>1, <3>2 DEF x
  <2> HIDE DEF step, Value
  <2>2. QED
    BY <2>1
<1> HIDE DEF step
<1>5. PICK f : IsRecursion(f, m, V, << >>, step)
  <2> DEFINE base == << >>
  <2>1. m \in Nat /\ base \in V /\ IsStep(step, m, V)
    BY <1>1, <1>3 DEF IsStep
  <2> HIDE DEF base
  <2>2. \E f : IsRecursion(f, m, V, base, step)
    BY ONLY <2>1, RecursionExists
  <2>3. QED
    BY <2>2 DEF base
<1>6. ASSUME NEW n \in 0 .. m
      PROVE  f[n] = IF n = 0 THEN << >> ELSE Value(f[n - 1], n)
  <2>1. CASE n = 0
    BY <1>5, <2>1 DEF IsRecursion
  <2>2. CASE n # 0
    <3>1. n \in 1 .. m /\ n - 1 \in 0 .. m
      BY <1>1, <2>2
    <3>2. f[n] = step[<<f[n - 1], n>>] /\ f[n - 1] \in V
      BY <1>5, <3>1 DEF IsRecursion
    <3> HIDE DEF Value
    <3>3. QED
      BY <1>4, <2>2, <3>1, <3>2
  <2>3. QED
    BY <2>1, <2>2
<1>7. f = [n \in 0 .. m |-> IF n = 0 THEN << >> ELSE Value(f[n - 1], n)]
  <2>1. f = [n \in 0 .. m |-> f[n]]
    BY <1>5 DEF IsRecursion
  <2> HIDE DEF Value
  <2>2. QED
    BY <1>6, <2>1
<1>8. AreAccepted(f, seq, set)
  BY <1>7 DEF AreAccepted, m
<1>9. QED
  BY <1>5, <1>8 DEF IsRecursion, m, V

\* k holds the members of the first n elements that are in the set, each once and
\* in their order.
Admitted(k, seq, set, n) ==
  /\ \A j \in 1 .. Len(k) : k[j] \in set /\ \E p \in 1 .. n : seq[p] = k[j]
  /\ \A p \in 1 .. n : seq[p] \in set => \E j \in 1 .. Len(k) : k[j] = seq[p]
  /\ \A j \in 1 .. Len(k) : \A i \in 1 .. j - 1 : Precedes(seq, k[i], k[j])

\* One more element of the sequence.
LEMMA OneMoreAdmitted ==
  ASSUME NEW S, NEW seq \in Seq(S), NEW set, NEW n \in Nat, n + 1 =< Len(seq),
         NEW k \in Seq(S), Admitted(k, seq, set, n)
  PROVE  LET r == IF seq[n + 1] \in set /\ ~Context!Contains(k, seq[n + 1])
                  THEN Append(k, seq[n + 1]) ELSE k
         IN Admitted(r, seq, set, n + 1)
<1> DEFINE e == seq[n + 1]
<1>1. Len(seq) \in Nat /\ Len(k) \in Nat /\ e \in S
  BY LenProperties, ElementOfSeq
<1>2. /\ n + 1 \in 1 .. n + 1 /\ \A p \in 1 .. n + 1 : p \in 1 .. n \/ p = n + 1
      /\ \A p \in 1 .. n : p \in 1 .. n + 1
  OBVIOUS
<1>3. CASE ~(e \in set /\ ~Context!Contains(k, e))
  <2>1. e \in set => \E j \in 1 .. Len(k) : k[j] = e
    BY <1>3 DEF Context!Contains
  <2>2. Admitted(k, seq, set, n + 1)
    BY <1>2, <2>1 DEF Admitted
  <2>3. QED
    BY <1>3, <2>2
<1>4. CASE e \in set /\ ~Context!Contains(k, e)
  <2> DEFINE r == Append(k, e)
             len == Len(k)
  <2>1. /\ Len(r) = len + 1 /\ r[len + 1] = e
        /\ \A i \in 1 .. len : r[i] = k[i]
    BY <1>1, AppendProperties
  <2>2. /\ len + 1 \in 1 .. len + 1
        /\ \A i \in 1 .. len + 1 : i \in 1 .. len \/ i = len + 1
        /\ \A i \in 1 .. len : i \in 1 .. len + 1
        /\ (len + 1) - 1 = len
        /\ \A j \in 1 .. len : \A i \in 1 .. j - 1 : i \in 1 .. len
    BY <1>1
  <2>3. \A i \in 1 .. len : k[i] # e
    BY <1>4 DEF Context!Contains
  <2>4. /\ \A j \in 1 .. len : k[j] \in set /\ \E p \in 1 .. n : seq[p] = k[j]
        /\ \A p \in 1 .. n : seq[p] \in set => \E j \in 1 .. len : k[j] = seq[p]
        /\ \A j \in 1 .. len : \A i \in 1 .. j - 1 : Precedes(seq, k[i], k[j])
    BY DEF Admitted
  <2> HIDE DEF r, len, e
  <2>5. ASSUME NEW j \in 1 .. len + 1
        PROVE  r[j] \in set /\ \E p \in 1 .. n + 1 : seq[p] = r[j]
    <3>1. CASE j \in 1 .. len
      BY <1>2, <2>1, <2>4, <3>1
    <3>2. CASE j = len + 1
      BY <1>2, <1>4, <2>1, <3>2 DEF e
    <3>3. QED
      BY <2>2, <3>1, <3>2
  <2>6. ASSUME NEW p \in 1 .. n + 1, seq[p] \in set
        PROVE  \E j \in 1 .. len + 1 : r[j] = seq[p]
    <3>1. CASE p \in 1 .. n
      <4>1. PICK j \in 1 .. len : k[j] = seq[p]
        BY <2>4, <2>6, <3>1
      <4>2. j \in 1 .. len + 1 /\ r[j] = seq[p]
        BY <2>1, <2>2, <4>1
      <4>3. QED
        BY <4>2
    <3>2. CASE p = n + 1
      BY <2>1, <2>2, <3>2 DEF e
    <3>3. QED
      BY <1>2, <3>1, <3>2
  <2>7. ASSUME NEW j \in 1 .. len + 1, NEW i \in 1 .. j - 1
        PROVE  Precedes(seq, r[i], r[j])
    <3>1. CASE j \in 1 .. len
      <4>1. i \in 1 .. len /\ r[i] = k[i] /\ r[j] = k[j]
        BY <2>1, <2>2, <3>1
      <4>2. QED
        BY <2>4, <3>1, <4>1
    <3>2. CASE j = len + 1
      <4>1. i \in 1 .. len /\ r[i] = k[i] /\ r[j] = e
        BY <2>1, <2>2, <3>2
      <4>2. PICK q \in 1 .. n : seq[q] = k[i]
        BY <2>4, <4>1
      <4>3. ASSUME NEW p \in 1 .. q PROVE seq[p] # e
        <5>1. p \in 1 .. n
          OBVIOUS
        <5>2. QED
          BY <1>4, <2>3, <2>4, <5>1
      <4>4. q \in 1 .. Len(seq)
        BY <1>1
      <4>5. QED
        BY <4>1, <4>2, <4>3, <4>4 DEF Precedes
    <3>3. QED
      BY <2>2, <3>1, <3>2
  <2>8. Admitted(r, seq, set, n + 1)
    BY <2>1, <2>5, <2>6, <2>7 DEF Admitted
  <2>9. QED
    BY <1>4, <2>8 DEF r, e
<1>5. QED
  BY <1>3, <1>4

\* What Accepted returns.
LEMMA AcceptedAdmitted ==
  ASSUME NEW S, NEW seq \in Seq(S), NEW set
  PROVE  /\ Context!Accepted(seq, set) \in Seq(S)
         /\ Admitted(Context!Accepted(seq, set), seq, set, Len(seq))
<1> DEFINE g == CHOOSE g : AreAccepted(g, seq, set)
           len == Len(seq)
           N == {n \in 0 .. len : g[n] \in Seq(S) /\ Admitted(g[n], seq, set, n)}
<1>1. AreAccepted(g, seq, set)
  BY AcceptedExist
<1>2. Context!Accepted(seq, set) = g[len]
  BY DEF Context!Accepted, AreAccepted
<1>3. len \in Nat
  BY LenProperties
<1>4. \A n \in 0 .. len :
        g[n] = IF n = 0 THEN << >>
               ELSE IF seq[n] \in set /\ ~Context!Contains(g[n - 1], seq[n])
               THEN Append(g[n - 1], seq[n])
               ELSE g[n - 1]
  BY <1>1 DEF AreAccepted
<1> HIDE DEF g, len
<1>5. 0 \in N
  <2>1. 0 \in 0 .. len /\ g[0] = << >>
    BY <1>3, <1>4
  <2>2. << >> \in Seq(S) /\ Len(<< >>) = 0
    BY EmptySeq
  <2>3. Admitted(<< >>, seq, set, 0)
    BY <2>2 DEF Admitted
  <2>4. QED
    BY <2>1, <2>2, <2>3
<1>6. ASSUME NEW n \in 0 .. len - 1, n \in N PROVE n + 1 \in N
  <2>1. n + 1 \in 0 .. len /\ n + 1 # 0 /\ (n + 1) - 1 = n /\ n \in Nat /\ n + 1 \in 1 .. len
    BY <1>3
  <2> DEFINE k == g[n]
             r == IF seq[n + 1] \in set /\ ~Context!Contains(k, seq[n + 1])
                  THEN Append(k, seq[n + 1]) ELSE k
  <2>2. k \in Seq(S) /\ Admitted(k, seq, set, n)
    BY <1>6
  <2>3. g[n + 1] = r
    BY <1>4, <2>1
  <2> HIDE DEF k
  <2>4. r \in Seq(S)
    <3>1. seq[n + 1] \in S
      BY <2>1, ElementOfSeq DEF len
    <3>2. QED
      BY <2>2, <3>1, AppendProperties
  <2>5. Admitted(r, seq, set, n + 1)
    <3>1. n + 1 =< Len(seq)
      BY <2>1 DEF len
    <3>2. QED
      BY <2>1, <2>2, <3>1, OneMoreAdmitted
  <2> HIDE DEF r
  <2>6. QED
    BY <2>1, <2>3, <2>4, <2>5
<1> HIDE DEF N
<1>7. len \in N
  <2>1. \A n \in 0 .. len : n \in N
    BY <1>3, <1>5, <1>6, UpToInduction
  <2>2. QED
    BY <1>3, <2>1
<1>8. g[len] \in Seq(S) /\ Admitted(g[len], seq, set, len)
  BY <1>7 DEF N
<1>9. QED
  BY <1>2, <1>8 DEF len

-----------------------------------------------------------------------------
\* The sources of the document: the inductive invariant.

\* All of s were listed and selected.
Sourced(s) ==
  \A j \in 1 .. Len(s) : s[j] \in candidates /\ Context!Contains(selection, s[j])

\* a is selected before b is for the first time.
Earlier(a, b) == Precedes(selection, a, b)

\* The elements of s are in the order of the selection.
Ordered(s) == \A j \in 1 .. Len(s) : \A i \in 1 .. j - 1 : Earlier(s[i], s[j])

\* Those of s come before those of t.
AllEarlier(s, t) == \A i \in 1 .. Len(s), j \in 1 .. Len(t) : Earlier(s[i], t[j])

CandidatesListed ==
  \A m \in candidates : m \in Meetings /\ m # Current /\ <<m, "COMPLETED">> \in listed

ContextTypes ==
  /\ at \in {"list", "select", "read", "write", "returned", "failed"}
  /\ selection \in Seq(Meetings)
  /\ meeting_ids \in Seq(Meetings) /\ summaries \in Seq(Meetings)

\* What has been read goes before what is still to be read, and nothing is selected
\* while there may still be candidates to come.
ContextOK ==
  /\ ContextTypes /\ CandidatesListed
  /\ at \in {"list", "select"} => meeting_ids = << >> /\ summaries = << >>
  /\ at = "read" => meeting_ids # << >>
  /\ Sourced(summaries) /\ Sourced(meeting_ids)
  /\ Ordered(summaries) /\ Ordered(meeting_ids) /\ AllEarlier(summaries, meeting_ids)
  /\ at # "returned" => written = << >>
  /\ written # << >> => has_info \/ summaries # << >>

LEMMA NoneSourced ==
  /\ Sourced(<< >>) /\ Ordered(<< >>)
  /\ \A t : AllEarlier(<< >>, t) /\ AllEarlier(t, << >>)
<1>1. Len(<< >>) = 0
  BY EmptySeq
<1>2. QED
  BY <1>1 DEF Sourced, Ordered, AllEarlier

LEMMA ContextInit == Context!Init => ContextOK
<1> SUFFICES ASSUME Context!Init PROVE ContextOK
  OBVIOUS
<1>1. /\ at \in {"list", "write"} /\ candidates = {} /\ selection = << >>
      /\ meeting_ids = << >> /\ summaries = << >> /\ written = << >>
  BY DEF Context!Init
<1>2. ContextTypes
  BY <1>1, EmptySeq DEF ContextTypes
<1>3. QED
  BY <1>1, <1>2, NoneSourced DEF ContextOK, CandidatesListed

\* More pages: only the candidates grow.
LEMMA ListPageKeeps ==
  ASSUME ContextOK, Context!ListPage
  PROVE  ContextOK'
<1>1. /\ at = "list" /\ at' \in {"list", "write", "select"}
      /\ UNCHANGED <<has_info, selection, meeting_ids, summaries, written>>
  BY DEF Context!ListPage
<1>2. ContextTypes'
  BY <1>1 DEF ContextOK, ContextTypes
<1>3. CandidatesListed'
  <2>1. PICK page \in SUBSET (Meetings \X {"COMPLETED", "IN_PROGRESS"}) :
          /\ listed' = listed \cup page
          /\ candidates' = candidates \cup
               {m \in Meetings \ {Current} : <<m, "COMPLETED">> \in page}
    BY DEF Context!ListPage
  <2>2. QED
    BY <2>1 DEF ContextOK, CandidatesListed
<1>4. meeting_ids = << >> /\ summaries = << >> /\ written = << >>
  BY <1>1 DEF ContextOK
<1>5. meeting_ids' = << >> /\ summaries' = << >> /\ written' = << >>
  BY <1>1, <1>4
<1>6. /\ Sourced(summaries)' /\ Sourced(meeting_ids)'
      /\ Ordered(summaries)' /\ Ordered(meeting_ids)' /\ AllEarlier(summaries, meeting_ids)'
  <2>1. Len(<< >>) = 0
    BY EmptySeq
  <2>2. QED
    BY <1>5, <2>1 DEF Sourced, Ordered, AllEarlier
<1>7. QED
  BY <1>1, <1>2, <1>3, <1>5, <1>6 DEF ContextOK

\* What is accepted of the selection.
LEMMA SelectKeeps ==
  ASSUME ContextOK, Context!Select
  PROVE  ContextOK'
<1>1. /\ at = "select" /\ UNCHANGED <<has_info, candidates, summaries, written, listed>>
      /\ selection' \in Context!BoundedSeq(Meetings, MAX_SELECTED_MEETINGS)
      /\ meeting_ids' = Context!Accepted(selection', candidates)
      /\ at' = IF meeting_ids' = << >> THEN "write" ELSE "read"
  BY DEF Context!Select
<1> DEFINE s == selection'
           ids == Context!Accepted(s, candidates)
<1>2. s \in Seq(Meetings)
  BY <1>1 DEF Context!BoundedSeq, Context!SeqOf
<1> HIDE DEF s
<1>3. ids \in Seq(Meetings) /\ Admitted(ids, s, candidates, Len(s))
  BY <1>2, AcceptedAdmitted
<1>4. meeting_ids' = ids
  BY <1>1 DEF s
<1> HIDE DEF ids
<1>5. summaries = << >> /\ summaries' = << >> /\ written' = << >>
  BY <1>1 DEF ContextOK
<1>6. ContextTypes'
  BY <1>1, <1>2, <1>3, <1>4 DEF ContextOK, ContextTypes, s
<1>7. CandidatesListed'
  BY <1>1 DEF ContextOK, CandidatesListed
<1>8. Sourced(meeting_ids)'
  <2>1. \A j \in 1 .. Len(ids) : ids[j] \in candidates /\ Context!Contains(s, ids[j])
    BY <1>3 DEF Admitted, Context!Contains
  <2>2. QED
    BY <1>1, <1>4, <2>1 DEF Sourced, s
<1>9. Ordered(meeting_ids)'
  <2>1. \A j \in 1 .. Len(ids) : \A i \in 1 .. j - 1 : Precedes(s, ids[i], ids[j])
    BY <1>3 DEF Admitted
  <2>2. QED
    BY <1>4, <2>1 DEF Ordered, Earlier, s
<1>10. Sourced(summaries)' /\ Ordered(summaries)' /\ AllEarlier(summaries, meeting_ids)'
  <2>1. Len(<< >>) = 0
    BY EmptySeq
  <2>2. QED
    BY <1>5, <2>1 DEF Sourced, Ordered, AllEarlier
<1>11. QED
  BY <1>1, <1>5, <1>6, <1>7, <1>8, <1>9, <1>10 DEF ContextOK

\* The first of what is to be read is read, whether it has a summary or not.
LEMMA ReadSummaryKeeps ==
  ASSUME ContextOK, Context!ReadSummary
  PROVE  ContextOK'
<1> DEFINE q == meeting_ids
           t == summaries
           e == Head(q)
           len == Len(t)
<1>1. /\ at = "read" /\ UNCHANGED <<has_info, candidates, selection, written, listed>>
      /\ t' = Append(t, e) \/ t' = t
      /\ q' = Tail(q)
      /\ at' = IF q' = << >> THEN "write" ELSE "read"
  BY DEF Context!ReadSummary
<1>2. /\ q \in Seq(Meetings) /\ q # << >> /\ t \in Seq(Meetings)
      /\ Sourced(t) /\ Sourced(q) /\ Ordered(t) /\ Ordered(q) /\ AllEarlier(t, q)
  BY <1>1 DEF ContextOK, ContextTypes
<1>3. /\ Len(q) \in Nat \ {0} /\ e = q[1] /\ e \in Meetings
      /\ Tail(q) \in Seq(Meetings) /\ Len(Tail(q)) = Len(q) - 1
      /\ \A j \in 1 .. Len(q) - 1 : Tail(q)[j] = q[j + 1]
  BY <1>2, EmptySeq, LenProperties, HeadTailProperties
<1>4. /\ len \in Nat /\ Append(t, e) \in Seq(Meetings) /\ Len(Append(t, e)) = len + 1
      /\ Append(t, e)[len + 1] = e /\ \A i \in 1 .. len : Append(t, e)[i] = t[i]
  BY <1>2, <1>3, LenProperties, AppendProperties
<1>5. /\ \A j \in 1 .. Len(q) - 1 : j + 1 \in 1 .. Len(q) /\ 1 \in 1 .. (j + 1) - 1
      /\ 1 \in 1 .. Len(q)
      /\ \A i \in 1 .. len + 1 : i \in 1 .. len \/ i = len + 1
      /\ \A j \in 1 .. len : \A i \in 1 .. j - 1 : i \in 1 .. len
      /\ (len + 1) - 1 = len
  BY <1>3, <1>4
<1> DEFINE rest == Tail(q)
           more == Append(t, e)
<1>6. Sourced(rest)
  BY <1>2, <1>3, <1>5 DEF Sourced
<1>7. Ordered(rest)
  <2>1. ASSUME NEW j \in 1 .. Len(rest), NEW i \in 1 .. j - 1 PROVE Earlier(rest[i], rest[j])
    <3>1. /\ j + 1 \in 1 .. Len(q) /\ i + 1 \in 1 .. (j + 1) - 1
          /\ rest[i] = q[i + 1] /\ rest[j] = q[j + 1]
      BY <1>3
    <3>2. QED
      BY <1>2, <3>1 DEF Ordered
  <2>2. QED
    BY <2>1 DEF Ordered
<1>8. AllEarlier(t, rest)
  <2>1. \A j \in 1 .. Len(rest) : rest[j] = q[j + 1] /\ j + 1 \in 1 .. Len(q)
    BY <1>3, <1>5
  <2> HIDE DEF rest, q, t
  <2>2. QED
    BY <1>2, <2>1 DEF AllEarlier
<1>9. Sourced(more)
  <2>1. e \in candidates /\ Context!Contains(selection, e)
    BY <1>2, <1>3, <1>5 DEF Sourced
  <2> HIDE DEF more, e
  <2>2. \A i \in 1 .. len : t[i] \in candidates /\ Context!Contains(selection, t[i])
    BY <1>2 DEF Sourced
  <2>3. /\ Len(more) = len + 1 /\ more[len + 1] = e /\ \A i \in 1 .. len : more[i] = t[i]
    BY <1>4 DEF more
  <2>4. QED
    BY <1>5, <2>1, <2>2, <2>3 DEF Sourced
<1>10. Ordered(more)
  <2>1. \A i \in 1 .. len : Earlier(t[i], e)
    BY <1>2, <1>3, <1>5 DEF AllEarlier
  <2>2. \A j \in 1 .. len : \A i \in 1 .. j - 1 : Earlier(t[i], t[j])
    BY <1>2 DEF Ordered
  <2>3. /\ Len(more) = len + 1 /\ more[len + 1] = e /\ \A i \in 1 .. len : more[i] = t[i]
    BY <1>4
  <2> HIDE DEF more, e, len
  <2>4. \A j \in 1 .. len : \A i \in 1 .. j - 1 : Earlier(more[i], more[j])
    BY <1>5, <2>2, <2>3
  <2>5. \A i \in 1 .. len : Earlier(more[i], more[len + 1])
    BY <2>1, <2>3
  <2>6. \A j \in 1 .. len + 1 : \A i \in 1 .. j - 1 : Earlier(more[i], more[j])
    BY <1>5, <2>4, <2>5
  <2>7. QED
    BY <2>3, <2>6 DEF Ordered
<1>11. AllEarlier(more, rest)
  <2>1. ASSUME NEW j \in 1 .. Len(rest) PROVE Earlier(e, rest[j])
    <3>1. j \in 1 .. Len(q) - 1
      BY <1>3
    <3>2. rest[j] = q[j + 1] /\ j + 1 \in 1 .. Len(q) /\ 1 \in 1 .. (j + 1) - 1
      BY <1>3, <1>5, <3>1
    <3>3. Earlier(q[1], q[j + 1])
      BY <1>2, <3>2 DEF Ordered
    <3>4. QED
      BY <1>3, <3>2, <3>3
  <2>2. \A i \in 1 .. len, j \in 1 .. Len(rest) : Earlier(t[i], rest[j])
    BY <1>8 DEF AllEarlier
  <2>3. /\ Len(more) = len + 1 /\ more[len + 1] = e /\ \A i \in 1 .. len : more[i] = t[i]
    BY <1>4
  <2> HIDE DEF more, e, len, rest
  <2>4. QED
    BY <1>5, <2>1, <2>2, <2>3 DEF AllEarlier
<1>12. /\ t' \in Seq(Meetings) /\ q' \in Seq(Meetings)
       /\ Sourced(t') /\ Ordered(t') /\ AllEarlier(t', q')
       /\ Sourced(q') /\ Ordered(q')
  <2>1. q' = rest /\ (t' = more \/ t' = t) /\ rest \in Seq(Meetings) /\ more \in Seq(Meetings)
    BY <1>1, <1>3, <1>4
  <2> HIDE DEF rest, more
  <2>2. QED
    BY <1>2, <1>6, <1>7, <1>8, <1>9, <1>10, <1>11, <2>1
<1>13. /\ Sourced(summaries)' /\ Sourced(meeting_ids)' /\ Ordered(summaries)'
       /\ Ordered(meeting_ids)' /\ AllEarlier(summaries, meeting_ids)'
  BY <1>1, <1>12 DEF Sourced, Ordered, AllEarlier, Earlier
<1>14. ContextTypes' /\ CandidatesListed'
  BY <1>1, <1>12 DEF ContextOK, ContextTypes, CandidatesListed
<1>15. written' = << >>
  BY <1>1 DEF ContextOK
<1>16. QED
  BY <1>1, <1>13, <1>14, <1>15 DEF ContextOK

LEMMA ContextNext == ContextOK /\ (Context!Next \/ UNCHANGED contextVars) => ContextOK'
<1> SUFFICES ASSUME ContextOK, Context!Next \/ UNCHANGED contextVars PROVE ContextOK'
  OBVIOUS
<1> DEFINE Same == UNCHANGED <<candidates, selection, meeting_ids, summaries, listed, has_info>>
<1>1. ASSUME Same
      PROVE  /\ Sourced(summaries)' /\ Sourced(meeting_ids)' /\ Ordered(summaries)'
             /\ Ordered(meeting_ids)' /\ AllEarlier(summaries, meeting_ids)'
             /\ CandidatesListed'
  BY <1>1 DEF ContextOK, Sourced, Ordered, AllEarlier, Earlier, CandidatesListed
<1>2. CASE UNCHANGED contextVars
  <2>1. Same /\ UNCHANGED <<at, written>>
    BY <1>2 DEF contextVars
  <2>2. QED
    BY <1>1, <2>1 DEF ContextOK, ContextTypes
<1>3. CASE Context!Write
  <2>1. Same /\ at' = "returned"
    BY <1>3 DEF Context!Write
  <2>2. written' # << >> => has_info' \/ summaries' # << >>
    BY <1>3 DEF Context!Write, ContextOK
  <2>3. QED
    BY <1>1, <2>1, <2>2 DEF ContextOK, ContextTypes
<1>4. CASE Context!Fails
  <2>1. Same /\ at # "returned" /\ at' = "failed" /\ UNCHANGED written
    BY <1>4 DEF Context!Fails
  <2>2. QED
    BY <1>1, <2>1 DEF ContextOK, ContextTypes
<1>5. QED
  BY <1>2, <1>3, <1>4, ListPageKeeps, SelectKeeps, ReadSummaryKeeps DEF Context!Next

\* A step of the computations is a step of the document's, or leaves it.
LEMMA StepOfContext ==
  ASSUME [Next]_vars
  PROVE  Context!Next \/ UNCHANGED contextVars
BY DEF Next, vars, AssignmentStep, AttributionStep, ContextStep, TranscriptsStep, BatchStep

THEOREM ContextAlwaysSourced == Spec => []ContextOK
<1>1. Init => ContextOK
  BY ContextInit DEF Init
<1>2. ContextOK /\ [Next]_vars => ContextOK'
  BY StepOfContext, ContextNext
<1>3. QED
  BY <1>1, <1>2, PTL DEF Spec

\* For any meetings, pages and limits, and whatever the model selects: the document
\* is written from other meetings that are completed, each once and in the order of
\* the selection, and from nothing nothing is written (generate_stt_context).
THEOREM SourcesAlwaysListed == Spec => []ContextSources
<1>1. ContextOK => ContextSources
  <2> SUFFICES ASSUME ContextOK PROVE Context!ContextSources
    BY DEF ContextSources
  <2>1. DOMAIN summaries = 1 .. Len(summaries) /\ DOMAIN selection = 1 .. Len(selection)
    BY LenProperties DEF ContextOK, ContextTypes
  <2>2. \A j \in 1 .. Len(summaries) :
          /\ summaries[j] # Current /\ <<summaries[j], "COMPLETED">> \in listed
          /\ Context!Contains(selection, summaries[j])
    BY DEF ContextOK, Sourced, CandidatesListed
  <2>3. \A a, b : Earlier(a, b) => Context!NamedBefore(a, b)
    BY <2>1 DEF Earlier, Precedes, Context!NamedBefore
  <2>4. \A j \in 1 .. Len(summaries) : \A i \in 1 .. j - 1 :
          Context!NamedBefore(summaries[i], summaries[j])
    BY <2>3 DEF ContextOK, Ordered
  <2>5. written # << >> => has_info \/ summaries # << >>
    BY DEF ContextOK
  <2>6. QED
    BY <2>1, <2>2, <2>4, <2>5 DEF Context!ContextSources, Context!ToSet
<1>2. QED
  BY <1>1, ContextAlwaysSourced, PTL

-----------------------------------------------------------------------------
\* The length of a document.

LEMMA SameSize == \A text : Context!Size(text) = SumFunction(text) + Len(text) - 1
BY DEF Context!Size, Context!SumFunction, Context!SumFunctionOnSet,
       Context!FoldFunctionOnSet, Context!MapThenFoldSet,
       SumFunction, SumFunctionOnSet, FoldFunctionOnSet, MapThenFoldSet

\* The beginning of a sequence.
LEMMA Beginning ==
  ASSUME NEW S, NEW q \in Seq(S), NEW n \in 0 .. Len(q)
  PROVE  /\ SubSeq(q, 1, n) \in Seq(S) /\ Len(SubSeq(q, 1, n)) = n
         /\ \A i \in 1 .. n : SubSeq(q, 1, n)[i] = q[i]
<1>1. Len(q) \in Nat /\ n \in Int
  BY LenProperties
<1>2. \A i \in 1 .. n : q[i] \in S
  BY <1>1, ElementOfSeq
<1>3. QED
  BY <1>1, <1>2, SubSeqProperties

\* A beginning of a longer beginning.
LEMMA BeginningOfBeginning ==
  ASSUME NEW S, NEW q \in Seq(S), NEW n \in 0 .. Len(q), NEW k \in 0 .. n
  PROVE  /\ SubSeq(SubSeq(q, 1, n), 1, k) = SubSeq(q, 1, k)
         /\ Context!IsPrefix(SubSeq(q, 1, k), SubSeq(q, 1, n))
<1> DEFINE b == SubSeq(q, 1, n)
           c == SubSeq(q, 1, k)
           d == SubSeq(b, 1, k)
<1>1. Len(q) \in Nat /\ k \in 0 .. Len(q)
  BY LenProperties
<1>2. b \in Seq(S) /\ Len(b) = n /\ \A i \in 1 .. n : b[i] = q[i]
  BY Beginning
<1>3. c \in Seq(S) /\ Len(c) = k /\ \A i \in 1 .. k : c[i] = q[i]
  BY <1>1, Beginning
<1> HIDE DEF b, c
<1>4. d \in Seq(S) /\ Len(d) = k /\ \A i \in 1 .. k : d[i] = b[i]
  BY <1>1, <1>2, Beginning
<1> HIDE DEF d
<1>5. \A i \in 1 .. k : c[i] = d[i]
  BY <1>1, <1>2, <1>3, <1>4
<1>6. c = d
  BY <1>3, <1>4, <1>5, SeqEqual
<1>7. SubSeq(c, 1, Len(c)) = c
  BY <1>3, SubSeqFull
<1>8. Context!IsPrefix(c, b)
  BY <1>1, <1>2, <1>3, <1>6, <1>7 DEF d, Context!IsPrefix
<1>9. QED
  BY <1>6, <1>8 DEF b, c, d

\* A line adds its characters and the end of the line before it.
LEMMA SizeOfLines ==
  ASSUME NEW text \in Seq(Nat), NEW n \in 0 .. Len(text) - 1
  PROVE  /\ Context!Size(SubSeq(text, 1, n)) \in Int
         /\ Context!Size(SubSeq(text, 1, n + 1))
              = Context!Size(SubSeq(text, 1, n)) + text[n + 1] + 1
<1> DEFINE b == SubSeq(text, 1, n)
           e == text[n + 1]
<1>1. Len(text) \in Nat /\ n + 1 \in 0 .. Len(text) /\ n \in 0 .. Len(text)
  BY LenProperties
<1>2. b \in Seq(Nat) /\ e \in Nat /\ SubSeq(text, 1, n + 1) = Append(b, e)
  BY OneMoreOfSubSeq
<1>3. Len(b) = n
  BY <1>1, Beginning
<1> HIDE DEF b, e
<1>4. b \in Seq(Int) /\ e \in Int
  <2>1. Nat \subseteq Int
    OBVIOUS
  <2>2. QED
    BY <1>2, <2>1, SeqMonotonic
<1>5. SumFunction(Append(b, e)) = SumFunction(b) + e /\ SumFunction(b) \in Int
  BY <1>4, SumOfAppend, SumOfSeq
<1>6. Len(Append(b, e)) = n + 1
  BY <1>2, <1>3, AppendProperties
<1> DEFINE s == SumFunction(b)
<1>7. /\ Context!Size(b) = s + n - 1
      /\ Context!Size(Append(b, e)) = (s + e) + (n + 1) - 1
  BY <1>3, <1>5, <1>6, SameSize
<1>8. s \in Int /\ e \in Int /\ n \in Int
  BY <1>1, <1>4, <1>5
<1> HIDE DEF s
<1>9. (s + e) + (n + 1) - 1 = (s + n - 1) + e + 1 /\ s + n - 1 \in Int
  BY <1>8
<1>10. QED
  BY <1>2, <1>7, <1>9 DEF b, e

\* Longer beginnings are longer.
LEMMA SizesRise ==
  ASSUME NEW text \in Seq(Nat), NEW n \in 0 .. Len(text)
  PROVE  /\ Context!Size(SubSeq(text, 1, n)) \in Int
         /\ \A k \in 0 .. n : Context!Size(SubSeq(text, 1, k)) + (n - k)
                                =< Context!Size(SubSeq(text, 1, n))
<1> DEFINE Z(k) == Context!Size(SubSeq(text, 1, k))
           N == {m \in 0 .. Len(text) :
                   /\ Z(m) \in Int
                   /\ \A k \in 0 .. m : Z(k) \in Int /\ Z(k) + (m - k) =< Z(m)}
<1>1. Len(text) \in Nat
  BY LenProperties
<1>2. 0 \in N
  <2>1. SubSeq(text, 1, 0) = << >> /\ Len(<< >>) = 0
    BY SubSeqEmpty, EmptySeq
  <2>2. Z(0) = SumFunction(<< >>) + Len(<< >>) - 1
    BY <2>1, SameSize
  <2>3. Z(0) = -1
    BY <2>1, <2>2, SumOfEmpty
  <2> HIDE DEF Z
  <2>4. QED
    BY <1>1, <2>3
<1>3. ASSUME NEW m \in 0 .. Len(text) - 1, m \in N PROVE m + 1 \in N
  <2>1. Z(m) \in Int /\ Z(m + 1) = Z(m) + text[m + 1] + 1
    BY SizeOfLines
  <2>2. text[m + 1] \in Nat /\ m + 1 \in 0 .. Len(text)
    <3>1. m + 1 \in 1 .. Len(text)
      BY <1>1
    <3>2. QED
      BY <3>1, ElementOfSeq
  <2>3. \A k \in 0 .. m : Z(k) \in Int /\ Z(k) + (m - k) =< Z(m)
    BY <1>3
  <2> HIDE DEF Z
  <2>4. Z(m + 1) \in Int /\ Z(m) + 1 =< Z(m + 1)
    BY <2>1, <2>2
  <2>5. ASSUME NEW k \in 0 .. m + 1
        PROVE  Z(k) \in Int /\ Z(k) + (m + 1 - k) =< Z(m + 1)
    <3>1. CASE k = m + 1
      BY <2>4, <3>1
    <3>2. CASE k # m + 1
      <4>1. k \in 0 .. m
        BY <3>2
      <4> DEFINE a == Z(k)
                 b == Z(m)
                 c == Z(m + 1)
      <4>2. /\ a \in Int /\ b \in Int /\ c \in Int
            /\ a + (m - k) =< b /\ b + 1 =< c
        BY <2>1, <2>3, <2>4, <4>1
      <4>3. m \in Int /\ k \in Int
        BY <1>1, <4>1
      <4> HIDE DEF a, b, c
      <4>4. a + (m + 1 - k) =< c
        BY ONLY <4>2, <4>3
      <4>5. QED
        BY <4>2, <4>4 DEF a, c
    <3>3. QED
      BY <3>1, <3>2
  <2>6. QED
    BY <2>2, <2>4, <2>5
<1> HIDE DEF N
<1>4. \A m \in 0 .. Len(text) : m \in N
  BY <1>1, <1>2, <1>3, UpToInduction
<1>5. QED
  BY <1>4 DEF N

\* Which line is the last that is not blank, if there is one.
LastFilled(q) == Context!SelectLastInSeq(q, LAMBDA length : length > 0)

LEMMA FilledIs ==
  ASSUME NEW q \in Seq(Nat)
  PROVE  /\ Context!Stripped(q) = SubSeq(q, 1, LastFilled(q))
         /\ LastFilled(q) \in 0 .. Len(q)
         /\ LastFilled(q) > 0 => q[LastFilled(q)] > 0
         /\ \A i \in 1 .. Len(q) : q[i] > 0 => i =< LastFilled(q)
<1> DEFINE I == {i \in 1 .. Len(q) : q[i] > 0}
<1>1. Len(q) \in Nat
  BY LenProperties
<1>2. Context!Stripped(q) = SubSeq(q, 1, LastFilled(q))
  BY DEF Context!Stripped, LastFilled
<1>3. LastFilled(q) = IF I # {} THEN Context!Max(I) ELSE 0
  BY DEF LastFilled, Context!SelectLastInSeq
<1>4. CASE I = {}
  BY <1>1, <1>2, <1>3, <1>4
<1>5. CASE I # {}
  <2>1. \E x \in I : \A y \in I : x >= y
    <3>1. I \in SUBSET (1 .. Len(q))
      OBVIOUS
    <3> HIDE DEF I
    <3>2. QED
      BY <1>1, <1>5, <3>1, GreatestUpTo
  <2>2. LastFilled(q) \in I /\ \A y \in I : LastFilled(q) >= y
    <3> HIDE DEF I
    <3>1. QED
      BY <1>3, <1>5, <2>1 DEF Context!Max
  <2>3. QED
    BY <1>1, <1>2, <2>2
<1>6. QED
  BY <1>4, <1>5

\* What is left of a shorter beginning is a beginning of what is left of a longer one.
LEMMA StrippedBeginnings ==
  ASSUME NEW text \in Seq(Nat), NEW m \in 0 .. Len(text), NEW n \in 0 .. m
  PROVE  /\ Context!IsPrefix(Context!Stripped(SubSeq(text, 1, n)),
                             Context!Stripped(SubSeq(text, 1, m)))
         /\ Context!IsPrefix(Context!Stripped(SubSeq(text, 1, n)), text)
         /\ \E k \in 0 .. n : Context!Stripped(SubSeq(text, 1, n)) = SubSeq(text, 1, k)
<1> DEFINE a == SubSeq(text, 1, n)
           b == SubSeq(text, 1, m)
           j == LastFilled(a)
           k == LastFilled(b)
<1>1. Len(text) \in Nat /\ n \in 0 .. Len(text)
  BY LenProperties
<1>2. a \in Seq(Nat) /\ Len(a) = n /\ \A i \in 1 .. n : a[i] = text[i]
  BY <1>1, Beginning
<1>3. b \in Seq(Nat) /\ Len(b) = m /\ \A i \in 1 .. m : b[i] = text[i]
  BY Beginning
<1>4. /\ Context!Stripped(a) = SubSeq(a, 1, j) /\ j \in 0 .. n
      /\ j > 0 => a[j] > 0
  <2> HIDE DEF a
  <2>1. QED
    BY <1>2, FilledIs
<1>5. /\ Context!Stripped(b) = SubSeq(b, 1, k) /\ k \in 0 .. m
      /\ \A i \in 1 .. m : b[i] > 0 => i =< k
  <2> HIDE DEF b
  <2>1. QED
    BY <1>3, FilledIs
<1> HIDE DEF j, k
<1>6. SubSeq(a, 1, j) = SubSeq(text, 1, j) /\ SubSeq(b, 1, k) = SubSeq(text, 1, k)
  BY <1>1, <1>4, <1>5, BeginningOfBeginning
<1>7. j =< k
  <2>1. CASE j = 0
    BY <1>5, <2>1
  <2>2. CASE j # 0
    <3>1. j \in 1 .. n /\ j \in 1 .. m
      BY <1>1, <1>4, <2>2
    <3>2. b[j] > 0
      BY <1>2, <1>3, <1>4, <3>1
    <3>3. QED
      BY <1>5, <3>1, <3>2
  <2>3. QED
    BY <2>1, <2>2
<1> HIDE DEF a, b
<1>8. Context!IsPrefix(SubSeq(text, 1, j), SubSeq(text, 1, k))
  <2>1. j \in 0 .. k /\ k \in 0 .. Len(text)
    BY <1>1, <1>4, <1>5, <1>7
  <2>2. QED
    BY <2>1, BeginningOfBeginning
<1>9. Context!IsPrefix(SubSeq(text, 1, j), text)
  <2>1. j \in 0 .. Len(text) /\ Len(text) \in 0 .. Len(text)
    BY <1>1, <1>4
  <2>2. SubSeq(text, 1, Len(text)) = text
    BY SubSeqFull
  <2>3. Context!IsPrefix(SubSeq(text, 1, j), SubSeq(text, 1, Len(text)))
    BY <2>1, BeginningOfBeginning
  <2>4. QED
    BY <2>2, <2>3
<1>10. QED
  BY <1>4, <1>5, <1>6, <1>8, <1>9 DEF a, b

\* How many lines end within the limit: they are the first ones.
LEMMA EndedIs ==
  ASSUME NEW text \in Seq(Nat), text # << >>
  PROVE  /\ Context!Ended(text) \in 0 .. Len(text) - 1
         /\ \A n \in 1 .. Len(text) - 1 :
              Context!Size(SubSeq(text, 1, n)) < MAX_CONTEXT_LENGTH
                <=> n =< Context!Ended(text)
<1> DEFINE Z(k) == Context!Size(SubSeq(text, 1, k))
           E == {k \in 1 .. Len(text) - 1 : Z(k) < MAX_CONTEXT_LENGTH}
           len == Len(text)
<1>1. len \in Nat /\ len - 1 \in Nat /\ MAX_CONTEXT_LENGTH \in Nat
  BY LenProperties, EmptySeq, ContextAssumption
<1>2. \A n \in 0 .. len : Z(n) \in Int
  BY SizesRise
<1>3. ASSUME NEW n \in E, NEW k \in 1 .. n PROVE k \in E
  <2>1. n \in 0 .. len /\ k \in 0 .. n /\ k \in 1 .. len - 1 /\ k \in 0 .. len /\ n - k >= 0
    BY <1>1
  <2>2. Z(k) + (n - k) =< Z(n)
    BY <2>1, SizesRise
  <2> DEFINE a == Z(k)
             b == Z(n)
  <2>3. a \in Int /\ b \in Int /\ b < MAX_CONTEXT_LENGTH /\ a + (n - k) =< b
    BY <1>2, <2>1, <2>2
  <2> HIDE DEF a, b, E
  <2>4. a < MAX_CONTEXT_LENGTH
    <3>1. n - k \in Int
      BY <2>1
    <3>2. QED
      BY ONLY <1>1, <2>1, <2>3, <3>1
  <2>5. QED
    BY <2>1, <2>4 DEF a, E
<1>4. \E e \in 0 .. len - 1 : E = 1 .. e
  <2> DEFINE J == {k \in 0 .. len - 1 : k + 1 \notin E}
  <2>1. J \subseteq Nat /\ J # {}
    <3>1. len - 1 \in 0 .. len - 1 /\ (len - 1) + 1 \notin 1 .. len - 1
      BY <1>1
    <3>2. E \subseteq 1 .. len - 1
      OBVIOUS
    <3> HIDE DEF E, len
    <3>3. len - 1 \in J
      BY <3>1, <3>2
    <3>4. J \subseteq Nat
      OBVIOUS
    <3>5. QED
      BY <3>3, <3>4
  <2>2. PICK e \in J : \A y \in J : e =< y
    BY <2>1, LeastOfNat
  <2>3. E \subseteq 1 .. len - 1
    OBVIOUS
  <2> HIDE DEF E
  <2>4. ASSUME NEW k \in E PROVE k \in 1 .. e
    <3>1. k \in 1 .. len - 1 /\ e + 1 \notin E /\ e \in 0 .. len - 1
      BY <2>2, <2>3
    <3>2. k >= e + 1 => e + 1 \in 1 .. k
      BY <1>1, <3>1
    <3>3. ~(k >= e + 1)
      BY <1>3, <3>1, <3>2
    <3>4. QED
      BY <1>1, <3>1, <3>3
  <2>5. ASSUME NEW k \in 1 .. e PROVE k \in E
    <3>1. e \in 0 .. len - 1 /\ \A y \in 0 .. len - 1 : y + 1 \notin E => e =< y
      BY <2>2
    <3>2. k - 1 \in 0 .. len - 1 /\ ~(e =< k - 1) /\ (k - 1) + 1 = k
      BY <1>1, <3>1
    <3>3. QED
      BY <3>1, <3>2
  <2>6. QED
    BY <2>2, <2>4, <2>5
<1>5. Context!Ended(text) = Cardinality(E)
  BY DEF Context!Ended, Context!Cardinality, Cardinality
<1>6. PICK e \in 0 .. len - 1 : E = 1 .. e
  BY <1>4
<1>7. Cardinality(E) = e
  <2>1. 1 \in Int /\ e \in Int /\ (IF 1 > e THEN 0 ELSE e - 1 + 1) = e
    BY <1>1
  <2>2. Cardinality(1 .. e) = IF 1 > e THEN 0 ELSE e - 1 + 1
    BY <2>1, FS_Interval
  <2>3. QED
    BY <1>6, <2>1, <2>2
<1>8. Context!Ended(text) = e
  BY <1>5, <1>7
<1>9. ASSUME NEW n \in 1 .. len - 1 PROVE Z(n) < MAX_CONTEXT_LENGTH <=> n =< e
  <2>1. Z(n) < MAX_CONTEXT_LENGTH <=> n \in E
    OBVIOUS
  <2> HIDE DEF E, Z
  <2>2. QED
    BY <1>1, <1>6, <2>1
<1>10. QED
  BY <1>8, <1>9

\* What is left of a text, by its lines.
LinesKept(text, rest) ==
  /\ Context!Size(rest) =< MAX_CONTEXT_LENGTH
  /\ \/ Context!IsPrefix(rest, text)
     \/ rest = <<MAX_CONTEXT_LENGTH>> /\ text[1] > MAX_CONTEXT_LENGTH
  /\ \A n \in 1 .. Len(text) :
       LET lines == SubSeq(text, 1, n)
       IN  Context!Size(lines) < MAX_CONTEXT_LENGTH \/ Context!Size(text) =< MAX_CONTEXT_LENGTH
             => Context!IsPrefix(Context!Stripped(lines), rest)

LEMMA CutKeepsLines ==
  ASSUME NEW text \in Seq(Nat), text # << >>
  PROVE  LinesKept(text, Context!Cut(text))
<1> DEFINE M == MAX_CONTEXT_LENGTH
           e == Context!Ended(text)
           len == Len(text)
           S(n) == SubSeq(text, 1, n)
           Z(n) == Context!Size(S(n))
           rest == Context!Cut(text)
<1>1. M \in Nat /\ len \in Nat \ {0} /\ S(len) = text
  BY ContextAssumption, LenProperties, EmptySeq, SubSeqFull
<1>2. /\ \A n \in 0 .. len : Z(n) \in Int
      /\ \A n \in 0 .. len : \A k \in 0 .. n : Z(k) + (n - k) =< Z(n)
  BY SizesRise
<1>3. /\ e \in 0 .. len - 1
      /\ \A n \in 1 .. len - 1 : Z(n) < M <=> n =< e
  BY EndedIs
<1>4. ASSUME NEW m \in 0 .. len, NEW n \in 0 .. m
      PROVE  /\ Context!IsPrefix(Context!Stripped(S(n)), Context!Stripped(S(m)))
             /\ Context!IsPrefix(Context!Stripped(S(n)), text)
             /\ \E k \in 0 .. n : Context!Stripped(S(n)) = S(k)
  BY StrippedBeginnings
<1>5. rest = IF Z(len) =< M THEN text
             ELSE IF e = 0 THEN <<M>>
             ELSE Context!Stripped(S(e))
  BY <1>1 DEF Context!Cut
<1> HIDE DEF e, len, rest
<1>6. CASE Z(len) =< M
  <2>1. rest = text
    BY <1>5, <1>6
  <2>2. Context!IsPrefix(S(len), S(len))
    BY <1>1, BeginningOfBeginning DEF len
  <2>3. \A n \in 1 .. len : Context!IsPrefix(Context!Stripped(S(n)), text)
    <3>1. \A n \in 1 .. len : n \in 0 .. len /\ len \in 0 .. len
      BY <1>1
    <3>2. QED
      BY <1>4, <3>1
  <2>4. QED
    BY <1>1, <1>6, <2>1, <2>2, <2>3 DEF LinesKept, rest, len
<1>7. CASE ~(Z(len) =< M) /\ e = 0
  <2>1. rest = <<M>>
    BY <1>5, <1>7
  <2>2. Context!Size(<<M>>) = M
    <3> DEFINE none == << >>
    <3>1. none \in Seq(Int) /\ M \in Int
      BY <1>1, EmptySeq
    <3>2. Append(none, M) = <<M>> /\ Len(<<M>>) = 1
      OBVIOUS
    <3> HIDE DEF none, M
    <3>3. SumFunction(Append(none, M)) = SumFunction(none) + M
      BY <3>1, SumOfAppend
    <3>4. SumFunction(none) = 0
      BY SumOfEmpty DEF none
    <3>5. Context!Size(<<M>>) = (0 + M) + 1 - 1
      BY <3>2, <3>3, <3>4, SameSize
    <3>6. QED
      BY <1>1, <3>5
  <2>3. Z(1) = text[1] /\ text[1] \in Nat
    <3>1. 0 \in 0 .. Len(text) - 1 /\ 1 \in 1 .. Len(text) /\ 0 + 1 = 1
      BY <1>1 DEF len
    <3>2. text[1] \in Nat
      BY <3>1, ElementOfSeq
    <3>3. Z(0 + 1) = Z(0) + text[0 + 1] + 1
      BY <3>1, SizeOfLines
    <3>4. Z(0) = -1
      <4>1. S(0) = << >> /\ Len(<< >>) = 0
        BY SubSeqEmpty, EmptySeq
      <4>2. Z(0) = SumFunction(<< >>) + Len(<< >>) - 1
        BY <4>1, SameSize
      <4>3. QED
        BY <4>1, <4>2, SumOfEmpty
    <3> HIDE DEF Z
    <3>5. QED
      BY <3>1, <3>2, <3>3, <3>4
  <2>4. ~(Z(1) < M)
    <3>1. CASE len = 1
      BY <1>1, <1>2, <1>7, <3>1
    <3>2. CASE len # 1
      <4>1. 1 \in 1 .. len - 1
        BY <1>1, <3>2
      <4>2. QED
        BY <1>3, <1>7, <4>1
    <3>3. QED
      BY <3>1, <3>2
  <2>5. ASSUME NEW n \in 1 .. len PROVE ~(Z(n) < M)
    <3>1. 1 \in 0 .. n /\ n \in 0 .. len /\ 1 \in 0 .. len
      BY <1>1
    <3>2. Z(n) \in Int /\ Z(1) \in Int /\ Z(1) + (n - 1) =< Z(n)
      BY <1>2, <3>1
    <3> HIDE DEF Z
    <3>3. QED
      BY <1>1, <2>4, <3>2
  <2>6. Context!IsPrefix(rest, text) \/ text[1] > M
    <3>1. CASE text[1] = M
      <4>1. S(1) = <<M>>
        <5>1. 1 \in 0 .. Len(text)
          BY <1>1 DEF len
        <5>2. S(1) \in Seq(Nat) /\ Len(S(1)) = 1 /\ \A i \in 1 .. 1 : S(1)[i] = text[i]
          BY <5>1, Beginning
        <5>3. S(1)[1] = M
          BY <3>1, <5>2
        <5> DEFINE s == S(1)
        <5> HIDE DEF S
        <5>4. s = <<s[1]>>
          BY <5>2
        <5>5. QED
          BY <5>3, <5>4
      <4>2. Context!IsPrefix(S(1), S(len))
        <5>1. 1 \in 0 .. len /\ len \in 0 .. Len(text)
          BY <1>1 DEF len
        <5>2. QED
          BY <5>1, BeginningOfBeginning
      <4>3. QED
        BY <1>1, <2>1, <4>1, <4>2
    <3>2. CASE text[1] # M
      <4>1. ~(text[1] < M)
        BY <2>3, <2>4
      <4>2. QED
        BY <1>1, <2>3, <3>2, <4>1
    <3>3. QED
      BY <3>1, <3>2
  <2>7. Context!Size(rest) =< M /\ M \in Int
    BY <1>1, <2>1, <2>2
  <2>8. QED
    BY <1>1, <1>7, <2>1, <2>5, <2>6, <2>7 DEF LinesKept, rest, len
<1>8. CASE ~(Z(len) =< M) /\ e # 0
  <2>1. rest = Context!Stripped(S(e))
    BY <1>5, <1>8
  <2>2. e \in 1 .. len - 1 /\ e \in 0 .. len /\ Z(e) < M
    BY <1>1, <1>3, <1>8
  <2>3. PICK k \in 0 .. e : Context!Stripped(S(e)) = S(k)
    <3>1. e \in 0 .. e
      BY <2>2
    <3>2. QED
      BY <1>4, <2>2, <3>1
  <2>4. Z(k) =< M
    <3>1. Z(k) \in Int /\ Z(e) \in Int /\ Z(k) + (e - k) =< Z(e) /\ e - k >= 0 /\ e - k \in Int
      BY <1>1, <1>2, <2>2, <2>3
    <3> DEFINE a == Z(k)
               b == Z(e)
               d == e - k
    <3>2. a \in Int /\ b \in Int /\ d \in Int /\ d >= 0 /\ a + d =< b /\ b < M
      BY <2>2, <3>1
    <3> HIDE DEF a, b, d
    <3>3. a =< M
      BY ONLY <1>1, <3>2
    <3>4. QED
      BY <3>3 DEF a
  <2>5. Context!IsPrefix(rest, text)
    <3>1. e \in 0 .. e
      BY <2>2
    <3>2. QED
      BY <1>4, <2>1, <2>2, <3>1
  <2>6. ASSUME NEW n \in 1 .. len, Z(n) < M
        PROVE  Context!IsPrefix(Context!Stripped(S(n)), rest)
    <3>1. n # len
      <4> HIDE DEF Z
      <4>1. Z(len) \in Int
        <5>1. len \in 0 .. len
          BY <1>1
        <5>2. QED
          BY <1>2, <5>1
      <4>2. QED
        BY <1>1, <1>8, <2>6, <4>1
    <3>2. n \in 1 .. len - 1
      BY <1>1, <3>1
    <3>3. n =< e
      BY <1>3, <2>6, <3>2
    <3>4. n \in 0 .. e
      BY <1>1, <2>2, <3>2, <3>3
    <3>5. QED
      BY <1>4, <2>1, <2>2, <3>4
  <2>7. Context!Size(rest) =< M
    BY <2>1, <2>3, <2>4
  <2>8. QED
    BY <1>1, <1>8, <2>5, <2>6, <2>7 DEF LinesKept, rest, len
<1>9. QED
  BY <1>6, <1>7, <1>8

\* What is returned is what is left of what was written.
LinesOK ==
  /\ at # "returned" => written = << >>
  /\ written # << >> => /\ written \in Seq(Nat)
                        /\ context = Context!Cut(written)

LEMMA LinesInit == Context!Init => LinesOK
BY DEF Context!Init, LinesOK

LEMMA LinesNext ==
  ASSUME LinesOK, Context!Next
  PROVE  LinesOK'
<1>1. CASE Context!Write
  <2>1. at = "write" /\ at' = "returned" /\ written = << >>
    BY <1>1 DEF Context!Write, LinesOK
  <2>2. CASE written' = written
    BY <2>1, <2>2 DEF LinesOK
  <2>3. CASE written' \in Texts /\ context' = Context!Cut(written')
    <3>1. written' \in Seq(Nat)
      <4>1. PICK n \in 1 .. 3 : written' \in [1 .. n -> 0 .. MAX_CONTEXT_LENGTH + 1]
        BY <2>3 DEF Texts
      <4>2. 0 .. MAX_CONTEXT_LENGTH + 1 \subseteq Nat
        BY ContextAssumption
      <4>3. written' \in [1 .. n -> Nat]
        BY <4>1, <4>2
      <4>4. QED
        BY <4>1, <4>3, SeqDef
    <3>2. QED
      BY <2>1, <2>3, <3>1 DEF LinesOK
  <2>4. QED
    BY <1>1, <2>2, <2>3 DEF Context!Write
<1>2. CASE ~Context!Write
  <2>1. at # "returned" /\ written' = written
    BY <1>2 DEF Context!Next, Context!ListPage, Context!Select, Context!ReadSummary,
                Context!Fails
  <2>2. QED
    BY <2>1 DEF LinesOK
<1>3. QED
  BY <1>1, <1>2

THEOREM ContextAlwaysCut == Spec => []LinesOK
<1>1. Init => LinesOK
  BY LinesInit DEF Init
<1>2. LinesOK /\ [Next]_vars => LinesOK'
  <2>1. LinesOK /\ UNCHANGED contextVars => LinesOK'
    BY DEF LinesOK, contextVars
  <2>2. QED
    BY <2>1, StepOfContext, LinesNext
<1>3. QED
  BY <1>1, <1>2, PTL DEF Spec

\* For lines of any length and any limit (and, by CutKeepsLines, any number of lines):
\* a context fits its limit and is the whole text or its first lines, every line that
\* ends before the limit among them and none of them cut (the end of
\* generate_stt_context).
THEOREM LinesAlwaysKept == Spec => []ContextLines
<1>1. LinesOK => ContextLines
  <2> SUFFICES ASSUME LinesOK, at = "returned", written # << >>
               PROVE  LinesKept(written, context)
    BY DEF ContextLines, Context!ContextLines, LinesKept
  <2>1. QED
    BY CutKeepsLines DEF LinesOK
<1>2. QED
  BY <1>1, ContextAlwaysCut, PTL

-----------------------------------------------------------------------------
\* The transcripts of the other provider.

Result == Transcripts!Word \cup UNION {Transcripts!Mark(s) : s \in Voices}

Group == [buffered : Seq(Result), speaker : Voices \cup {"none"},
          transcripts : Seq(Seq(Result))]

LEMMA ResultFields ==
  ASSUME NEW r \in Result
  PROVE  r.speaker \in Voices /\ r.length \in Int /\ r.mark \in BOOLEAN /\ r.ends \in BOOLEAN
<1>1. CASE r \in Transcripts!Word
  <2>1. r.speaker \in Voices /\ r.length \in Durations /\ r.mark \in {FALSE} /\ r.ends \in BOOLEAN
    BY <1>1 DEF Transcripts!Word
  <2>2. r.length \in Int
    <3>1. Durations \subseteq Nat
      BY WordsAssumption
    <3>2. r.length \in Nat
      BY <2>1, <3>1
    <3>3. QED
      BY <3>2
  <2>3. r.mark \in BOOLEAN
    BY <2>1
  <2>4. QED
    BY <2>1, <2>2, <2>3
<1>2. ASSUME NEW s \in Voices, r \in Transcripts!Mark(s)
      PROVE  r.speaker \in Voices /\ r.length \in Int /\ r.mark \in BOOLEAN /\ r.ends \in BOOLEAN
  <2>1. r.speaker \in {s} /\ r.length \in {0} /\ r.mark \in {TRUE} /\ r.ends \in BOOLEAN
    BY <1>2 DEF Transcripts!Mark
  <2>2. r.mark \in BOOLEAN
    BY <2>1
  <2>3. QED
    BY <2>1, <2>2
<1>3. QED
  BY <1>1, <1>2 DEF Result

\* g holds how long each beginning of the results lasts.
AreTotals(g, results) ==
  g = [n \in 0 .. Len(results) |-> IF n = 0 THEN 0 ELSE g[n - 1] + results[n].length]

LEMMA SumsOfLengthsExist ==
  ASSUME NEW results \in Seq(Result)
  PROVE  \E g \in [0 .. Len(results) -> Int] : AreTotals(g, results)
<1> DEFINE m == Len(results)
           Value(sum, n) == sum + results[n].length
           step == [x \in Int \X (1 .. m) |-> Value(x[1], x[2])]
<1>1. m \in Nat /\ \A n \in 1 .. m : results[n].length \in Int
  BY LenProperties, ElementOfSeq, ResultFields
<1>2. \A sum \in Int, n \in 1 .. m : Value(sum, n) \in Int
  BY <1>1
<1> HIDE DEF m, Value
<1>3. IsStep(step, m, Int)
  BY <1>2 DEF IsStep
<1>4. ASSUME NEW sum \in Int, NEW n \in 1 .. m PROVE step[<<sum, n>>] = Value(sum, n)
  <2> DEFINE x == <<sum, n>>
  <2>1. x \in Int \X (1 .. m) /\ x[1] = sum /\ x[2] = n
    OBVIOUS
  <2> HIDE DEF x
  <2>2. step[x] = Value(x[1], x[2])
    BY <2>1
  <2>3. QED
    BY <2>1, <2>2 DEF x
<1> HIDE DEF step
<1>5. PICK f : IsRecursion(f, m, Int, 0, step)
  <2>1. 0 \in Int
    OBVIOUS
  <2>2. QED
    BY ONLY <1>1, <1>3, <2>1, RecursionExists
<1>6. ASSUME NEW n \in 0 .. m
      PROVE  f[n] = IF n = 0 THEN 0 ELSE Value(f[n - 1], n)
  <2>1. CASE n = 0
    BY <1>5, <2>1 DEF IsRecursion
  <2>2. CASE n # 0
    <3>1. n \in 1 .. m /\ n - 1 \in 0 .. m
      BY <1>1, <2>2
    <3>2. f[n] = step[<<f[n - 1], n>>] /\ f[n - 1] \in Int
      BY <1>5, <3>1 DEF IsRecursion
    <3>3. QED
      BY <1>4, <2>2, <3>1, <3>2
  <2>3. QED
    BY <2>1, <2>2
<1>7. f = [n \in 0 .. m |-> IF n = 0 THEN 0 ELSE Value(f[n - 1], n)]
  <2>1. f = [n \in 0 .. m |-> f[n]]
    BY <1>5 DEF IsRecursion
  <2>2. QED
    BY <1>6, <2>1
<1>8. AreTotals(f, results)
  BY <1>7 DEF AreTotals, m, Value
<1>9. QED
  BY <1>5, <1>8 DEF IsRecursion, m

LEMMA LastsInt ==
  ASSUME NEW results \in Seq(Result)
  PROVE  Transcripts!Lasts(results) \in Int
<1> DEFINE m == Len(results)
           g == CHOOSE g : AreTotals(g, results)
           N == {n \in 0 .. m : g[n] \in Int}
<1>1. m \in Nat /\ \A n \in 1 .. m : results[n].length \in Int
  BY LenProperties, ElementOfSeq, ResultFields
<1>2. AreTotals(g, results)
  BY SumsOfLengthsExist
<1>3. Transcripts!Lasts(results) = g[m]
  BY DEF Transcripts!Lasts, AreTotals
<1>4. \A n \in 0 .. m : g[n] = IF n = 0 THEN 0 ELSE g[n - 1] + results[n].length
  BY <1>2 DEF AreTotals
<1> HIDE DEF g, m
<1>5. 0 \in N
  BY <1>1, <1>4
<1>6. ASSUME NEW n \in 0 .. m - 1, n \in N PROVE n + 1 \in N
  <2>1. n + 1 \in 0 .. m /\ n + 1 \in 1 .. m /\ n + 1 # 0 /\ (n + 1) - 1 = n
    BY <1>1
  <2>2. g[n + 1] = g[n] + results[n + 1].length
    BY <1>4, <2>1
  <2>3. QED
    BY <1>1, <1>6, <2>1, <2>2
<1> HIDE DEF N
<1>7. m \in N
  <2>1. \A n \in 0 .. m : n \in N
    BY <1>1, <1>5, <1>6, UpToInduction
  <2>2. QED
    BY <1>1, <2>1
<1>8. QED
  BY <1>3, <1>7 DEF N

\* The model joins sequences like the library.
LEMMA SameFlattened == \A q : Transcripts!FlattenSeq(q) = FlattenSeq(q)
BY DEF Transcripts!FlattenSeq, FlattenSeq

\* What the j-th result of t has in common with the first, and what follows it.
Continued(t, j) ==
  /\ ~t[j].ends
  /\ Transcripts!Lasts(SubSeq(t, 1, j)) < MAX_DURATION \/ t[j + 1].mark

\* One speaker, one sentence, and not too long.
Whole(t) ==
  \A j \in 1 .. Len(t) : t[j].speaker = t[1].speaker /\ (j < Len(t) => Continued(t, j))

\* What is buffered may be continued; next says whether a mark follows.
Open(g, next) ==
  g.buffered # << >> =>
    /\ g.speaker = g.buffered[1].speaker
    /\ ~g.buffered[Len(g.buffered)].ends
    /\ Transcripts!Lasts(g.buffered) < MAX_DURATION \/ next

\* The results w are in the group, in order.
Grouped(g, w) ==
  /\ g \in Group
  /\ Joined(FlattenSeq(g.transcripts), g.buffered) = w
  /\ \A i \in 1 .. Len(g.transcripts) : Whole(g.transcripts[i])
  /\ Whole(g.buffered)

\* Nothing is lost or changed by _flush_transcript.
LEMMA FlushKeeps ==
  ASSUME NEW g, NEW w, Grouped(g, w)
  PROVE  /\ Grouped(Transcripts!Flush(g), w)
         /\ Transcripts!Flush(g).buffered = << >>
<1>1. CASE g.buffered = << >>
  BY <1>1 DEF Transcripts!Flush
<1>2. CASE g.buffered # << >>
  <2> DEFINE t == Append(g.transcripts, g.buffered)
             len == Len(g.transcripts)
  <2>1. /\ g.transcripts \in Seq(Seq(Result)) /\ g.buffered \in Seq(Result)
        /\ Joined(FlattenSeq(g.transcripts), g.buffered) = w
        /\ \A i \in 1 .. len : Whole(g.transcripts[i])
        /\ Whole(g.buffered)
    BY DEF Grouped, Group
  <2>2. /\ t \in Seq(Seq(Result)) /\ Len(t) = len + 1 /\ t[len + 1] = g.buffered
        /\ \A i \in 1 .. len : t[i] = g.transcripts[i]
        /\ len \in Nat
    BY <2>1, AppendProperties, LenProperties
  <2>3. FlattenSeq(t) = w /\ FlattenSeq(t) \in Seq(Result)
    <3>1. FlattenSeq(t) = Joined(FlattenSeq(g.transcripts), g.buffered)
      BY <2>1, FlattenOfAppend
    <3>2. \A s \in Seq(Seq(Result)) : FlattenSeq(s) \in Seq(Result)
      BY EmptySeq, FlattenOfAppend
    <3>3. QED
      BY <2>1, <2>2, <3>1, <3>2
  <2> DEFINE f == [buffered |-> << >>, speaker |-> "none", transcripts |-> t]
  <2>4. Transcripts!Flush(g) = f
    BY <1>2 DEF Transcripts!Flush, Transcripts!NoSpeaker
  <2> HIDE DEF t
  <2>5. f \in Group /\ f.buffered = << >> /\ f.transcripts = t
    BY <2>2, EmptySeq DEF Group
  <2> HIDE DEF f
  <2>6. Joined(FlattenSeq(f.transcripts), f.buffered) = w
    <3> DEFINE all == FlattenSeq(t)
               none == << >>
    <3>1. all \in Seq(Result) /\ all = w
      BY <2>3
    <3> HIDE DEF all
    <3>2. all \o none = all
      BY <3>1, ConcatEmptySeq
    <3> HIDE DEF none
    <3>3. Joined(all, none) = w
      BY <3>1, <3>2 DEF Joined
    <3>4. QED
      BY <2>5, <3>3 DEF all, none
  <2>7. \A i \in 1 .. Len(f.transcripts) : Whole(f.transcripts[i])
    <3>1. ASSUME NEW i \in 1 .. len + 1 PROVE Whole(t[i])
      <4>1. i \in 1 .. len \/ i = len + 1
        BY <2>2
      <4>2. QED
        BY <2>1, <2>2, <4>1
    <3>2. QED
      BY <2>2, <2>5, <3>1
  <2>8. Whole(f.buffered)
    BY <2>5, EmptySeq DEF Whole
  <2>9. QED
    BY <2>4, <2>5, <2>6, <2>7, <2>8 DEF Grouped
<1>3. QED
  BY <1>1, <1>2

\* The group with r behind what is buffered.
Added(g, r) == [g EXCEPT !.buffered = Append(@, r), !.speaker = r.speaker]

\* The result that was put in g last is r, and it is buffered.
EndsWith(g, r) ==
  /\ g.buffered # << >>
  /\ g.buffered[Len(g.buffered)] = r
  /\ g.speaker = g.buffered[1].speaker

\* A result of the same speaker is put behind what is buffered.
LEMMA AddKeeps ==
  ASSUME NEW g, NEW w \in Seq(Result), NEW r \in Result, Grouped(g, w), Open(g, r.mark),
         g.buffered # << >> => g.speaker = r.speaker
  PROVE  Grouped(Added(g, r), Append(w, r)) /\ EndsWith(Added(g, r), r)
<1> DEFINE b == g.buffered
           new == Append(b, r)
           len == Len(b)
           with == Added(g, r)
<1>1. /\ g \in Group /\ b \in Seq(Result) /\ g.transcripts \in Seq(Seq(Result))
      /\ len \in Nat
  BY LenProperties DEF Grouped, Group
<1>2. /\ with \in Group /\ with.buffered = new /\ with.speaker = r.speaker
      /\ with.transcripts = g.transcripts
  <2>1. r.speaker \in Voices /\ new \in Seq(Result)
    BY <1>1, ResultFields, AppendProperties
  <2>2. QED
    BY <1>1, <2>1 DEF Group, Added
<1>3. /\ new \in Seq(Result) /\ new # << >> /\ Len(new) = len + 1 /\ new[len + 1] = r
      /\ \A j \in 1 .. len : new[j] = b[j]
  BY <1>1, AppendProperties
<1>4. new[1].speaker = r.speaker
  <2>1. CASE b = << >>
    BY <1>3, <2>1, EmptySeq
  <2>2. CASE b # << >>
    <3>1. len # 0
      BY <1>1, <2>2, EmptySeq
    <3>2. new[1] = b[1]
      BY <1>1, <1>3, <3>1
    <3>3. QED
      BY <2>2, <3>2 DEF Open
  <2>3. QED
    BY <2>1, <2>2
<1>5. Joined(FlattenSeq(with.transcripts), with.buffered) = Append(w, r)
  <2> DEFINE all == FlattenSeq(g.transcripts)
  <2>1. all \in Seq(Result)
    BY <1>1, EmptySeq, FlattenOfAppend
  <2>2. Joined(all, b) = w
    BY DEF Grouped
  <2> HIDE DEF all, b
  <2>3. all \o Append(b, r) = Append(all \o b, r)
    BY <1>1, <2>1, AppendToConcat
  <2>4. Joined(all, new) = Append(w, r)
    BY <2>2, <2>3 DEF Joined
  <2>5. QED
    BY <1>2, <2>4 DEF all
<1>6. Whole(new)
  <2>1. /\ \A j \in 1 .. len : b[j].speaker = b[1].speaker
        /\ \A j \in 1 .. len : j < len => Continued(b, j)
    BY DEF Grouped, Whole
  <2>2. \A j \in 1 .. len : SubSeq(new, 1, j) = SubSeq(b, 1, j)
    BY <1>1, SubSeqOfAppend
  <2> HIDE DEF new, b, len
  <2>3. ASSUME NEW j \in 1 .. len PROVE Continued(new, j)
    <3>1. CASE j < len
      <4>1. j + 1 \in 1 .. len
        BY <1>1, <3>1
      <4>2. new[j] = b[j] /\ new[j + 1] = b[j + 1] /\ SubSeq(new, 1, j) = SubSeq(b, 1, j)
        BY <1>3, <2>2, <4>1
      <4>3. QED
        BY <2>1, <3>1, <4>2 DEF Continued
    <3>2. CASE ~(j < len)
      <4>1. j = len /\ b # << >>
        BY <1>1, <3>2, EmptySeq DEF len
      <4>2. new[j] = b[len] /\ new[j + 1] = r
        BY <1>3, <4>1
      <4>3. SubSeq(new, 1, j) = b
        <5>1. SubSeq(b, 1, len) = b
          BY <1>1, SubSeqFull DEF len
        <5>2. QED
          BY <2>2, <4>1, <5>1
      <4>4. ~b[len].ends /\ (Transcripts!Lasts(b) < MAX_DURATION \/ r.mark)
        BY <4>1 DEF Open, b, len
      <4>5. QED
        BY <4>2, <4>3, <4>4 DEF Continued
    <3>3. QED
      BY <3>1, <3>2
  <2>4. ASSUME NEW j \in 1 .. len + 1 PROVE new[j].speaker = new[1].speaker
    <3>1. CASE j \in 1 .. len
      <4>1. 1 \in 1 .. len
        BY <1>1, <3>1
      <4>2. new[j] = b[j] /\ new[1] = b[1]
        BY <1>3, <3>1, <4>1
      <4>3. QED
        BY <2>1, <3>1, <4>2
    <3>2. CASE j = len + 1
      BY <1>3, <1>4, <3>2
    <3>3. QED
      BY <1>1, <3>1, <3>2
  <2>5. \A j \in 1 .. len + 1 : j < len + 1 => j \in 1 .. len
    BY <1>1
  <2>6. QED
    BY <1>3, <2>3, <2>4, <2>5 DEF Whole
<1>7. Grouped(with, Append(w, r))
  <2>1. \A i \in 1 .. Len(g.transcripts) : Whole(g.transcripts[i])
    BY DEF Grouped
  <2> HIDE DEF with, new
  <2>2. QED
    BY <1>2, <1>5, <1>6, <2>1 DEF Grouped
<1> HIDE DEF new
<1>8. QED
  BY <1>2, <1>3, <1>4, <1>7 DEF EndsWith

\* A mark has the speaker of the result before it.
MarkFits(r, w) == r.mark => w # << >> /\ r.speaker = w[Len(w)].speaker

\* _handle_transcript, of one result.
LEMMA HandleKeeps ==
  ASSUME NEW g, NEW w \in Seq(Result), NEW r \in Result, NEW next \in BOOLEAN,
         Grouped(g, w), Open(g, r.mark), MarkFits(r, w)
  PROVE  LET h == Transcripts!Handle(g, r, next)
         IN  Grouped(h, Append(w, r)) /\ Open(h, next)
<1> DEFINE before == IF Transcripts!SpeakerChanges(g, r) THEN Transcripts!Flush(g) ELSE g
           with == Added(before, r)
           h == Transcripts!Handle(g, r, next)
           v == Append(w, r)
<1>1. h = IF r.ends \/ (Transcripts!Lasts(with.buffered) >= MAX_DURATION /\ ~next)
          THEN Transcripts!Flush(with) ELSE with
  BY DEF Transcripts!Handle, Added
<1>2. /\ Grouped(before, w) /\ Open(before, r.mark)
      /\ before.buffered # << >> => before.speaker = r.speaker
  <2>1. CASE Transcripts!SpeakerChanges(g, r)
    <3>1. Grouped(before, w) /\ before.buffered = << >>
      BY <2>1, FlushKeeps
    <3>2. QED
      BY <3>1 DEF Open
  <2>2. CASE ~Transcripts!SpeakerChanges(g, r)
    <3>1. before = g
      BY <2>2
    <3>2. ASSUME g.buffered # << >> PROVE g.speaker = r.speaker
      <4> DEFINE b == g.buffered
                 all == FlattenSeq(g.transcripts)
                 len == Len(b)
      <4>1. /\ b \in Seq(Result) /\ all \in Seq(Result) /\ Joined(all, b) = w
            /\ len \in Nat \ {0} /\ g.speaker = b[1].speaker
        <5>1. g.transcripts \in Seq(Seq(Result)) /\ b \in Seq(Result)
          BY DEF Grouped, Group
        <5>2. all \in Seq(Result)
          BY <5>1, EmptySeq, FlattenOfAppend
        <5>3. Joined(all, b) = w /\ g.speaker = b[1].speaker
          BY <3>2 DEF Grouped, Open
        <5>4. QED
          BY <3>2, <5>1, <5>2, <5>3, EmptySeq, LenProperties
      <4>2. b[1].speaker \in Voices
        <5>1. b[1] \in Result
          BY <4>1, ElementOfSeq
        <5>2. QED
          BY <5>1, ResultFields
      <4>3. g.speaker # "none"
        <5>1. "none" \notin Voices
          BY WordsAssumption
        <5>2. QED
          BY <4>1, <4>2, <5>1
      <4>4. CASE r.mark
        <5> HIDE DEF all, b
        <5>1. Len(w) = Len(all) + len /\ Len(all) \in Nat /\ w[Len(all) + len] = b[len]
          <6>1. Len(all) \in Nat
            BY <4>1, LenProperties
          <6>2. /\ Len(all \o b) = Len(all) + Len(b)
                /\ \A i \in 1 .. Len(all) + Len(b) :
                     (all \o b)[i] = IF i =< Len(all) THEN all[i] ELSE b[i - Len(all)]
            BY <4>1, ConcatProperties
          <6> DEFINE k == Len(all)
                     u == all \o b
          <6> HIDE DEF k, u
          <6>3. /\ k \in Nat /\ Len(u) = k + len
                /\ \A i \in 1 .. k + len : u[i] = IF i =< k THEN all[i] ELSE b[i - k]
            BY <6>1, <6>2 DEF k, u
          <6> HIDE DEF len
          <6>4. k + len \in 1 .. k + len /\ ~(k + len =< k) /\ (k + len) - k = len
            BY <4>1, <6>3
          <6>5. u[k + len] = b[len]
            BY <6>3, <6>4
          <6>6. u = w
            BY <4>1 DEF u, Joined
          <6>7. QED
            BY <6>3, <6>5, <6>6 DEF k
        <5>2. len \in 1 .. len /\ b[len].speaker = b[1].speaker
          <6>1. len \in 1 .. len
            BY <4>1
          <6>2. QED
            BY <6>1 DEF Grouped, Whole, b
        <5>3. r.speaker = w[Len(w)].speaker
          BY <4>4 DEF MarkFits
        <5>4. QED
          BY <4>1, <5>1, <5>2, <5>3
      <4>5. CASE ~r.mark
        BY <2>2, <4>3, <4>5 DEF Transcripts!SpeakerChanges, Transcripts!NoSpeaker
      <4>6. QED
        BY <4>4, <4>5
    <3>3. QED
      BY <3>1, <3>2
  <2>3. QED
    BY <2>1, <2>2
<1> HIDE DEF before
<1>3. Grouped(with, v) /\ EndsWith(with, r)
  BY <1>2, AddKeeps
<1> HIDE DEF with, h, v
<1>4. CASE r.ends \/ (Transcripts!Lasts(with.buffered) >= MAX_DURATION /\ ~next)
  <2>1. h = Transcripts!Flush(with)
    BY <1>1, <1>4
  <2>2. Grouped(h, v) /\ h.buffered = << >>
    BY <1>3, <2>1, FlushKeeps
  <2>3. QED
    BY <2>2 DEF Open, h, v
<1>5. CASE ~(r.ends \/ (Transcripts!Lasts(with.buffered) >= MAX_DURATION /\ ~next))
  <2>1. h = with
    BY <1>1, <1>5
  <2>2. Transcripts!Lasts(with.buffered) < MAX_DURATION \/ next
    <3>1. Transcripts!Lasts(with.buffered) \in Int
      BY <1>3, LastsInt DEF Grouped, Group
    <3>2. MAX_DURATION \in Int
      BY WordsAssumption
    <3> DEFINE lasts == Transcripts!Lasts(with.buffered)
    <3>3. ~(lasts >= MAX_DURATION) \/ next
      BY <1>5
    <3> HIDE DEF lasts
    <3>4. lasts < MAX_DURATION \/ next
      BY <3>1, <3>2, <3>3 DEF lasts
    <3>5. QED
      BY <3>4 DEF lasts
  <2>3. ~r.ends
    BY <1>5
  <2>4. Open(with, next)
    BY <1>3, <2>2, <2>3 DEF Open, EndsWith
  <2>5. QED
    BY <1>3, <2>1, <2>4 DEF h, v
<1>6. QED
  BY <1>4, <1>5

\* What a message adds to a group is one again, whatever the results.
LEMMA HandleType ==
  ASSUME NEW g \in Group, NEW r \in Result, NEW next
  PROVE  Transcripts!Handle(g, r, next) \in Group
<1>1. ASSUME NEW f \in Group PROVE Transcripts!Flush(f) \in Group
  <2>1. CASE f.buffered = << >>
    BY <2>1 DEF Transcripts!Flush
  <2>2. CASE f.buffered # << >>
    <3> DEFINE t == Append(f.transcripts, f.buffered)
    <3>1. f.transcripts \in Seq(Seq(Result)) /\ f.buffered \in Seq(Result)
      BY DEF Group
    <3>2. t \in Seq(Seq(Result))
      BY <3>1, AppendProperties
    <3>3. Transcripts!Flush(f) = [buffered |-> << >>, speaker |-> "none", transcripts |-> t]
      BY <2>2 DEF Transcripts!Flush, Transcripts!NoSpeaker
    <3> HIDE DEF t
    <3>4. QED
      BY <3>2, <3>3, EmptySeq DEF Group
  <2>3. QED
    BY <2>1, <2>2
<1> DEFINE before == IF Transcripts!SpeakerChanges(g, r) THEN Transcripts!Flush(g) ELSE g
           with == Added(before, r)
<1>2. before \in Group
  BY <1>1
<1> HIDE DEF before
<1>3. with \in Group
  <2>1. r.speaker \in Voices
    BY ResultFields
  <2>2. Append(before.buffered, r) \in Seq(Result)
    <3>1. before.buffered \in Seq(Result)
      BY <1>2 DEF Group
    <3>2. QED
      BY <3>1, AppendProperties
  <2>3. QED
    BY <1>2, <2>1, <2>2 DEF Group, Added
<1>4. \/ Transcripts!Handle(g, r, next) = with
      \/ Transcripts!Handle(g, r, next) = Transcripts!Flush(with)
  BY DEF Transcripts!Handle, before, Added
<1> HIDE DEF with
<1>5. QED
  BY <1>1, <1>3, <1>4

\* Whether a mark follows the n-th result.
MarkFollows(results, n) == n < Len(results) /\ results[n + 1].mark

\* g holds the group after each beginning of the results.
AreHandled(g, results) ==
  g = [n \in 0 .. Len(results) |->
         IF n = 0 THEN group
         ELSE Transcripts!Handle(g[n - 1], results[n],
                                 n < Len(results) /\ results[n + 1].mark)]

LEMMA HandledExist ==
  ASSUME NEW results \in Seq(Result), group \in Group
  PROVE  \E g : AreHandled(g, results)
<1> DEFINE m == Len(results)
           Value(g, n) == Transcripts!Handle(g, results[n], n < m /\ results[n + 1].mark)
           step == [x \in Group \X (1 .. m) |-> Value(x[1], x[2])]
<1>1. m \in Nat /\ \A n \in 1 .. m : results[n] \in Result
  BY LenProperties, ElementOfSeq
<1>2. ASSUME NEW g \in Group, NEW n \in 1 .. m PROVE Value(g, n) \in Group
  BY <1>1, HandleType
<1> HIDE DEF m, Value
<1>3. IsStep(step, m, Group)
  BY <1>2 DEF IsStep
<1>4. ASSUME NEW g \in Group, NEW n \in 1 .. m PROVE step[<<g, n>>] = Value(g, n)
  <2> DEFINE x == <<g, n>>
  <2>1. x \in Group \X (1 .. m) /\ x[1] = g /\ x[2] = n
    OBVIOUS
  <2> HIDE DEF x
  <2>2. step[x] = Value(x[1], x[2])
    BY <2>1
  <2>3. QED
    BY <2>1, <2>2 DEF x
<1> HIDE DEF step
<1>5. PICK f : IsRecursion(f, m, Group, group, step)
  BY <1>1, <1>3, RecursionExists
<1>6. ASSUME NEW n \in 0 .. m
      PROVE  f[n] = IF n = 0 THEN group ELSE Value(f[n - 1], n)
  <2>1. CASE n = 0
    BY <1>5, <2>1 DEF IsRecursion
  <2>2. CASE n # 0
    <3>1. n \in 1 .. m /\ n - 1 \in 0 .. m
      BY <1>1, <2>2
    <3>2. f[n] = step[<<f[n - 1], n>>] /\ f[n - 1] \in Group
      BY <1>5, <3>1 DEF IsRecursion
    <3>3. QED
      BY <1>4, <2>2, <3>1, <3>2
  <2>3. QED
    BY <2>1, <2>2
<1>7. f = [n \in 0 .. m |-> IF n = 0 THEN group ELSE Value(f[n - 1], n)]
  <2>1. f = [n \in 0 .. m |-> f[n]]
    BY <1>5 DEF IsRecursion
  <2>2. QED
    BY <1>6, <2>1
<1>8. AreHandled(f, results)
  BY <1>7 DEF AreHandled, m, Value
<1>9. QED
  BY <1>8

\* _handle_transcript: all results of a message are put in the group, and what is
\* buffered at its end is not long.
LEMMA HandledKeeps ==
  ASSUME NEW m \in Transcripts!Message, received \in Seq(Result),
         Grouped(group, received), Open(group, FALSE)
  PROVE  /\ Grouped(Transcripts!Handled(m), received \o m)
         /\ Open(Transcripts!Handled(m), FALSE)
         /\ m \in Seq(Result) /\ received \o m \in Seq(Result)
<1> DEFINE g == CHOOSE g : AreHandled(g, m)
           len == Len(m)
           N == {n \in 0 .. len : /\ Grouped(g[n], received \o SubSeq(m, 1, n))
                                  /\ Open(g[n], MarkFollows(m, n))}
<1>1. /\ m \in Seq(Result)
      /\ \A i \in DOMAIN m :
           LET before == received \o SubSeq(m, 1, i - 1)
           IN  m[i].mark => /\ before # << >>
                            /\ ~Transcripts!Last(before).mark
                            /\ Transcripts!Last(before).speaker = m[i].speaker
  BY DEF Transcripts!Message, Transcripts!BoundedSeq, Transcripts!SeqOf, Result
<1>2. len \in Nat /\ \A n \in 1 .. len : m[n] \in Result /\ m[n].mark \in BOOLEAN
  BY <1>1, LenProperties, ElementOfSeq, ResultFields
<1>3. AreHandled(g, m)
  BY <1>1, HandledExist DEF Grouped
<1>4. Transcripts!Handled(m) = g[len]
  BY DEF Transcripts!Handled, AreHandled
<1>5. \A n \in 0 .. len :
        g[n] = IF n = 0 THEN group
               ELSE Transcripts!Handle(g[n - 1], m[n], MarkFollows(m, n))
  BY <1>3 DEF AreHandled, MarkFollows
<1>6. \A n \in 0 .. len : SubSeq(m, 1, n) \in Seq(Result)
  <2>1. ASSUME NEW n \in 0 .. len PROVE SubSeq(m, 1, n) \in Seq(Result)
    <3>1. \A i \in 1 .. n : m[i] \in Result
      BY <1>2
    <3>2. n \in Int
      OBVIOUS
    <3>3. QED
      BY <3>1, <3>2, SubSeqProperties
  <2>2. QED
    BY <2>1
<1> HIDE DEF g
<1>7. 0 \in N
  <2>1. 0 \in 0 .. len /\ g[0] = group
    BY <1>2, <1>5
  <2>2. SubSeq(m, 1, 0) = << >>
    BY SubSeqEmpty
  <2>3. received \o << >> = received
    BY ConcatEmptySeq
  <2>4. Grouped(g[0], received \o SubSeq(m, 1, 0))
    BY <2>1, <2>2, <2>3
  <2>5. Open(g[0], MarkFollows(m, 0))
    BY <2>1 DEF Open
  <2>6. QED
    BY <2>1, <2>4, <2>5
<1>8. ASSUME NEW n \in 0 .. len - 1, n \in N PROVE n + 1 \in N
  <2> DEFINE r == m[n + 1]
             begin == SubSeq(m, 1, n)
             w == received \o begin
             next == MarkFollows(m, n + 1)
  <2>1. /\ n + 1 \in 0 .. len /\ n + 1 \in 1 .. len /\ n + 1 # 0 /\ (n + 1) - 1 = n
        /\ n \in 0 .. len /\ n < len
    BY <1>2
  <2>2. Grouped(g[n], w) /\ Open(g[n], MarkFollows(m, n))
    BY <1>8
  <2>3. r \in Result /\ r.mark \in BOOLEAN /\ begin \in Seq(Result)
    BY <1>2, <1>6, <2>1
  <2>4. Open(g[n], r.mark)
    BY <2>1, <2>2 DEF Open, MarkFollows
  <2>5. MarkFits(r, w)
    <3>1. n + 1 \in DOMAIN m
      BY <1>1, <2>1, LenProperties
    <3>2. LET before == received \o SubSeq(m, 1, (n + 1) - 1)
          IN  m[n + 1].mark => before # << >> /\ Transcripts!Last(before).speaker = m[n + 1].speaker
      BY <1>1, <3>1
    <3>3. r.mark => w # << >> /\ Transcripts!Last(w).speaker = r.speaker
      BY <2>1, <3>2
    <3> HIDE DEF w, r
    <3>4. QED
      BY <3>3 DEF MarkFits, Transcripts!Last
  <2>6. w \in Seq(Result) /\ received \o SubSeq(m, 1, n + 1) = Append(w, r)
    <3>1. SubSeq(m, 1, n + 1) = Append(begin, r)
      <4>1. n \in 0 .. Len(m) - 1
        OBVIOUS
      <4>2. QED
        BY <1>1, <4>1, OneMoreOfSubSeq
    <3> HIDE DEF begin, r
    <3>2. received \o Append(begin, r) = Append(received \o begin, r)
      BY <2>3, AppendToConcat
    <3>3. received \o begin \in Seq(Result)
      BY <2>3, ConcatProperties
    <3>4. QED
      BY <3>1, <3>2, <3>3
  <2>7. g[n + 1] = Transcripts!Handle(g[n], r, next)
    BY <1>5, <2>1
  <2>8. next \in BOOLEAN
    BY <1>2, <2>1 DEF MarkFollows
  <2> DEFINE f == g[n]
  <2> HIDE DEF w, r, next, f
  <2>9. LET h == Transcripts!Handle(f, r, next)
        IN  Grouped(h, Append(w, r)) /\ Open(h, next)
    <3>1. Grouped(f, w) /\ Open(f, r.mark)
      BY <2>2, <2>4 DEF f, w
    <3>2. QED
      BY <2>3, <2>5, <2>6, <2>8, <3>1, HandleKeeps
  <2>10. Grouped(g[n + 1], Append(w, r)) /\ Open(g[n + 1], next)
    BY <2>7, <2>9 DEF f
  <2>11. QED
    BY <2>1, <2>6, <2>10 DEF next
<1> HIDE DEF N, len
<1>9. len \in N
  <2>1. \A n \in 0 .. len : n \in N
    BY <1>2, <1>7, <1>8, UpToInduction
  <2>2. QED
    BY <1>2, <2>1
<1>10. Grouped(g[len], received \o SubSeq(m, 1, len)) /\ Open(g[len], MarkFollows(m, len))
  BY <1>9 DEF N
<1>11. SubSeq(m, 1, len) = m
  BY <1>1, SubSeqFull DEF len
<1>12. MarkFollows(m, len) = FALSE
  BY <1>2 DEF MarkFollows, len
<1>13. received \o m \in Seq(Result)
  BY <1>1, ConcatProperties
<1>14. QED
  BY <1>1, <1>4, <1>10, <1>11, <1>12, <1>13

-----------------------------------------------------------------------------
\* The transcripts of the other provider: the inductive invariant.

\* What is received after the end of the transcript is not waited for: unless an error
\* was reported, nothing is buffered then.
TranscriptsOK ==
  /\ received \in Seq(Result)
  /\ Grouped(group, received) /\ Open(group, FALSE)
  /\ end_received /\ ~reported => group.buffered = << >>
  /\ finish = "returned" => end_received /\ group.buffered = << >>

LEMMA TranscriptsInit == Transcripts!Init => TranscriptsOK
<1> SUFFICES ASSUME Transcripts!Init PROVE TranscriptsOK
  OBVIOUS
<1>1. /\ group = [buffered |-> << >>, speaker |-> "none", transcripts |-> << >>]
      /\ received = << >> /\ finish = "not called" /\ end_received = FALSE
  BY DEF Transcripts!Init, Transcripts!NoSpeaker
<1>2. /\ group.buffered = << >> /\ group.transcripts = << >> /\ Len(<< >>) = 0
      /\ << >> \in Seq(Result)
  BY <1>1, EmptySeq
<1>3. group \in Group
  BY <1>1, EmptySeq DEF Group
<1>4. FlattenSeq(<< >>) = << >>
  BY <1>2 DEF FlattenSeq
<1>5. Joined(<< >>, << >>) = << >>
  BY <1>2, ConcatEmptySeq DEF Joined
<1>6. Grouped(group, received)
  <2>1. Joined(FlattenSeq(group.transcripts), group.buffered) = received
    <3>1. group.transcripts = << >> /\ group.buffered = << >> /\ received = << >>
      BY <1>1, <1>2
    <3>2. QED
      BY <1>4, <1>5, <3>1
  <2>2. Whole(group.buffered) /\ \A i \in 1 .. Len(group.transcripts) : Whole(group.transcripts[i])
    BY <1>2 DEF Whole
  <2>3. QED
    BY <1>3, <2>1, <2>2 DEF Grouped
<1>7. QED
  BY <1>1, <1>2, <1>6 DEF TranscriptsOK, Open

LEMMA TranscriptsNext ==
  TranscriptsOK /\ (Transcripts!Next \/ UNCHANGED transcriptsVars) => TranscriptsOK'
<1> SUFFICES ASSUME TranscriptsOK, Transcripts!Next \/ UNCHANGED transcriptsVars
             PROVE  TranscriptsOK'
  OBVIOUS
<1>1. ASSUME UNCHANGED <<group, received>>
      PROVE  (received \in Seq(Result) /\ Grouped(group, received) /\ Open(group, FALSE))'
  BY <1>1 DEF TranscriptsOK, Grouped, Open
<1>2. CASE Transcripts!HandleTranscript
  <2>1. PICK m \in Transcripts!Message :
          group' = Transcripts!Handled(m) /\ received' = received \o m
    BY <1>2 DEF Transcripts!HandleTranscript
  <2>2. ~end_received /\ UNCHANGED <<reported, end_received, finish>>
    BY <1>2 DEF Transcripts!HandleTranscript
  <2>3. finish # "returned"
    BY <2>2 DEF TranscriptsOK
  <2>4. received' \in Seq(Result) /\ Grouped(group', received') /\ Open(group', FALSE)
    BY <2>1, HandledKeeps DEF TranscriptsOK
  <2>5. Grouped(group, received)' /\ Open(group, FALSE)'
    BY <2>4 DEF Grouped, Open
  <2>6. QED
    BY <2>2, <2>3, <2>4, <2>5 DEF TranscriptsOK
<1>3. CASE Transcripts!HandleEnd
  <2>1. /\ ~end_received /\ end_received' = TRUE /\ UNCHANGED <<finish, received>>
        /\ IF finish # "not called" THEN group' = Transcripts!Flush(group) /\ UNCHANGED reported
           ELSE reported' = TRUE /\ UNCHANGED group
    BY <1>3 DEF Transcripts!HandleEnd, Transcripts!Report
  <2>2. finish # "returned"
    BY <2>1 DEF TranscriptsOK
  <2>3. CASE finish # "not called"
    <3>1. group' = Transcripts!Flush(group)
      BY <2>1, <2>3
    <3>2. Grouped(group', received') /\ group'.buffered = << >> /\ received' \in Seq(Result)
      BY <2>1, <3>1, FlushKeeps DEF TranscriptsOK
    <3>3. Grouped(group, received)' /\ Open(group, FALSE)'
      BY <3>2 DEF Grouped, Open
    <3>4. QED
      BY <2>1, <2>2, <3>2, <3>3 DEF TranscriptsOK
  <2>4. CASE finish = "not called"
    <3>1. UNCHANGED <<group, received>> /\ reported' = TRUE
      BY <2>1, <2>4
    <3>2. QED
      BY <1>1, <2>1, <2>2, <3>1 DEF TranscriptsOK
  <2>5. QED
    BY <2>3, <2>4
<1>4. CASE Transcripts!HandleError
  <2>1. UNCHANGED <<group, end_received, finish, received>> /\ reported' = TRUE
    BY <1>4 DEF Transcripts!HandleError, Transcripts!Report
  <2>2. QED
    BY <1>1, <2>1 DEF TranscriptsOK
<1>5. CASE Transcripts!Finish
  <2>1. UNCHANGED <<group, reported, end_received, received>> /\ finish' = "waiting"
    BY <1>5 DEF Transcripts!Finish
  <2>2. QED
    BY <1>1, <2>1 DEF TranscriptsOK
<1>6. CASE Transcripts!FinishEnds
  <2>1. /\ UNCHANGED <<group, end_received, received>>
        /\ reported' = reported \/ reported' = TRUE
    BY <1>6 DEF Transcripts!FinishEnds, Transcripts!Report
  <2>2. finish' = "returned" => ~reported /\ end_received
    BY <1>6 DEF Transcripts!FinishEnds
  <2>3. QED
    BY <1>1, <2>1, <2>2 DEF TranscriptsOK
<1>7. CASE Transcripts!Close
  <2>1. UNCHANGED <<group, reported, end_received, finish, received>>
    BY <1>7 DEF Transcripts!Close
  <2>2. QED
    BY <1>1, <2>1 DEF TranscriptsOK
<1>8. CASE UNCHANGED transcriptsVars
  <2>1. UNCHANGED <<group, reported, end_received, finish, received>>
    BY <1>8 DEF transcriptsVars
  <2>2. QED
    BY <1>1, <2>1 DEF TranscriptsOK
<1>9. QED
  BY <1>2, <1>3, <1>4, <1>5, <1>6, <1>7, <1>8 DEF Transcripts!Next

\* A step of the computations is a step of the transcripts', or leaves them.
LEMMA StepOfTranscripts ==
  ASSUME [Next]_vars
  PROVE  Transcripts!Next \/ UNCHANGED transcriptsVars
BY DEF Next, vars, AssignmentStep, AttributionStep, ContextStep, TranscriptsStep, BatchStep

THEOREM TranscriptsAlwaysGrouped == Spec => []TranscriptsOK
<1>1. Init => TranscriptsOK
  BY TranscriptsInit DEF Init
<1>2. TranscriptsOK /\ [Next]_vars => TranscriptsOK'
  BY StepOfTranscripts, TranscriptsNext
<1>3. QED
  BY <1>1, <1>2, PTL DEF Spec

\* For words of any length and messages of any size: every result that was received
\* is in one transcript or buffered, in order, none is left when finish() returns,
\* and a transcript has one speaker, one sentence and no more than its limit
\* (_handle_transcript, _flush_transcript, _handle_end, finish).
THEOREM WordsAlwaysKept == Spec => []WordsKept
<1>1. TranscriptsOK => WordsKept
  <2> SUFFICES ASSUME TranscriptsOK PROVE Transcripts!WordsKept
    BY DEF WordsKept
  <2>1. /\ Transcripts!FlattenSeq(group.transcripts) \o group.buffered = received
        /\ finish = "returned" => group.buffered = << >>
    BY SameFlattened DEF TranscriptsOK, Grouped, Joined
  <2>2. ASSUME NEW t \in Transcripts!ToSet(group.transcripts), NEW j \in DOMAIN t
        PROVE  /\ t[j].speaker = t[1].speaker
               /\ j < Len(t) => /\ ~t[j].ends
                                /\ \/ Transcripts!Lasts(SubSeq(t, 1, j)) < MAX_DURATION
                                   \/ t[j + 1].mark
    <3>1. group.transcripts \in Seq(Seq(Result))
      BY DEF TranscriptsOK, Grouped, Group
    <3>2. PICK i \in 1 .. Len(group.transcripts) : t = group.transcripts[i]
      BY <3>1, LenProperties DEF Transcripts!ToSet
    <3>3. t \in Seq(Result)
      BY <3>1, <3>2, ElementOfSeq
    <3>4. j \in 1 .. Len(t)
      BY <3>3, LenProperties
    <3>5. Whole(t)
      BY <3>2 DEF TranscriptsOK, Grouped
    <3>6. QED
      BY <3>4, <3>5 DEF Whole, Continued
  <2>3. QED
    BY <2>1, <2>2 DEF Transcripts!WordsKept
<1>2. QED
  BY <1>1, TranscriptsAlwaysGrouped, PTL

-----------------------------------------------------------------------------
\* The speaker of a segment: what spans cover.

\* The model sums and chooses like the library.
LEMMA SameSum == \A f : Attribution!SumFunction(f) = SumFunction(f)
BY DEF Attribution!SumFunction, Attribution!SumFunctionOnSet,
       Attribution!FoldFunctionOnSet, Attribution!MapThenFoldSet,
       SumFunction, SumFunctionOnSet, FoldFunctionOnSet, MapThenFoldSet

LEMMA MinOfTwo ==
  ASSUME NEW a \in Int, NEW b \in Int
  PROVE  Attribution!Min({a, b}) = IF a < b THEN a ELSE b
<1> DEFINE m == IF a < b THEN a ELSE b
<1>1. m \in {a, b} /\ \A y \in {a, b} : m =< y
  OBVIOUS
<1>2. \A x \in {a, b} : (\A y \in {a, b} : x =< y) => x = m
  OBVIOUS
<1> HIDE DEF m
<1>3. (CHOOSE x \in {a, b} : \A y \in {a, b} : x =< y) = m
  BY <1>1, <1>2
<1>4. QED
  BY <1>3 DEF Attribution!Min, m

\* Times from a start up to an end that is not before it.
Times == {i \in [start : Int, end : Int] : i.start =< i.end}

\* The overlap of a span and a segment is how many times they have in common.
LEMMA OverlapCounts ==
  ASSUME NEW span, NEW seg \in Times, span.start \in Int, span.end \in Int
  PROVE  LET both == Attribution!Covered(span) \cap Attribution!Covered(seg)
         IN  /\ IsFiniteSet(both)
             /\ Attribution!Overlap(span, seg) = Cardinality(both)
             /\ Cardinality(both) \in Int
<1> DEFINE from == IF span.start < seg.start THEN seg.start ELSE span.start
           to == IF span.end < seg.end THEN span.end ELSE seg.end
           both == Attribution!Covered(span) \cap Attribution!Covered(seg)
<1>1. /\ span.start \in Int /\ span.end \in Int /\ seg.start \in Int /\ seg.end \in Int
      /\ from \in Int /\ to \in Int /\ to - 1 \in Int
  BY DEF Times
<1>2. both = from .. to - 1
  BY <1>1 DEF Attribution!Covered
<1>3. /\ IsFiniteSet(from .. to - 1)
      /\ Cardinality(from .. to - 1) = IF from > to - 1 THEN 0 ELSE (to - 1) - from + 1
  BY <1>1, FS_Interval
<1>4. /\ Attribution!Larger(span.start, seg.start) = from
      /\ Attribution!Min({span.end, seg.end}) = to
  BY <1>1, MinOfTwo DEF Attribution!Larger
<1>5. Attribution!Overlap(span, seg) = Attribution!Larger(0, to - from)
  BY <1>4 DEF Attribution!Overlap
<1> HIDE DEF from, to, both
<1>6. Attribution!Larger(0, to - from) = IF from > to - 1 THEN 0 ELSE (to - 1) - from + 1
  BY <1>1 DEF Attribution!Larger
<1>7. Cardinality(both) \in Int
  BY <1>1, <1>2, <1>3
<1>8. QED
  BY <1>2, <1>3, <1>5, <1>6, <1>7 DEF both

Span == [start : Int, end : Int]

\* The spans are in order, with a gap between any two.
Apart(spans) ==
  /\ spans \in Seq(Span)
  /\ \A k \in 1 .. Len(spans) : spans[k].start < spans[k].end
  /\ \A k, l \in 1 .. Len(spans) : k < l => spans[k].end < spans[l].start

\* What the first n spans cover.
CoveredTo(spans, n) == UNION {Attribution!Covered(spans[k]) : k \in 1 .. n}

\* The overlaps of the first n spans.
Overlaps(spans, seg, n) == [k \in 1 .. n |-> Attribution!Overlap(spans[k], seg)]

\* The overlaps of spans count every time once.
LEMMA TotalCounts ==
  ASSUME NEW spans, Apart(spans), NEW seg \in Times
  PROVE  SumFunction(Overlaps(spans, seg, Len(spans)))
           = Cardinality(CoveredTo(spans, Len(spans)) \cap Attribution!Covered(seg))
<1> DEFINE len == Len(spans)
           C == Attribution!Covered(seg)
           U(n) == CoveredTo(spans, n) \cap C
           Q(n) == Overlaps(spans, seg, n)
           N == {n \in 0 .. len : /\ IsFiniteSet(U(n)) /\ Q(n) \in Seq(Int)
                                  /\ SumFunction(Q(n)) = Cardinality(U(n))}
<1>1. /\ len \in Nat
      /\ \A k \in 1 .. len : spans[k].start \in Int /\ spans[k].end \in Int
  <2>1. spans \in Seq(Span)
    BY DEF Apart
  <2>2. \A k \in 1 .. len : spans[k] \in Span
    BY <2>1, ElementOfSeq
  <2>3. QED
    BY <2>1, <2>2, LenProperties DEF Span
<1>2. \A k \in 1 .. len :
        LET both == Attribution!Covered(spans[k]) \cap C
        IN  /\ IsFiniteSet(both) /\ Attribution!Overlap(spans[k], seg) = Cardinality(both)
            /\ Cardinality(both) \in Int
  BY <1>1, OverlapCounts
<1>3. 0 \in N
  <2>1. U(0) = {} /\ Q(0) = << >>
    BY DEF CoveredTo, Overlaps
  <2>2. IsFiniteSet({}) /\ Cardinality({}) = 0 /\ << >> \in Seq(Int)
    BY FS_EmptySet
  <2> HIDE DEF U, Q, len
  <2>3. 0 \in 0 .. len
    BY <1>1
  <2>4. IsFiniteSet(U(0)) /\ Q(0) \in Seq(Int)
    BY <2>1, <2>2
  <2>5. SumFunction(Q(0)) = Cardinality(U(0))
    BY <2>1, <2>2, SumOfEmpty
  <2>6. QED
    BY <2>3, <2>4, <2>5
<1>4. ASSUME NEW n \in 0 .. len - 1, n \in N PROVE n + 1 \in N
  <2> DEFINE both == Attribution!Covered(spans[n + 1]) \cap C
             o == Attribution!Overlap(spans[n + 1], seg)
  <2>1. n + 1 \in 1 .. len /\ n + 1 \in 0 .. len /\ n \in 0 .. len /\ n \in Nat
    BY <1>1
  <2>2. /\ IsFiniteSet(both) /\ o = Cardinality(both) /\ Cardinality(both) \in Int
    BY <1>2, <2>1
  <2>3. IsFiniteSet(U(n)) /\ Q(n) \in Seq(Int) /\ SumFunction(Q(n)) = Cardinality(U(n))
    BY <1>4
  <2>4. U(n + 1) = U(n) \cup both
    <3>1. \A k : k \in 1 .. n + 1 <=> k \in 1 .. n \/ k = n + 1
      BY <2>1
    <3>2. CoveredTo(spans, n + 1) = CoveredTo(spans, n) \cup Attribution!Covered(spans[n + 1])
      BY <3>1 DEF CoveredTo
    <3>3. QED
      BY <3>2
  <2>5. U(n) \cap both = {}
    <3>1. ASSUME NEW x \in CoveredTo(spans, n), x \in Attribution!Covered(spans[n + 1])
          PROVE  FALSE
      <4>1. PICK k \in 1 .. n : x \in Attribution!Covered(spans[k])
        BY DEF CoveredTo
      <4>2. k \in 1 .. len /\ k < n + 1
        BY <1>1, <2>1
      <4>3. spans[k].end < spans[n + 1].start
        BY <2>1, <4>2 DEF Apart
      <4>4. x \in spans[k].start .. spans[k].end - 1
        BY <4>1 DEF Attribution!Covered
      <4>5. x \in spans[n + 1].start .. spans[n + 1].end - 1
        BY <3>1 DEF Attribution!Covered
      <4>6. spans[k].end \in Int /\ spans[n + 1].start \in Int
        BY <1>1, <2>1, <4>2
      <4>7. QED
        BY <4>3, <4>4, <4>5, <4>6
    <3>2. QED
      BY <3>1
  <2>6. Q(n + 1) = Append(Q(n), o)
    <3>1. \A k \in 1 .. n + 1 : k \in 1 .. n \/ k = n + 1
      BY <2>1
    <3> DEFINE q == Q(n)
               r == Q(n + 1)
    <3>2. /\ q \in Seq(Int) /\ Len(q) = n /\ \A k \in 1 .. n : q[k] = Attribution!Overlap(spans[k], seg)
      BY <2>1, <2>3 DEF Overlaps
    <3>3. r = [k \in 1 .. n + 1 |-> Attribution!Overlap(spans[k], seg)]
      BY DEF Overlaps
    <3> HIDE DEF q, r
    <3> DEFINE a == Append(q, o)
    <3>4. /\ a \in Seq(Int) /\ Len(a) = n + 1 /\ a[n + 1] = o
          /\ \A k \in 1 .. n : a[k] = q[k]
      <4>1. o \in Int
        BY <2>2
      <4> HIDE DEF o
      <4>2. QED
        BY <3>2, <4>1, AppendProperties
    <3>5. a = [k \in 1 .. n + 1 |-> a[k]]
      BY <2>1, <3>4
    <3>6. \A k \in 1 .. n + 1 : a[k] = Attribution!Overlap(spans[k], seg)
      BY <3>1, <3>2, <3>4
    <3> HIDE DEF a, o
    <3>7. a = r
      BY <3>3, <3>5, <3>6
    <3>8. QED
      BY <3>7 DEF a, q, r
  <2> HIDE DEF both, o, U, Q, len, C
  <2>7. o \in Int
    BY <2>2
  <2>8. Q(n + 1) \in Seq(Int)
    BY <2>3, <2>6, <2>7, AppendProperties
  <2>9. SumFunction(Q(n + 1)) = SumFunction(Q(n)) + o
    BY <2>3, <2>6, <2>7, SumOfAppend
  <2>10. IsFiniteSet(U(n + 1)) /\ Cardinality(U(n + 1)) = Cardinality(U(n)) + Cardinality(both)
    <3>1. /\ IsFiniteSet(U(n) \cup both)
          /\ Cardinality(U(n) \cup both)
               = Cardinality(U(n)) + Cardinality(both) - Cardinality(U(n) \cap both)
      BY <2>2, <2>3, FS_Union
    <3>2. Cardinality({}) = 0
      BY FS_EmptySet
    <3>3. Cardinality(U(n)) \in Int /\ Cardinality(both) \in Int
      BY <2>2, <2>3, FS_CardinalityType
    <3> DEFINE a == Cardinality(U(n))
               b == Cardinality(both)
    <3>4. IsFiniteSet(U(n + 1)) /\ Cardinality(U(n + 1)) = a + b - 0
      BY <2>4, <2>5, <3>1, <3>2
    <3> HIDE DEF a, b
    <3>5. a + b - 0 = a + b
      BY <3>3 DEF a, b
    <3>6. QED
      BY <3>4, <3>5 DEF a, b
  <2>11. QED
    BY <2>1, <2>2, <2>8, <2>9, <2>10, <2>3
<1> HIDE DEF N
<1>5. len \in N
  <2>1. \A n \in 0 .. len : n \in N
    BY <1>1, <1>3, <1>4, UpToInduction
  <2>2. QED
    BY <1>1, <2>1
<1>6. QED
  BY <1>5 DEF N

-----------------------------------------------------------------------------
\* The speaker of a segment: the inductive invariant.

\* What the spans cover.
Reached(spans) == CoveredTo(spans, Len(spans))

\* The spans merged of each speaker cover what the speaker said in the intervals so
\* far, and none starts after an interval that is still to come.
MergedOK ==
  /\ merged \in [Speakers -> Seq(Span)]
  /\ \A s \in Speakers : Apart(merged[s]) /\ Reached(merged[s]) = Attribution!Said(s)
  /\ \A s \in Speakers : \A k \in 1 .. Len(merged[s]) :
       \A i \in position + 1 .. Len(intervals) : merged[s][k].start =< intervals[i].start

IntervalsOK ==
  /\ intervals \in Seq(Attribution!Interval)
  /\ \A i, j \in 1 .. Len(intervals) : i < j => intervals[i].start =< intervals[j].start
  /\ position \in 0 .. Len(intervals)

\* The spans of the speaker overlap the segment longest.
Longest ==
  \A s \in Speakers :
    (speaker = s) = (Attribution!TotalOf(s, segment) > 0 /\ Attribution!Alone(s, segment))

\* A segment has been attributed once all intervals were merged.
AttributionOK ==
  /\ IntervalsOK /\ MergedOK
  /\ segment \in Times
  /\ segment # Attribution!NoSegment => position = Len(intervals) /\ Longest

LEMMA TimesAreInt ==
  /\ Attribution!Segment \subseteq Times
  /\ \A i \in Attribution!Interval :
       /\ i.start \in Int /\ i.end \in Int /\ i.start < i.end /\ i.speaker \in Speakers
<1>1. Instants \subseteq Int
  BY AttributionAssumption
<1>2. QED
  BY <1>1 DEF Times, Attribution!Segment, Attribution!Interval

LEMMA AttributionInit == Attribution!Init => AttributionOK
<1> SUFFICES ASSUME Attribution!Init PROVE AttributionOK
  OBVIOUS
<1>1. PICK n \in 0 .. MaxIntervals :
        intervals \in {is \in [1 .. n -> Attribution!Interval] : Attribution!Sorted(is)}
  BY DEF Attribution!Init
<1>2. /\ position = 0 /\ merged = [s \in Speakers |-> << >>]
      /\ segment = Attribution!NoSegment
  BY DEF Attribution!Init
<1>3. IntervalsOK
  <2>1. /\ n \in Nat /\ intervals \in [1 .. n -> Attribution!Interval]
        /\ Attribution!Sorted(intervals)
    BY <1>1
  <2>2. intervals \in Seq(Attribution!Interval) /\ Len(intervals) = n /\ DOMAIN intervals = 1 .. n
    BY <2>1
  <2>3. QED
    BY <1>2, <2>1, <2>2 DEF IntervalsOK, Attribution!Sorted
<1>4. MergedOK
  <2>1. \A s \in Speakers : merged[s] = << >>
    BY <1>2
  <2>2. Len(<< >>) = 0 /\ << >> \in Seq(Span)
    BY EmptySeq
  <2>3. merged \in [Speakers -> Seq(Span)]
    BY <1>2, <2>2
  <2>4. Apart(<< >>)
    BY <2>2 DEF Apart
  <2>5. Reached(<< >>) = {}
    BY <2>2 DEF Reached, CoveredTo
  <2>6. \A s \in Speakers : Attribution!Said(s) = {}
    BY <1>2 DEF Attribution!Said
  <2>7. \A s \in Speakers : Len(merged[s]) = 0
    BY <2>1, <2>2
  <2>8. \A s \in Speakers : \A k \in 1 .. Len(merged[s]) :
          \A i \in position + 1 .. Len(intervals) : merged[s][k].start =< intervals[i].start
    BY <2>7
  <2>9. \A s \in Speakers : Apart(merged[s]) /\ Reached(merged[s]) = Attribution!Said(s)
    BY <2>1, <2>4, <2>5, <2>6
  <2>10. QED
    BY <2>3, <2>8, <2>9 DEF MergedOK
<1>5. segment \in Times
  BY <1>2 DEF Times, Attribution!NoSegment
<1>6. QED
  BY <1>2, <1>3, <1>4, <1>5 DEF AttributionOK

\* The interval that is merged next.
Coming == intervals[position + 1]

LEMMA ComingIs ==
  ASSUME IntervalsOK, position < Len(intervals)
  PROVE  /\ position + 1 \in 1 .. Len(intervals) /\ position \in Nat /\ Len(intervals) \in Nat
         /\ Coming.start \in Int /\ Coming.end \in Int /\ Coming.start < Coming.end
         /\ Coming.speaker \in Speakers
         /\ \A i \in position + 2 .. Len(intervals) : Coming.start =< intervals[i].start
<1>1. /\ position + 1 \in 1 .. Len(intervals) /\ position \in Nat /\ Len(intervals) \in Nat
  BY LenProperties DEF IntervalsOK
<1>2. Coming \in Attribution!Interval
  BY <1>1, ElementOfSeq DEF IntervalsOK, Coming
<1>3. \A i \in position + 2 .. Len(intervals) : i \in 1 .. Len(intervals) /\ position + 1 < i
  BY <1>1
<1>4. \A i \in position + 2 .. Len(intervals) : Coming.start =< intervals[i].start
  BY <1>1, <1>3 DEF IntervalsOK, Coming
<1>5. QED
  BY <1>1, <1>2, <1>4, TimesAreInt

\* If the spans of the speaker of the interval come to cover it too, and no others
\* change, the invariant goes on to the next interval.
LEMMA MergeKeeps ==
  ASSUME AttributionOK, position < Len(intervals), position' = position + 1,
         UNCHANGED <<intervals, segment, speaker>>,
         NEW spans \in Seq(Span), Apart(spans),
         merged' = [merged EXCEPT ![Coming.speaker] = spans],
         Reached(spans) = Reached(merged[Coming.speaker]) \cup Attribution!Covered(Coming),
         \A k \in 1 .. Len(spans) :
           \/ spans[k].start = Coming.start
           \/ /\ k \in 1 .. Len(merged[Coming.speaker])
              /\ spans[k].start = merged[Coming.speaker][k].start
  PROVE  AttributionOK'
<1> DEFINE v == Coming.speaker
           p == position + 1
<1>1. /\ p \in 1 .. Len(intervals) /\ position \in Nat /\ Len(intervals) \in Nat
      /\ v \in Speakers
      /\ \A i \in position + 2 .. Len(intervals) : Coming.start =< intervals[i].start
  BY ComingIs DEF AttributionOK
<1>2. /\ merged \in [Speakers -> Seq(Span)]
      /\ \A s \in Speakers : Apart(merged[s]) /\ Reached(merged[s]) = Attribution!Said(s)
      /\ \A s \in Speakers : \A k \in 1 .. Len(merged[s]) :
           \A i \in position + 1 .. Len(intervals) : merged[s][k].start =< intervals[i].start
  BY DEF AttributionOK, MergedOK
<1> DEFINE m == merged'
<1>3. /\ m \in [Speakers -> Seq(Span)] /\ m[v] = spans
      /\ \A s \in Speakers \ {v} : m[s] = merged[s]
  BY <1>1, <1>2
<1> HIDE DEF m, v
<1>4. IntervalsOK'
  BY <1>1 DEF AttributionOK, IntervalsOK
<1>5. \A s \in Speakers : Attribution!Said(s)' =
        IF s = v THEN Attribution!Said(s) \cup Attribution!Covered(Coming) ELSE Attribution!Said(s)
  <2>1. \A j : j \in 1 .. position + 1 <=> j \in 1 .. position \/ j = position + 1
    BY <1>1
  <2>2. \A s \in Speakers : Attribution!Said(s)' =
          UNION {Attribution!Covered(intervals[i]) :
                   i \in {j \in 1 .. position + 1 : intervals[j].speaker = s}}
    BY DEF Attribution!Said, Attribution!Covered
  <2>3. \A s \in Speakers : {j \in 1 .. position + 1 : intervals[j].speaker = s} =
          {j \in 1 .. position : intervals[j].speaker = s}
            \cup (IF s = v THEN {position + 1} ELSE {})
    BY <2>1 DEF v, Coming
  <2>4. ASSUME NEW s \in Speakers
        PROVE  Attribution!Said(s)' =
                 IF s = v THEN Attribution!Said(s) \cup Attribution!Covered(Coming)
                 ELSE Attribution!Said(s)
    <3> DEFINE J == {j \in 1 .. position : intervals[j].speaker = s}
               C(j) == Attribution!Covered(intervals[j])
    <3>1. Attribution!Said(s) = UNION {C(i) : i \in J}
      BY DEF Attribution!Said
    <3>2. Attribution!Said(s)' = UNION {C(i) : i \in J \cup (IF s = v THEN {position + 1} ELSE {})}
      BY <2>2, <2>3
    <3>3. Attribution!Covered(Coming) = C(position + 1)
      BY DEF Coming
    <3> HIDE DEF J, C
    <3>4. CASE s = v
      BY <3>1, <3>2, <3>3, <3>4
    <3>5. CASE s # v
      BY <3>1, <3>2, <3>3, <3>5
    <3>6. QED
      BY <3>4, <3>5
  <2>5. QED
    BY <2>4
<1>6. \A s \in Speakers : Apart(m[s])
  BY <1>2, <1>3
<1>7. \A s \in Speakers : Reached(m[s]) = Attribution!Said(s)'
  <2>1. ASSUME NEW s \in Speakers PROVE Reached(m[s]) = Attribution!Said(s)'
    <3>1. CASE s = v
      BY <1>2, <1>3, <1>5, <3>1 DEF v
    <3>2. CASE s # v
      BY <1>2, <1>3, <1>5, <3>2
    <3>3. QED
      BY <3>1, <3>2
  <2>2. QED
    BY <2>1
<1>8. ASSUME NEW s \in Speakers, NEW k \in 1 .. Len(m[s]), NEW i \in position + 2 .. Len(intervals)
      PROVE  m[s][k].start =< intervals[i].start
  <2>1. i \in position + 1 .. Len(intervals)
    BY <1>1
  <2>2. CASE s # v
    <3>1. m[s] = merged[s]
      BY <1>3, <2>2
    <3>2. QED
      BY <1>2, <2>1, <3>1
  <2>3. CASE s = v
    <3>1. m[s] = spans /\ k \in 1 .. Len(spans)
      BY <1>3, <2>3
    <3>2. CASE spans[k].start = Coming.start
      BY <1>1, <3>1, <3>2
    <3>3. CASE k \in 1 .. Len(merged[v]) /\ spans[k].start = merged[v][k].start
      BY <1>1, <1>2, <2>1, <3>1, <3>3
    <3>4. QED
      BY <3>1, <3>2, <3>3 DEF v
  <2>4. QED
    BY <2>2, <2>3
<1>9. MergedOK'
  <2>1. (position + 1) + 1 = position + 2
    BY <1>1
  <2>2. \A s \in Speakers : \A k \in 1 .. Len(m[s]) :
          \A i \in position' + 1 .. Len(intervals') : m[s][k].start =< intervals'[i].start
    BY <1>8, <2>1
  <2>3. \A s \in Speakers : Apart(merged[s])' /\ Reached(merged[s])' = Attribution!Said(s)'
    BY <1>6, <1>7 DEF m, Apart, Reached, CoveredTo, Attribution!Covered
  <2>4. QED
    BY <1>3, <2>2, <2>3 DEF MergedOK, m
<1>10. position # Len(intervals)
  BY <1>1
<1>11. segment' \in Times /\ segment' = Attribution!NoSegment
  BY <1>10 DEF AttributionOK
<1>12. segment' = Attribution!NoSegment'
  BY <1>11 DEF Attribution!NoSegment
<1>13. QED
  BY <1>4, <1>9, <1>11, <1>12 DEF AttributionOK

\* The last span is made to end later.
LEMMA JoinKeeps ==
  ASSUME AttributionOK, Attribution!Join
  PROVE  AttributionOK'
<1> DEFINE v == Coming.speaker
           old == merged[v]
           n == Len(old)
           last == old[n]
           e == Attribution!JoinedEnd(last, Coming)
           new == [last EXCEPT !.end = e]
           spans == [old EXCEPT ![n] = new]
<1>1. /\ position < Len(intervals) /\ position' = position + 1
      /\ UNCHANGED <<intervals, segment, speaker>>
      /\ old # << >> /\ Coming.start =< last.end
      /\ merged' = [merged EXCEPT ![v] = spans]
  BY DEF Attribution!Join, Attribution!Touches, Attribution!Spans, Attribution!Item, Coming
<1>2. /\ v \in Speakers /\ Coming.start \in Int /\ Coming.end \in Int
      /\ Coming.start < Coming.end
      /\ position + 1 \in position + 1 .. Len(intervals)
  BY <1>1, ComingIs DEF AttributionOK
<1>3. /\ old \in Seq(Span) /\ Apart(old)
      /\ \A k \in 1 .. n : old[k].start =< Coming.start
  BY <1>2 DEF AttributionOK, MergedOK, Coming
<1> HIDE DEF v, old
<1>4. /\ n \in Nat \ {0} /\ n \in 1 .. n
      /\ \A k \in 1 .. n : old[k] \in Span /\ old[k].start \in Int /\ old[k].end \in Int
  <2>1. \A k \in 1 .. n : old[k] \in Span
    BY <1>3, ElementOfSeq
  <2>2. QED
    BY <1>1, <1>3, <2>1, EmptySeq, LenProperties DEF Span
<1> HIDE DEF n
<1>5. /\ last \in Span /\ last.start \in Int /\ last.end \in Int
      /\ last.start < last.end /\ last.start =< Coming.start
  BY <1>3, <1>4 DEF Apart, n
<1> HIDE DEF last
<1>6. /\ e \in Int /\ last.end =< e /\ Coming.end =< e /\ (e = last.end \/ e = Coming.end)
  BY <1>2, <1>5 DEF Attribution!JoinedEnd, Attribution!Larger
<1> HIDE DEF e
<1>7. new \in Span /\ new.start = last.start /\ new.end = e
  BY <1>5, <1>6 DEF Span
<1> HIDE DEF new
<1>8. /\ spans \in Seq(Span) /\ Len(spans) = n /\ spans[n] = new
      /\ \A k \in 1 .. n : k # n => spans[k] = old[k]
  BY <1>3, <1>4, <1>7, ExceptSeq DEF n
<1> HIDE DEF spans
<1>9. \A k \in 1 .. n : spans[k].start = old[k].start
  BY <1>7, <1>8 DEF last
<1>10. Apart(spans)
  <2>1. ASSUME NEW k \in 1 .. n PROVE spans[k].start < spans[k].end
    <3>1. CASE k = n
      BY <1>5, <1>6, <1>7, <1>8, <3>1
    <3>2. CASE k # n
      BY <1>3, <1>8, <3>2 DEF Apart, n
    <3>3. QED
      BY <3>1, <3>2
  <2>2. ASSUME NEW k \in 1 .. n, NEW l \in 1 .. n, k < l PROVE spans[k].end < spans[l].start
    <3>1. k # n
      BY <1>4, <2>2
    <3>2. spans[k] = old[k] /\ spans[l].start = old[l].start
      BY <1>8, <1>9, <3>1
    <3>3. old[k].end < old[l].start
      BY <1>3, <2>2 DEF Apart, n
    <3>4. QED
      BY <3>2, <3>3
  <2>3. QED
    BY <1>8, <2>1, <2>2 DEF Apart
<1>11. Attribution!Covered(new) = Attribution!Covered(last) \cup Attribution!Covered(Coming)
  <2>1. /\ Attribution!Covered(new) = last.start .. e - 1
        /\ Attribution!Covered(last) = last.start .. last.end - 1
        /\ Attribution!Covered(Coming) = Coming.start .. Coming.end - 1
    BY <1>7 DEF Attribution!Covered
  <2> DEFINE a == last.start
             b == last.end
             c == Coming.start
             d == Coming.end
  <2>2. /\ a \in Int /\ b \in Int /\ c \in Int /\ d \in Int /\ e \in Int /\ a =< c /\ c =< b
        /\ b =< e /\ d =< e /\ (e = b \/ e = d)
    BY <1>1, <1>2, <1>5, <1>6 DEF last
  <2> HIDE DEF a, b, c, d
  <2>3. a .. e - 1 = (a .. b - 1) \cup (c .. d - 1)
    BY <2>2
  <2>4. QED
    BY <2>1, <2>3 DEF a, b, c, d
<1>12. Reached(spans) = Reached(old) \cup Attribution!Covered(Coming)
  <2>1. \A x : x \in Reached(spans) <=> \E k \in 1 .. n : x \in Attribution!Covered(spans[k])
    BY <1>8 DEF Reached, CoveredTo
  <2>2. \A x : x \in Reached(old) <=> \E k \in 1 .. n : x \in Attribution!Covered(old[k])
    BY DEF Reached, CoveredTo, n
  <2>3. \A k \in 1 .. n :
          Attribution!Covered(spans[k]) =
            IF k = n THEN Attribution!Covered(old[k]) \cup Attribution!Covered(Coming)
            ELSE Attribution!Covered(old[k])
    BY <1>8, <1>11 DEF last
  <2>4. ASSUME NEW x \in Reached(spans) PROVE x \in Reached(old) \cup Attribution!Covered(Coming)
    <3>1. PICK k \in 1 .. n : x \in Attribution!Covered(spans[k])
      BY <2>1
    <3>2. x \in Attribution!Covered(old[k]) \cup Attribution!Covered(Coming)
      BY <2>3, <3>1
    <3>3. QED
      BY <2>2, <3>2
  <2>5. ASSUME NEW x \in Reached(old) PROVE x \in Reached(spans)
    <3>1. PICK k \in 1 .. n : x \in Attribution!Covered(old[k])
      BY <2>2
    <3>2. x \in Attribution!Covered(spans[k])
      BY <2>3, <3>1
    <3>3. QED
      BY <2>1, <3>2
  <2>6. ASSUME NEW x \in Attribution!Covered(Coming) PROVE x \in Reached(spans)
    <3>1. x \in Attribution!Covered(spans[n])
      BY <1>4, <2>3
    <3>2. QED
      BY <1>4, <2>1, <3>1
  <2>7. QED
    BY <2>4, <2>5, <2>6
<1>13. \A k \in 1 .. Len(spans) : k \in 1 .. Len(old) /\ spans[k].start = old[k].start
  BY <1>8, <1>9 DEF n
<1>14. QED
  BY <1>1, <1>8, <1>10, <1>12, <1>13, MergeKeeps DEF old, v

\* A span is put behind those there are.
LEMMA AddSpanKeeps ==
  ASSUME AttributionOK, Attribution!AddSpan
  PROVE  AttributionOK'
<1> DEFINE v == Coming.speaker
           old == merged[v]
           n == Len(old)
           new == [start |-> Coming.start, end |-> Coming.end]
           spans == Append(old, new)
<1>1. /\ position < Len(intervals) /\ position' = position + 1
      /\ UNCHANGED <<intervals, segment, speaker>>
      /\ old # << >> => ~(Coming.start =< old[n].end)
      /\ merged' = [merged EXCEPT ![v] = spans]
  BY DEF Attribution!AddSpan, Attribution!Touches, Attribution!Spans, Attribution!Item, Coming
<1>2. /\ v \in Speakers /\ Coming.start \in Int /\ Coming.end \in Int
      /\ Coming.start < Coming.end
  BY <1>1, ComingIs DEF AttributionOK
<1>3. old \in Seq(Span) /\ Apart(old)
  BY <1>2 DEF AttributionOK, MergedOK
<1> HIDE DEF v, old
<1>4. /\ n \in Nat /\ (n # 0 => old # << >>)
      /\ \A k \in 1 .. n : old[k] \in Span /\ old[k].start \in Int /\ old[k].end \in Int
  <2>1. \A k \in 1 .. n : old[k] \in Span
    BY <1>3, ElementOfSeq
  <2>2. QED
    BY <1>3, <2>1, EmptySeq, LenProperties DEF Span
<1>5. new \in Span /\ new.start = Coming.start /\ new.end = Coming.end
  BY <1>2 DEF Span
<1> HIDE DEF new
<1>6. /\ spans \in Seq(Span) /\ Len(spans) = n + 1 /\ spans[n + 1] = new
      /\ \A k \in 1 .. n : spans[k] = old[k]
  BY <1>3, <1>5, AppendProperties
<1>7. /\ \A k \in 1 .. n + 1 : k \in 1 .. n \/ k = n + 1
      /\ n + 1 \in 1 .. n + 1 /\ \A k \in 1 .. n : k \in 1 .. n + 1
  BY <1>4
<1> HIDE DEF spans
<1>8. \A k \in 1 .. n : old[k].end < Coming.start
  <2>1. ASSUME NEW k \in 1 .. n PROVE old[k].end < Coming.start
    <3>1. n \in 1 .. n /\ n # 0
      BY <1>4
    <3>2. old[n].end < Coming.start
      BY <1>1, <1>2, <1>4, <3>1
    <3>3. CASE k = n
      BY <3>2, <3>3
    <3>4. CASE k # n
      <4>1. k < n
        BY <1>4, <3>4
      <4>2. old[k].end < old[n].start /\ old[n].start < old[n].end
        BY <1>3, <3>1, <4>1 DEF Apart
      <4>3. QED
        BY <1>2, <1>4, <3>1, <3>2, <4>2
    <3>5. QED
      BY <3>3, <3>4
  <2>2. QED
    BY <2>1
<1>9. Apart(spans)
  <2>1. \A k \in 1 .. n : old[k].start < old[k].end
    BY <1>3 DEF Apart
  <2>2. \A k, l \in 1 .. n : k < l => old[k].end < old[l].start
    BY <1>3 DEF Apart
  <2> HIDE DEF n
  <2>3. \A k \in 1 .. n + 1 : spans[k].start < spans[k].end
    BY <1>2, <1>5, <1>6, <1>7, <2>1
  <2>4. ASSUME NEW k \in 1 .. n + 1, NEW l \in 1 .. n + 1, k < l
        PROVE  spans[k].end < spans[l].start
    <3>1. k \in 1 .. n
      BY <1>4, <2>4
    <3>2. CASE l = n + 1
      BY <1>5, <1>6, <1>8, <3>1, <3>2
    <3>3. CASE l \in 1 .. n
      BY <1>6, <2>2, <2>4, <3>1, <3>3
    <3>4. QED
      BY <1>7, <3>2, <3>3
  <2>5. QED
    BY <1>6, <2>3, <2>4 DEF Apart
<1>10. Reached(spans) = Reached(old) \cup Attribution!Covered(Coming)
  <2>1. \A x : x \in Reached(spans) <=> \E k \in 1 .. n + 1 : x \in Attribution!Covered(spans[k])
    BY <1>6 DEF Reached, CoveredTo
  <2>2. \A x : x \in Reached(old) <=> \E k \in 1 .. n : x \in Attribution!Covered(old[k])
    BY DEF Reached, CoveredTo
  <2>3. Attribution!Covered(spans[n + 1]) = Attribution!Covered(Coming)
    BY <1>5, <1>6 DEF Attribution!Covered
  <2>4. \A k \in 1 .. n : Attribution!Covered(spans[k]) = Attribution!Covered(old[k])
    BY <1>6
  <2>5. ASSUME NEW x \in Reached(spans) PROVE x \in Reached(old) \cup Attribution!Covered(Coming)
    <3>1. PICK k \in 1 .. n + 1 : x \in Attribution!Covered(spans[k])
      BY <2>1
    <3>2. CASE k \in 1 .. n
      BY <2>2, <2>4, <3>1, <3>2
    <3>3. CASE k = n + 1
      BY <2>3, <3>1, <3>3
    <3>4. QED
      BY <1>7, <3>2, <3>3
  <2>6. ASSUME NEW x \in Reached(old) PROVE x \in Reached(spans)
    <3>1. PICK k \in 1 .. n : x \in Attribution!Covered(old[k])
      BY <2>2
    <3>2. x \in Attribution!Covered(spans[k]) /\ k \in 1 .. n + 1
      BY <1>7, <2>4, <3>1
    <3>3. QED
      BY <2>1, <3>2
  <2>7. ASSUME NEW x \in Attribution!Covered(Coming) PROVE x \in Reached(spans)
    BY <1>7, <2>1, <2>3
  <2>8. QED
    BY <2>5, <2>6, <2>7
<1>11. \A k \in 1 .. Len(spans) :
         \/ spans[k].start = Coming.start
         \/ k \in 1 .. Len(old) /\ spans[k].start = old[k].start
  BY <1>5, <1>6, <1>7
<1>12. QED
  BY <1>1, <1>6, <1>9, <1>10, <1>11, MergeKeeps DEF old, v

\* All intervals were merged, and a segment is attributed.
LEMMA AttributeKeeps ==
  ASSUME AttributionOK, Attribution!Attribute
  PROVE  AttributionOK'
<1>1. /\ position = Len(intervals) /\ UNCHANGED <<intervals, position, merged>>
      /\ segment' \in Times
  BY TimesAreInt DEF Attribution!Attribute
<1>2. IntervalsOK'
  BY <1>1 DEF AttributionOK, IntervalsOK
<1>3. MergedOK'
  BY <1>1 DEF AttributionOK, MergedOK, Apart, Reached, CoveredTo, Attribution!Said,
              Attribution!Covered
<1> DEFINE t == segment'
           Best(s) == Attribution!TotalOf(s, t) > 0 /\ Attribution!Alone(s, t)
<1>4. \/ \E s \in Speakers : Best(s) /\ speaker' = s
      \/ (\A s \in Speakers : ~Best(s)) /\ speaker' = -1
  BY DEF Attribution!Attribute, Attribution!None
<1>5. \A s \in Speakers :
        (Attribution!TotalOf(s, segment) > 0 /\ Attribution!Alone(s, segment))' = Best(s)
  BY <1>1 DEF Attribution!TotalOf, Attribution!Alone
<1>6. \A s \in Speakers, r \in Speakers : Best(s) /\ Best(r) => s = r
  <2>1. \A s \in Speakers : Attribution!TotalOf(s, t) \in Int
    <3>1. ASSUME NEW s \in Speakers PROVE Attribution!TotalOf(s, t) \in Int
      <4> DEFINE q == [k \in DOMAIN merged[s] |-> Attribution!Overlap(merged[s][k], t)]
      <4>1. merged[s] \in Seq(Span)
        BY DEF AttributionOK, MergedOK
      <4>2. /\ Len(merged[s]) \in Nat /\ DOMAIN merged[s] = 1 .. Len(merged[s])
            /\ \A k \in 1 .. Len(merged[s]) :
                 merged[s][k].start \in Int /\ merged[s][k].end \in Int
        <5>1. \A k \in 1 .. Len(merged[s]) : merged[s][k] \in Span
          BY <4>1, ElementOfSeq
        <5>2. QED
          BY <4>1, <5>1, LenProperties DEF Span
      <4>3. \A k \in DOMAIN merged[s] : Attribution!Overlap(merged[s][k], t) \in Int
        BY <1>1, <4>2, OverlapCounts
      <4>4. q \in Seq(Int)
        BY <4>2, <4>3
      <4> HIDE DEF q
      <4>5. SumFunction(q) \in Int
        BY <4>4, SumOfSeq
      <4>6. QED
        BY <4>5, SameSum DEF q, Attribution!TotalOf
    <3>2. QED
      BY <3>1
  <2>2. ASSUME NEW s \in Speakers, NEW r \in Speakers, Best(s), Best(r), s # r PROVE FALSE
    <3>1. /\ Attribution!TotalOf(r, t) < Attribution!TotalOf(s, t)
          /\ Attribution!TotalOf(s, t) < Attribution!TotalOf(r, t)
      BY <2>2 DEF Attribution!Alone
    <3>2. QED
      BY <2>1, <3>1
  <2>3. QED
    BY <2>2
<1>7. ASSUME NEW s \in Speakers PROVE (speaker' = s) = Best(s)
  <2>1. Best(s) \in BOOLEAN
    BY DEF Attribution!Alone
  <2> HIDE DEF Best
  <2>2. s # -1
    BY AttributionAssumption
  <2>3. CASE \E r \in Speakers : Best(r) /\ speaker' = r
    BY <1>6, <2>1, <2>3
  <2>4. CASE (\A r \in Speakers : ~Best(r)) /\ speaker' = -1
    BY <2>1, <2>2, <2>4
  <2>5. QED
    BY <1>4, <2>3, <2>4
<1> HIDE DEF Best
<1>8. Longest'
  BY <1>5, <1>7 DEF Longest
<1>9. QED
  BY <1>1, <1>2, <1>3, <1>8 DEF AttributionOK

LEMMA AttributionNext ==
  AttributionOK /\ (Attribution!Next \/ UNCHANGED attributionVars) => AttributionOK'
<1> SUFFICES ASSUME AttributionOK, Attribution!Next \/ UNCHANGED attributionVars
             PROVE  AttributionOK'
  OBVIOUS
<1>1. CASE UNCHANGED attributionVars
  <2>1. UNCHANGED <<intervals, position, merged, segment, speaker>>
    BY <1>1 DEF attributionVars
  <2>2. IntervalsOK'
    BY <2>1 DEF AttributionOK, IntervalsOK
  <2>3. MergedOK'
    <3>1. UNCHANGED <<intervals, position, merged>>
      BY <2>1
    <3>2. QED
      BY <3>1 DEF AttributionOK, MergedOK, Apart, Reached, CoveredTo, Attribution!Said,
                  Attribution!Covered
  <2>4. Longest => Longest'
    <3>1. \A s \in Speakers : Attribution!TotalOf(s, segment)' = Attribution!TotalOf(s, segment)
      BY <2>1 DEF Attribution!TotalOf
    <3>2. QED
      BY <2>1, <3>1 DEF Longest, Attribution!Alone
  <2>5. (segment # Attribution!NoSegment)' => segment # Attribution!NoSegment
    BY <2>1 DEF Attribution!NoSegment
  <2>6. QED
    BY <2>1, <2>2, <2>3, <2>4, <2>5 DEF AttributionOK
<1>2. QED
  BY <1>1, JoinKeeps, AddSpanKeeps, AttributeKeeps DEF Attribution!Next

\* A step of the computations is a step of the attribution, or leaves it.
LEMMA StepOfAttribution ==
  ASSUME [Next]_vars
  PROVE  Attribution!Next \/ UNCHANGED attributionVars
BY DEF Next, vars, AssignmentStep, AttributionStep, ContextStep, TranscriptsStep, BatchStep

THEOREM IntervalsAlwaysMerged == Spec => []AttributionOK
<1>1. Init => AttributionOK
  BY AttributionInit DEF Init
<1>2. AttributionOK /\ [Next]_vars => AttributionOK'
  BY StepOfAttribution, AttributionNext
<1>3. QED
  BY <1>1, <1>2, PTL DEF Spec

\* For any speakers, instants and answers of any length: a segment is given to the
\* speaker whose intervals, overlapping ones counted once, cover more of it than
\* those of any other, and to nobody if there is none (attribute_speaker and the
\* merge of diarization/router.py).
THEOREM AlwaysAttributedToLongest == Spec => []AttributedToLongest
<1>1. AttributionOK => AttributedToLongest
  <2> SUFFICES ASSUME AttributionOK, segment # Attribution!NoSegment
               PROVE  Attribution!AttributedToLongest
    BY DEF AttributedToLongest, Attribution!AttributedToLongest
  <2> DEFINE C == Attribution!Covered(segment)
             time(s) == Cardinality(Attribution!Said(s) \cap C)
  <2>1. ASSUME NEW s \in Speakers PROVE Attribution!TotalOf(s, segment) = time(s)
    <3> DEFINE spans == merged[s]
    <3>1. /\ Apart(spans) /\ Reached(spans) = Attribution!Said(s) /\ segment \in Times
          /\ spans \in Seq(Span)
      BY DEF AttributionOK, MergedOK
    <3>2. SumFunction(Overlaps(spans, segment, Len(spans)))
            = Cardinality(CoveredTo(spans, Len(spans)) \cap C)
      BY <3>1, TotalCounts
    <3>3. DOMAIN spans = 1 .. Len(spans)
      BY <3>1, LenProperties
    <3>4. Attribution!TotalOf(s, segment) = SumFunction(Overlaps(spans, segment, Len(spans)))
      BY <3>3, SameSum DEF Attribution!TotalOf, Overlaps
    <3>5. QED
      BY <3>1, <3>2, <3>4 DEF Reached
  <2>2. \A s \in Speakers :
          (speaker = s) =
            (Attribution!TotalOf(s, segment) > 0 /\ Attribution!Alone(s, segment))
    BY DEF AttributionOK, Longest
  <2>3. \A s \in Speakers :
          (speaker = s) = (time(s) > 0 /\ \A t \in Speakers \ {s} : time(t) < time(s))
    <3> HIDE DEF time, C
    <3>1. QED
      BY <2>1, <2>2 DEF Attribution!Alone
  <2>4. \A S : Attribution!Cardinality(S) = Cardinality(S)
    BY DEF Attribution!Cardinality, Cardinality
  <2>5. QED
    BY <2>3, <2>4 DEF Attribution!AttributedToLongest
<1>2. QED
  BY <1>1, IntervalsAlwaysMerged, PTL

-----------------------------------------------------------------------------
\* The durations of the metrics: the segments that are named.

Timed == Metrics!Recorded

\* g holds the segments of each beginning that are named.
AreNamed(g, segments, ranges) ==
  g = [n \in 0 .. Len(segments) |->
         IF n = 0 THEN << >>
         ELSE IF n - 1 \in Metrics!Selected(ranges) THEN Append(g[n - 1], segments[n])
         ELSE g[n - 1]]

\* There is such a g.
LEMMA NamedExist ==
  ASSUME NEW S, NEW segments \in Seq(S), NEW ranges
  PROVE  \E g \in [0 .. Len(segments) -> Seq(S)] : AreNamed(g, segments, ranges)
<1> DEFINE m == Len(segments)
           V == Seq(S)
           Value(kept, n) == IF n - 1 \in Metrics!Selected(ranges)
                             THEN Append(kept, segments[n]) ELSE kept
           step == [x \in V \X (1 .. m) |-> Value(x[1], x[2])]
<1>1. m \in Nat /\ \A n \in 1 .. m : segments[n] \in S
  BY LenProperties, ElementOfSeq
<1>2. ASSUME NEW kept \in V, NEW n \in 1 .. m PROVE Value(kept, n) \in V
  BY <1>1, AppendProperties
<1>3. step \in [V \X (1 .. m) -> V] /\ << >> \in V
  BY <1>2
<1> HIDE DEF V, m
<1>4. \A kept \in V, n \in 1 .. m : step[<<kept, n>>] = Value(kept, n)
  <2>1. ASSUME NEW kept \in V, NEW n \in 1 .. m PROVE step[<<kept, n>>] = Value(kept, n)
    <3> DEFINE x == <<kept, n>>
    <3>1. x \in V \X (1 .. m) /\ x[1] = kept /\ x[2] = n
      OBVIOUS
    <3> HIDE DEF x, Value
    <3>2. step[x] = Value(x[1], x[2])
      BY <3>1
    <3>3. QED
      BY <3>1, <3>2 DEF x
  <2> HIDE DEF step, Value
  <2>2. QED
    BY <2>1
<1> HIDE DEF step
<1>5. PICK f : IsRecursion(f, m, V, << >>, step)
  <2> DEFINE base == << >>
  <2>1. m \in Nat /\ base \in V /\ IsStep(step, m, V)
    BY <1>1, <1>3 DEF IsStep
  <2> HIDE DEF base
  <2>2. \E f : IsRecursion(f, m, V, base, step)
    BY ONLY <2>1, RecursionExists
  <2>3. QED
    BY <2>2 DEF base
<1>6. ASSUME NEW n \in 0 .. m
      PROVE  f[n] = IF n = 0 THEN << >> ELSE Value(f[n - 1], n)
  <2>1. CASE n = 0
    BY <1>5, <2>1 DEF IsRecursion
  <2>2. CASE n # 0
    <3>1. n \in 1 .. m /\ n - 1 \in 0 .. m
      BY <1>1, <2>2
    <3>2. f[n] = step[<<f[n - 1], n>>] /\ f[n - 1] \in V
      BY <1>5, <3>1 DEF IsRecursion
    <3> HIDE DEF Value
    <3>3. QED
      BY <1>4, <2>2, <3>1, <3>2
  <2>3. QED
    BY <2>1, <2>2
<1>7. f = [n \in 0 .. m |-> IF n = 0 THEN << >> ELSE Value(f[n - 1], n)]
  <2>1. f = [n \in 0 .. m |-> f[n]]
    BY <1>5 DEF IsRecursion
  <2> HIDE DEF Value
  <2>2. QED
    BY <1>6, <2>1
<1>8. AreNamed(f, segments, ranges)
  BY <1>7 DEF AreNamed, m
<1>9. QED
  BY <1>5, <1>8 DEF IsRecursion, m, V

\* q holds the segments among the first n whose places are in the set.
Holds(q, segments, places, n) ==
  /\ \A j \in 1 .. Len(q) : \E i \in 1 .. n : i - 1 \in places /\ q[j] = segments[i]
  /\ \A i \in 1 .. n : i - 1 \in places => \E j \in 1 .. Len(q) : q[j] = segments[i]

\* What SelectRanges returns.
LEMMA SelectRangesHolds ==
  ASSUME NEW S, NEW segments \in Seq(S), NEW ranges
  PROVE  /\ Metrics!SelectRanges(segments, ranges) \in Seq(S)
         /\ Holds(Metrics!SelectRanges(segments, ranges), segments,
                  Metrics!Selected(ranges), Len(segments))
<1> DEFINE g == CHOOSE g : AreNamed(g, segments, ranges)
           len == Len(segments)
           places == Metrics!Selected(ranges)
           N == {n \in 0 .. len : g[n] \in Seq(S) /\ Holds(g[n], segments, places, n)}
<1>1. AreNamed(g, segments, ranges)
  BY NamedExist
<1>2. Metrics!SelectRanges(segments, ranges) = g[len]
  BY DEF Metrics!SelectRanges, AreNamed
<1>3. len \in Nat
  BY LenProperties
<1> HIDE DEF g
<1>4. \A n \in 0 .. len :
        g[n] = IF n = 0 THEN << >>
               ELSE IF n - 1 \in places THEN Append(g[n - 1], segments[n])
               ELSE g[n - 1]
  BY <1>1 DEF AreNamed
<1> HIDE DEF len, places
<1>5. 0 \in N
  <2>1. 0 \in 0 .. len /\ g[0] = << >>
    <3>1. 0 \in 0 .. len
      BY <1>3
    <3>2. g[0] = << >>
      BY ONLY <1>4, <3>1
    <3>3. QED
      BY <3>1, <3>2
  <2>2. << >> \in Seq(S) /\ Len(<< >>) = 0
    BY EmptySeq
  <2>3. Holds(<< >>, segments, places, 0)
    BY <2>2 DEF Holds
  <2>4. QED
    BY <2>1, <2>2, <2>3
<1>6. ASSUME NEW n \in 0 .. len - 1, n \in N PROVE n + 1 \in N
  <2>1. /\ n + 1 \in 0 .. len /\ n + 1 # 0 /\ (n + 1) - 1 = n /\ n \in Nat /\ n + 1 \in 1 .. len
        /\ n + 1 \in 1 .. n + 1 /\ \A i \in 1 .. n + 1 : i \in 1 .. n \/ i = n + 1
        /\ \A i \in 1 .. n : i \in 1 .. n + 1
    BY <1>3
  <2> DEFINE k == g[n]
             e == segments[n + 1]
  <2>2. k \in Seq(S) /\ Holds(k, segments, places, n)
    BY <1>6
  <2>3. g[n + 1] = IF n \in places THEN Append(k, e) ELSE k
    BY <1>4, <2>1
  <2>4. e \in S
    BY <2>1, ElementOfSeq DEF len
  <2> HIDE DEF k, N
  <2>5. CASE n \notin places
    <3>1. Holds(k, segments, places, n + 1)
      BY <2>1, <2>2, <2>5 DEF Holds
    <3>2. QED
      BY <2>1, <2>2, <2>3, <2>5, <3>1 DEF N
  <2>6. CASE n \in places
    <3> DEFINE r == Append(k, e)
               m == Len(k)
    <3>1. m \in Nat /\ r \in Seq(S) /\ Len(r) = m + 1 /\ r[m + 1] = e
          /\ \A j \in 1 .. m : r[j] = k[j]
      BY <2>2, <2>4, AppendProperties, LenProperties
    <3>2. /\ m + 1 \in 1 .. m + 1 /\ \A j \in 1 .. m + 1 : j \in 1 .. m \/ j = m + 1
          /\ \A j \in 1 .. m : j \in 1 .. m + 1
      BY <3>1
    <3> HIDE DEF r, m
    <3>3. /\ \A j \in 1 .. m : \E i \in 1 .. n : i - 1 \in places /\ k[j] = segments[i]
          /\ \A i \in 1 .. n : i - 1 \in places => \E j \in 1 .. m : k[j] = segments[i]
      BY <2>2 DEF Holds, m
    <3>4. ASSUME NEW j \in 1 .. m + 1
          PROVE  \E i \in 1 .. n + 1 : i - 1 \in places /\ r[j] = segments[i]
      <4>1. CASE j \in 1 .. m
        <5>1. PICK i \in 1 .. n : i - 1 \in places /\ k[j] = segments[i]
          BY <3>3, <4>1
        <5>2. i \in 1 .. n + 1 /\ r[j] = k[j]
          BY <2>1, <3>1, <4>1
        <5>3. QED
          BY <5>1, <5>2
      <4>2. CASE j = m + 1
        <5>1. (n + 1) - 1 \in places /\ r[j] = segments[n + 1]
          BY <2>1, <2>6, <3>1, <4>2
        <5>2. QED
          BY <2>1, <5>1
      <4>3. QED
        BY <3>2, <4>1, <4>2
    <3>5. ASSUME NEW i \in 1 .. n + 1, i - 1 \in places
          PROVE  \E j \in 1 .. m + 1 : r[j] = segments[i]
      <4>1. CASE i \in 1 .. n
        BY <3>1, <3>2, <3>3, <3>5, <4>1
      <4>2. CASE i = n + 1
        BY <3>1, <3>2, <4>2
      <4>3. QED
        BY <2>1, <4>1, <4>2
    <3>6. Holds(r, segments, places, n + 1)
      BY <3>1, <3>4, <3>5 DEF Holds
    <3>7. g[n + 1] = r
      BY <2>3, <2>6 DEF r
    <3>8. QED
      BY <2>1, <3>1, <3>6, <3>7 DEF N
  <2>7. QED
    BY <2>5, <2>6
<1> HIDE DEF N
<1>7. len \in N
  <2>1. \A n \in 0 .. len : n \in N
    BY <1>3, <1>5, <1>6, UpToInduction
  <2>2. QED
    BY <1>3, <2>1
<1>8. QED
  BY <1>2, <1>7 DEF N, len, places

-----------------------------------------------------------------------------
\* The durations of the metrics: segments in the order of a key.

LEMMA TimesOfTimed ==
  ASSUME NEW x \in Timed
  PROVE  x.start \in Nat /\ x.end \in Nat /\ x.start =< x.end
BY DEF Timed, Metrics!Recorded

\* What segments are sorted by.
Keys == {"start", "sequence_number"}

LEMMA KeyOfTimed ==
  ASSUME NEW x \in Timed, NEW field \in Keys
  PROVE  x[field] \in Nat
BY DEF Timed, Metrics!Recorded, Keys

\* The place of the last segment whose key is not greater.
After(q, field, key) == Metrics!SelectLastInSeq(q, LAMBDA s : s[field] =< key)

LEMMA AfterIs ==
  ASSUME NEW q \in Seq(Timed), NEW field, NEW starts \in Nat
  PROVE  /\ After(q, field, starts) \in 0 .. Len(q)
         /\ After(q, field, starts) > 0 => q[After(q, field, starts)][field] =< starts
         /\ \A i \in 1 .. Len(q) : q[i][field] =< starts => i =< After(q, field, starts)
<1> DEFINE I == {i \in 1 .. Len(q) : q[i][field] =< starts}
           last == After(q, field, starts)
           n == Len(q)
<1>1. n \in Nat
  BY LenProperties
<1>2. last = IF I # {} THEN Metrics!Max(I) ELSE 0
  BY DEF After, Metrics!SelectLastInSeq
<1> HIDE DEF n
<1>3. CASE I = {}
  <2>1. last = 0
    BY <1>2, <1>3
  <2> HIDE DEF last
  <2>2. QED
    BY <1>1, <1>3, <2>1 DEF last, n
<1>4. CASE I # {}
  <2>1. I \in SUBSET (1 .. n)
    BY DEF n
  <2>2. last = Metrics!Max(I)
    BY <1>2, <1>4
  <2> HIDE DEF I
  <2>3. \E x \in I : \A y \in I : x >= y
    BY <1>1, <1>4, <2>1, GreatestUpTo
  <2> HIDE DEF last
  <2>4. last \in I /\ \A y \in I : last >= y
    BY <2>2, <2>3 DEF Metrics!Max
  <2>5. /\ last \in 1 .. n /\ q[last][field] =< starts
        /\ \A i \in 1 .. n : q[i][field] =< starts => last >= i
    BY <2>4 DEF I, n
  <2>6. /\ last \in 0 .. n
        /\ \A i \in 1 .. n : q[i][field] =< starts => i =< last
    BY <1>1, <2>5
  <2>7. QED
    BY <2>5, <2>6 DEF last, n
<1>5. QED
  BY <1>3, <1>4

InOrder(q, field) == \A i, j \in 1 .. Len(q) : i < j => q[i][field] =< q[j][field]

\* A segment put behind those whose key is not greater.
Inserted(q, field, e) == InsertAt(q, After(q, field, e[field]) + 1, e)

\* r is what becomes of q when e is put in.
IsInsertion(r, q, field, e) ==
  /\ r \in Seq(Timed) /\ InOrder(r, field) /\ Len(r) = Len(q) + 1
  /\ \A j \in 1 .. Len(r) : r[j] = e \/ \E i \in 1 .. Len(q) : r[j] = q[i]
  /\ \E j \in 1 .. Len(r) : r[j] = e
  /\ \A i \in 1 .. Len(q) : \E j \in 1 .. Len(r) : r[j] = q[i]

LEMMA InsertedInOrder ==
  ASSUME NEW q \in Seq(Timed), NEW field \in Keys, InOrder(q, field), NEW e \in Timed
  PROVE  IsInsertion(Inserted(q, field, e), q, field, e)
<1> DEFINE n == Len(q)
           k == After(q, field, e[field])
           t == Inserted(q, field, e)
<1>1. n \in Nat /\ e[field] \in Nat /\ \A i \in 1 .. n : q[i][field] \in Nat
  BY LenProperties, ElementOfSeq, KeyOfTimed
<1>2. /\ k \in 0 .. n
      /\ k > 0 => q[k][field] =< e[field]
      /\ \A i \in 1 .. n : q[i][field] =< e[field] => i =< k
  BY <1>1, AfterIs
<1>3. /\ t \in Seq(Timed) /\ Len(t) = n + 1
      /\ \A i \in 1 .. n + 1 : t[i] = IF i =< k THEN q[i]
                                      ELSE IF i = k + 1 THEN e ELSE q[i - 1]
  <2>1. t = InsertAt(q, k + 1, e)
    BY DEF Inserted
  <2> HIDE DEF k, t
  <2>2. k \in 0 .. Len(q)
    BY <1>2
  <2>3. /\ InsertAt(q, k + 1, e) \in Seq(Timed) /\ Len(InsertAt(q, k + 1, e)) = Len(q) + 1
        /\ \A i \in 1 .. Len(q) + 1 :
             InsertAt(q, k + 1, e)[i] = IF i =< k THEN q[i]
                                        ELSE IF i = k + 1 THEN e ELSE q[i - 1]
    <3> DEFINE S == Timed
    <3>1. q \in Seq(S) /\ e \in S
      OBVIOUS
    <3> HIDE DEF S
    <3>2. /\ InsertAt(q, k + 1, e) \in Seq(S) /\ Len(InsertAt(q, k + 1, e)) = Len(q) + 1
          /\ \A i \in 1 .. Len(q) + 1 :
               InsertAt(q, k + 1, e)[i] = IF i =< k THEN q[i]
                                          ELSE IF i = k + 1 THEN e ELSE q[i - 1]
      BY ONLY <2>2, <3>1, InsertedAt
    <3>3. QED
      BY ONLY <3>2 DEF S
  <2>4. QED
    BY <2>1, <2>3
<1>4. \A i, j \in 1 .. n : i < j => q[i][field] =< q[j][field]
  BY DEF InOrder
<1> HIDE DEF n, k, t
<1>5. \A i \in 1 .. k : i \in 1 .. n /\ q[i][field] =< e[field]
  <2>1. ASSUME NEW i \in 1 .. k PROVE i \in 1 .. n /\ q[i][field] =< e[field]
    <3>1. i \in 1 .. n /\ k \in 1 .. n /\ k > 0 /\ i =< k
      BY <1>1, <1>2
    <3>2. q[k][field] =< e[field] /\ q[i][field] \in Nat /\ q[k][field] \in Nat
      BY <1>1, <1>2, <3>1
    <3>3. CASE i = k
      BY <3>1, <3>2, <3>3
    <3>4. CASE i # k
      <4>1. i < k
        BY <3>1, <3>4
      <4>2. q[i][field] =< q[k][field]
        BY <1>4, <3>1, <4>1
      <4>3. QED
        BY <1>1, <3>1, <3>2, <4>2
    <3>5. QED
      BY <3>3, <3>4
  <2>2. QED
    BY <2>1
<1>6. \A i \in k + 1 .. n : i \in 1 .. n /\ e[field] =< q[i][field]
  <2>1. ASSUME NEW i \in k + 1 .. n PROVE i \in 1 .. n /\ e[field] =< q[i][field]
    <3>1. i \in 1 .. n /\ ~(i =< k)
      BY <1>1, <1>2
    <3>2. ~(q[i][field] =< e[field]) /\ q[i][field] \in Nat
      BY <1>1, <1>2, <3>1
    <3>3. QED
      BY <1>1, <3>1, <3>2
  <2>2. QED
    BY <2>1
<1>7. ASSUME NEW i \in 1 .. n + 1
      PROVE  \/ i \in 1 .. k /\ t[i] = q[i]
             \/ i = k + 1 /\ t[i] = e
             \/ i - 1 \in k + 1 .. n /\ t[i] = q[i - 1]
  <2>1. CASE i =< k
    <3>1. i \in 1 .. k
      BY <1>1, <1>2, <2>1
    <3>2. QED
      BY <1>3, <2>1, <3>1
  <2>2. CASE i = k + 1
    <3>1. ~(i =< k)
      BY <1>2, <2>2
    <3>2. QED
      BY <1>3, <2>2, <3>1
  <2>3. CASE i > k + 1
    <3>1. ~(i =< k) /\ i # k + 1 /\ i - 1 \in k + 1 .. n
      BY <1>1, <1>2, <2>3
    <3>2. QED
      BY <1>3, <3>1
  <2>4. QED
    BY <1>1, <1>2, <2>1, <2>2, <2>3
<1>8. ASSUME NEW i \in 1 .. n + 1, NEW j \in 1 .. n + 1, i < j
      PROVE  t[i][field] =< t[j][field]
  <2>1. CASE i \in 1 .. k /\ t[i] = q[i]
    <3>1. CASE j \in 1 .. k /\ t[j] = q[j]
      BY <1>4, <1>5, <1>8, <2>1, <3>1
    <3>2. CASE j = k + 1 /\ t[j] = e
      BY <1>5, <2>1, <3>2
    <3>3. CASE j - 1 \in k + 1 .. n /\ t[j] = q[j - 1]
      <4>1. i < j - 1 /\ i \in 1 .. n /\ j - 1 \in 1 .. n
        BY <1>1, <1>2, <2>1, <3>3
      <4>2. QED
        BY <1>4, <2>1, <3>3, <4>1
    <3>4. QED
      BY <1>7, <3>1, <3>2, <3>3
  <2>2. CASE i = k + 1 /\ t[i] = e
    <3>1. j - 1 \in k + 1 .. n /\ t[j] = q[j - 1]
      <4>1. ~(j \in 1 .. k) /\ j # k + 1
        BY <1>2, <1>8, <2>2
      <4>2. QED
        BY <1>7, <4>1
    <3>2. QED
      BY <1>6, <2>2, <3>1
  <2>3. CASE i - 1 \in k + 1 .. n /\ t[i] = q[i - 1]
    <3>1. j - 1 \in k + 1 .. n /\ t[j] = q[j - 1]
      <4>1. ~(j \in 1 .. k) /\ j # k + 1
        BY <1>1, <1>2, <1>8, <2>3
      <4>2. QED
        BY <1>7, <4>1
    <3>2. i - 1 < j - 1 /\ i - 1 \in 1 .. n /\ j - 1 \in 1 .. n
      BY <1>6, <1>8, <2>3, <3>1
    <3>3. QED
      BY <1>4, <2>3, <3>1, <3>2
  <2>4. QED
    BY <1>7, <2>1, <2>2, <2>3
<1>9. InOrder(t, field)
  BY <1>3, <1>8 DEF InOrder
<1>10. ASSUME NEW j \in 1 .. n + 1 PROVE t[j] = e \/ \E i \in 1 .. n : t[j] = q[i]
  <2>1. CASE j \in 1 .. k /\ t[j] = q[j]
    BY <1>5, <2>1
  <2>2. CASE j - 1 \in k + 1 .. n /\ t[j] = q[j - 1]
    BY <1>6, <2>2
  <2>3. QED
    BY <1>7, <2>1, <2>2
<1>11. \E j \in 1 .. n + 1 : t[j] = e
  <2>1. k + 1 \in 1 .. n + 1 /\ ~(k + 1 =< k)
    BY <1>1, <1>2
  <2>2. QED
    BY <1>3, <2>1
<1>12. ASSUME NEW i \in 1 .. n PROVE \E j \in 1 .. n + 1 : t[j] = q[i]
  <2>1. CASE i =< k
    <3>1. i \in 1 .. n + 1
      BY <1>1
    <3>2. QED
      BY <1>3, <2>1, <3>1
  <2>2. CASE ~(i =< k)
    <3>1. /\ i + 1 \in 1 .. n + 1 /\ ~(i + 1 =< k) /\ i + 1 # k + 1 /\ (i + 1) - 1 = i
      BY <1>1, <1>2, <2>2
    <3>2. t[i + 1] = q[(i + 1) - 1]
      BY <1>3, <3>1
    <3>3. QED
      BY <3>1, <3>2
  <2>3. QED
    BY <2>1, <2>2
<1>13. QED
  BY <1>3, <1>9, <1>10, <1>11, <1>12 DEF n, t, IsInsertion

\* g holds the segments of each beginning, in the order of their keys.
AreOrdered(g, segments, field) ==
  g = [n \in 0 .. Len(segments) |->
         IF n = 0 THEN << >>
         ELSE Metrics!InsertAt(g[n - 1], After(g[n - 1], field, segments[n][field]) + 1, segments[n])]

\* There is such a g.
LEMMA OrderedExist ==
  ASSUME NEW segments \in Seq(Timed), NEW field \in Keys
  PROVE  \E g \in [0 .. Len(segments) -> Seq(Timed)] : AreOrdered(g, segments, field)
<1> DEFINE m == Len(segments)
           V == Seq(Timed)
           Value(kept, n) ==
             Metrics!InsertAt(kept, After(kept, field, segments[n][field]) + 1, segments[n])
           step == [x \in V \X (1 .. m) |-> Value(x[1], x[2])]
<1>1. m \in Nat /\ \A n \in 1 .. m : segments[n] \in Timed
  BY LenProperties, ElementOfSeq
<1>2. ASSUME NEW kept \in V, NEW n \in 1 .. m PROVE Value(kept, n) \in V
  <2> DEFINE e == segments[n]
             k == After(kept, field, e[field])
  <2>1. e \in Timed /\ e[field] \in Nat
    BY <1>1, KeyOfTimed
  <2> HIDE DEF e
  <2>2. k \in 0 .. Len(kept)
    BY <2>1, AfterIs
  <2> HIDE DEF k
  <2>3. InsertAt(kept, k + 1, e) \in Seq(Timed)
    BY <2>1, <2>2, InsertedAt
  <2>4. QED
    BY <2>3 DEF k, e, Metrics!InsertAt, InsertAt
<1>3. step \in [V \X (1 .. m) -> V] /\ << >> \in V
  <2> HIDE DEF Value
  <2>1. << >> \in V
    BY EmptySeq
  <2> HIDE DEF V
  <2>2. QED
    BY <1>2, <2>1
<1> HIDE DEF V, m
<1>4. \A kept \in V, n \in 1 .. m : step[<<kept, n>>] = Value(kept, n)
  <2>1. ASSUME NEW kept \in V, NEW n \in 1 .. m PROVE step[<<kept, n>>] = Value(kept, n)
    <3> DEFINE x == <<kept, n>>
    <3>1. x \in V \X (1 .. m) /\ x[1] = kept /\ x[2] = n
      OBVIOUS
    <3> HIDE DEF x, Value
    <3>2. step[x] = Value(x[1], x[2])
      BY <3>1
    <3>3. QED
      BY <3>1, <3>2 DEF x
  <2> HIDE DEF step, Value
  <2>2. QED
    BY <2>1
<1> HIDE DEF step
<1>5. PICK f : IsRecursion(f, m, V, << >>, step)
  <2> DEFINE base == << >>
  <2>1. m \in Nat /\ base \in V /\ IsStep(step, m, V)
    BY <1>1, <1>3 DEF IsStep
  <2> HIDE DEF base
  <2>2. \E f : IsRecursion(f, m, V, base, step)
    BY ONLY <2>1, RecursionExists
  <2>3. QED
    BY <2>2 DEF base
<1>6. ASSUME NEW n \in 0 .. m
      PROVE  f[n] = IF n = 0 THEN << >> ELSE Value(f[n - 1], n)
  <2>1. CASE n = 0
    BY <1>5, <2>1 DEF IsRecursion
  <2>2. CASE n # 0
    <3>1. n \in 1 .. m /\ n - 1 \in 0 .. m
      BY <1>1, <2>2
    <3>2. f[n] = step[<<f[n - 1], n>>] /\ f[n - 1] \in V
      BY <1>5, <3>1 DEF IsRecursion
    <3> HIDE DEF Value
    <3>3. QED
      BY <1>4, <2>2, <3>1, <3>2
  <2>3. QED
    BY <2>1, <2>2
<1>7. f = [n \in 0 .. m |-> IF n = 0 THEN << >> ELSE Value(f[n - 1], n)]
  <2>1. f = [n \in 0 .. m |-> f[n]]
    BY <1>5 DEF IsRecursion
  <2> HIDE DEF Value
  <2>2. QED
    BY <1>6, <2>1
<1>8. AreOrdered(f, segments, field)
  BY <1>7 DEF AreOrdered, m
<1>9. QED
  BY <1>5, <1>8 DEF IsRecursion, m, V

\* What SortedBy returns: all the segments, in the order of their keys.
LEMMA SortedByOrders ==
  ASSUME NEW segments \in Seq(Timed), NEW field \in Keys
  PROVE  /\ Metrics!SortedBy(segments, field) \in Seq(Timed)
         /\ InOrder(Metrics!SortedBy(segments, field), field)
         /\ Len(Metrics!SortedBy(segments, field)) = Len(segments)
         /\ Holds(Metrics!SortedBy(segments, field), segments, Int, Len(segments))
<1> DEFINE g == CHOOSE g : AreOrdered(g, segments, field)
           len == Len(segments)
           N == {n \in 0 .. len : /\ g[n] \in Seq(Timed) /\ InOrder(g[n], field)
                                  /\ Len(g[n]) = n
                                  /\ Holds(g[n], segments, Int, n)}
<1>1. AreOrdered(g, segments, field)
  BY OrderedExist
<1>2. Metrics!SortedBy(segments, field) = g[len]
  BY DEF Metrics!SortedBy, AreOrdered, After
<1>3. len \in Nat
  BY LenProperties
<1> HIDE DEF g
<1>4. \A n \in 0 .. len :
        g[n] = IF n = 0 THEN << >>
               ELSE Metrics!InsertAt(g[n - 1], After(g[n - 1], field, segments[n][field]) + 1, segments[n])
  BY <1>1 DEF AreOrdered
<1> HIDE DEF len
<1>5. 0 \in N
  <2>1. 0 \in 0 .. len
    BY <1>3
  <2>2. g[0] = << >>
    BY ONLY <1>4, <2>1
  <2>3. << >> \in Seq(Timed) /\ Len(<< >>) = 0
    BY EmptySeq
  <2>4. Holds(<< >>, segments, Int, 0) /\ InOrder(<< >>, field)
    BY <2>3 DEF Holds, InOrder
  <2>5. QED
    BY <2>1, <2>2, <2>3, <2>4
<1>6. ASSUME NEW n \in 0 .. len - 1, n \in N PROVE n + 1 \in N
  <2>1. /\ n + 1 \in 0 .. len /\ n + 1 # 0 /\ (n + 1) - 1 = n /\ n \in Nat /\ n + 1 \in 1 .. len
        /\ n + 1 \in 1 .. n + 1 /\ \A i \in 1 .. n + 1 : i \in 1 .. n \/ i = n + 1
        /\ \A i \in 1 .. n : i \in 1 .. n + 1
        /\ \A i \in 1 .. n + 1 : i - 1 \in Int
    BY <1>3
  <2> DEFINE q == g[n]
             e == segments[n + 1]
             r == Inserted(q, field, e)
  <2>2. q \in Seq(Timed) /\ InOrder(q, field) /\ Holds(q, segments, Int, n)
        /\ Len(q) = n
    BY <1>6
  <2>3. g[n + 1] = Metrics!InsertAt(q, After(q, field, e[field]) + 1, e)
    BY <1>4, <2>1
  <2>4. e \in Timed
    BY <2>1, ElementOfSeq DEF len
  <2> HIDE DEF q, N
  <2>5. g[n + 1] = r
    BY <2>3 DEF r, Inserted, Metrics!InsertAt, InsertAt
  <2> HIDE DEF e
  <2>6. IsInsertion(r, q, field, e)
    BY ONLY <2>2, <2>4, InsertedInOrder, field \in Keys DEF r
  <2> HIDE DEF r
  <2>7. /\ r \in Seq(Timed) /\ InOrder(r, field) /\ Len(r) = Len(q) + 1
        /\ \A j \in 1 .. Len(r) : r[j] = e \/ \E i \in 1 .. Len(q) : r[j] = q[i]
        /\ \E j \in 1 .. Len(r) : r[j] = e
        /\ \A i \in 1 .. Len(q) : \E j \in 1 .. Len(r) : r[j] = q[i]
    BY ONLY <2>6 DEF IsInsertion
  <2>8. /\ \A j \in 1 .. Len(q) : \E i \in 1 .. n : q[j] = segments[i]
        /\ \A i \in 1 .. n : \E j \in 1 .. Len(q) : q[j] = segments[i]
    <3>1. \A i \in 1 .. n : i - 1 \in Int
      OBVIOUS
    <3>2. QED
      BY <2>2, <3>1 DEF Holds
  <2>9. ASSUME NEW j \in 1 .. Len(r) PROVE \E i \in 1 .. n + 1 : r[j] = segments[i]
    <3>1. CASE r[j] = e
      BY <2>1, <3>1 DEF e
    <3>2. CASE \E i \in 1 .. Len(q) : r[j] = q[i]
      BY <2>1, <2>8, <3>2
    <3>3. QED
      BY <2>7, <3>1, <3>2
  <2>10. ASSUME NEW i \in 1 .. n + 1 PROVE \E j \in 1 .. Len(r) : r[j] = segments[i]
    <3>1. CASE i = n + 1
      BY <2>7, <3>1 DEF e
    <3>2. CASE i \in 1 .. n
      <4>1. PICK p \in 1 .. Len(q) : q[p] = segments[i]
        BY <2>8, <3>2
      <4>2. PICK j \in 1 .. Len(r) : r[j] = q[p]
        BY <2>7
      <4>3. QED
        BY <4>1, <4>2
    <3>3. QED
      BY <2>1, <3>1, <3>2
  <2>11. Holds(r, segments, Int, n + 1)
    BY <2>1, <2>9, <2>10 DEF Holds
  <2>12. Len(r) = n + 1
    BY <2>2, <2>7
  <2>13. QED
    BY <2>1, <2>5, <2>7, <2>11, <2>12 DEF N
<1> HIDE DEF N
<1>7. len \in N
  <2>1. \A n \in 0 .. len : n \in N
    BY <1>3, <1>5, <1>6, UpToInduction
  <2>2. QED
    BY <1>3, <2>1
<1>8. QED
  BY <1>2, <1>7 DEF N, len

-----------------------------------------------------------------------------
\* The durations of the metrics: what segments cover.

LEMMA MaxOfTwo ==
  ASSUME NEW a \in Int, NEW b \in Int
  PROVE  Metrics!Max({a, b}) = IF a < b THEN b ELSE a
<1> DEFINE m == IF a < b THEN b ELSE a
<1>1. m \in {a, b} /\ \A y \in {a, b} : m >= y
  OBVIOUS
<1>2. \A x \in {a, b} : (\A y \in {a, b} : x >= y) => x = m
  OBVIOUS
<1> HIDE DEF m
<1>3. (CHOOSE x \in {a, b} : \A y \in {a, b} : x >= y) = m
  BY <1>1, <1>2
<1>4. QED
  BY <1>3 DEF Metrics!Max, m

\* What a segment adds is what it covers from the end of those before.
LEMMA AddedIs ==
  ASSUME NEW x \in Timed, NEW end \in Nat
  PROVE  LET from == IF x.start < end THEN end ELSE x.start
         IN  /\ Metrics!Added(x, end) \in Nat
             /\ Metrics!Added(x, end) = Cardinality(from .. x.end - 1)
             /\ IsFiniteSet(from .. x.end - 1)
<1> DEFINE from == IF x.start < end THEN end ELSE x.start
           d == x.end - from
<1>1. x.start \in Nat /\ x.end \in Nat
  BY TimesOfTimed
<1>2. Metrics!Max({x.start, end}) = from
  BY <1>1, MaxOfTwo
<1>3. from \in Int /\ d \in Int
  BY <1>1
<1>4. Metrics!Added(x, end) = Metrics!Max({d, 0})
  BY <1>2 DEF Metrics!Added
<1> HIDE DEF from
<1>5. Metrics!Max({d, 0}) = IF d < 0 THEN 0 ELSE d
  BY <1>3, MaxOfTwo
<1>6. /\ IsFiniteSet(from .. x.end - 1)
      /\ Cardinality(from .. x.end - 1)
           = IF from > x.end - 1 THEN 0 ELSE (x.end - 1) - from + 1
  <2>1. x.end - 1 \in Int
    BY <1>1
  <2> DEFINE z == x.end - 1
  <2> HIDE DEF z
  <2>2. /\ IsFiniteSet(from .. z)
        /\ Cardinality(from .. z) = IF from > z THEN 0 ELSE z - from + 1
    BY <1>3, <2>1, FS_Interval DEF z
  <2>3. QED
    BY <2>2 DEF z
<1>7. (IF from > x.end - 1 THEN 0 ELSE (x.end - 1) - from + 1) = IF d < 0 THEN 0 ELSE d
  BY <1>1, <1>3
<1>8. (IF d < 0 THEN 0 ELSE d) \in Nat
  BY <1>3
<1>9. QED
  BY <1>4, <1>5, <1>6, <1>7, <1>8 DEF from

\* g holds the sums of each beginning.
AreSummed(g, q) ==
  g = [n \in 0 .. Len(q) |->
         IF n = 0 THEN [total |-> 0, end |-> 0]
         ELSE [total |-> g[n - 1].total + Metrics!Added(q[n], g[n - 1].end),
               end   |-> Metrics!Max({g[n - 1].end, q[n].end})]]

\* There is such a g.
LEMMA SumsOfBeginnings ==
  ASSUME NEW q \in Seq(Timed)
  PROVE  \E g \in [0 .. Len(q) -> [total : Nat, end : Nat]] : AreSummed(g, q)
<1> DEFINE m == Len(q)
           V == [total : Nat, end : Nat]
           zero == [total |-> 0, end |-> 0]
           Value(s, n) == [total |-> s.total + Metrics!Added(q[n], s.end),
                           end   |-> Metrics!Max({s.end, q[n].end})]
           step == [x \in V \X (1 .. m) |-> Value(x[1], x[2])]
<1>1. m \in Nat /\ \A n \in 1 .. m : q[n] \in Timed
  BY LenProperties, ElementOfSeq
<1>2. ASSUME NEW s \in V, NEW n \in 1 .. m PROVE Value(s, n) \in V
  <2> DEFINE e == q[n]
  <2>1. e \in Timed /\ e.end \in Nat /\ s.total \in Nat /\ s.end \in Nat
    BY <1>1, TimesOfTimed
  <2> HIDE DEF e
  <2>2. Metrics!Added(e, s.end) \in Nat
    BY <2>1, AddedIs
  <2>3. Metrics!Max({s.end, e.end}) \in Nat
    <3>1. Metrics!Max({s.end, e.end}) = IF s.end < e.end THEN e.end ELSE s.end
      BY <2>1, MaxOfTwo
    <3>2. QED
      BY <2>1, <3>1
  <2>4. QED
    BY <2>1, <2>2, <2>3 DEF e
<1>3. step \in [V \X (1 .. m) -> V] /\ zero \in V
  <2> HIDE DEF Value
  <2>1. zero \in V
    OBVIOUS
  <2> HIDE DEF V, zero
  <2>2. QED
    BY <1>2, <2>1
<1> HIDE DEF V, m, zero
<1>4. \A s \in V, n \in 1 .. m : step[<<s, n>>] = Value(s, n)
  <2>1. ASSUME NEW s \in V, NEW n \in 1 .. m PROVE step[<<s, n>>] = Value(s, n)
    <3> DEFINE x == <<s, n>>
    <3>1. x \in V \X (1 .. m) /\ x[1] = s /\ x[2] = n
      OBVIOUS
    <3> HIDE DEF x, Value
    <3>2. step[x] = Value(x[1], x[2])
      BY <3>1
    <3>3. QED
      BY <3>1, <3>2 DEF x
  <2> HIDE DEF step, Value
  <2>2. QED
    BY <2>1
<1> HIDE DEF step
<1>5. PICK f : IsRecursion(f, m, V, zero, step)
  <2>1. m \in Nat /\ zero \in V /\ IsStep(step, m, V)
    BY <1>1, <1>3 DEF IsStep
  <2>2. QED
    BY ONLY <2>1, RecursionExists
<1>6. ASSUME NEW n \in 0 .. m
      PROVE  f[n] = IF n = 0 THEN zero ELSE Value(f[n - 1], n)
  <2>1. CASE n = 0
    BY <1>5, <2>1 DEF IsRecursion
  <2>2. CASE n # 0
    <3>1. n \in 1 .. m /\ n - 1 \in 0 .. m
      BY <1>1, <2>2
    <3>2. f[n] = step[<<f[n - 1], n>>] /\ f[n - 1] \in V
      BY <1>5, <3>1 DEF IsRecursion
    <3> HIDE DEF Value
    <3>3. QED
      BY <1>4, <2>2, <3>1, <3>2
  <2>3. QED
    BY <2>1, <2>2
<1>7. f = [n \in 0 .. m |-> IF n = 0 THEN zero ELSE Value(f[n - 1], n)]
  <2>1. f = [n \in 0 .. m |-> f[n]]
    BY <1>5 DEF IsRecursion
  <2> HIDE DEF Value
  <2>2. QED
    BY <1>6, <2>1
<1>8. AreSummed(f, q)
  BY <1>7 DEF AreSummed, m, zero
<1>9. QED
  BY <1>5, <1>8 DEF IsRecursion, m, V

\* The sum of the first n of the segments, which are in the order of their starts: it
\* counts what they cover, and from where the last of them starts up to the greatest
\* end everything is covered.
Counts(s, q, n) ==
  LET covered == CoveredTo(q, n)
  IN  /\ s \in [total : Nat, end : Nat]
      /\ IsFiniteSet(covered) /\ s.total = Cardinality(covered)
      /\ \A x \in covered : x \in Int /\ x < s.end
      /\ IF n = 0 THEN s.end = 0
         ELSE \A x \in Int : q[n].start =< x /\ x < s.end => x \in covered

LEMMA OneMoreCounts ==
  ASSUME NEW q \in Seq(Timed), InOrder(q, "start"), NEW n \in 0 .. Len(q) - 1,
         NEW s, Counts(s, q, n)
  PROVE  LET e == q[n + 1]
         IN Counts([total |-> s.total + Metrics!Added(e, s.end),
                    end   |-> Metrics!Max({s.end, e.end})], q, n + 1)
<1> DEFINE e == q[n + 1]
           from == IF e.start < s.end THEN s.end ELSE e.start
           new == from .. e.end - 1
           U == CoveredTo(q, n)
           W == CoveredTo(q, n + 1)
           added == Metrics!Added(e, s.end)
           last == IF s.end < e.end THEN e.end ELSE s.end
<1>1. Len(q) \in Nat /\ n + 1 \in 1 .. Len(q) /\ n \in Nat /\ n + 1 # 0
  BY LenProperties
<1>2. e \in Timed /\ e.start \in Nat /\ e.end \in Nat /\ e.start =< e.end
  BY <1>1, ElementOfSeq, TimesOfTimed
<1>3. /\ s.total \in Nat /\ s.end \in Nat
      /\ IsFiniteSet(U) /\ s.total = Cardinality(U)
      /\ \A x \in U : x \in Int /\ x < s.end
      /\ n # 0 => \A x \in Int : q[n].start =< x /\ x < s.end => x \in U
      /\ n = 0 => s.end = 0
  BY DEF Counts
<1> HIDE DEF U
<1>4. W = U \cup Attribution!Covered(e)
  <2>1. \A k : k \in 1 .. n + 1 <=> k \in 1 .. n \/ k = n + 1
    BY <1>1
  <2>2. QED
    BY <2>1 DEF CoveredTo, U
<1>5. \A x : x \in Attribution!Covered(e) <=> x \in Int /\ e.start =< x /\ x < e.end
  <2> HIDE DEF e
  <2>1. \A x : x \in e.start .. e.end - 1 <=> x \in Int /\ e.start =< x /\ x < e.end
    BY <1>2
  <2>2. QED
    BY <2>1 DEF Attribution!Covered
<1>6. ASSUME NEW x \in Int, e.start =< x, x < s.end PROVE x \in U
  <2>1. n # 0
    BY <1>2, <1>3, <1>6
  <2>2. n \in 1 .. Len(q) /\ n < n + 1
    BY <1>1, <2>1
  <2>3. q[n].start =< e.start
    BY <1>1, <2>2 DEF InOrder
  <2>4. q[n].start \in Nat
    BY <2>2, ElementOfSeq, TimesOfTimed
  <2> HIDE DEF e
  <2>5. q[n].start =< x
    BY <1>2, <1>6, <2>3, <2>4
  <2>6. QED
    BY <1>3, <1>6, <2>1, <2>5
<1>7. added \in Nat /\ added = Cardinality(new) /\ IsFiniteSet(new)
  <2> HIDE DEF e
  <2>1. QED
    BY <1>2, <1>3, AddedIs
<1> HIDE DEF e, W
<1>8. \A x : x \in new <=> x \in Int /\ e.start =< x /\ s.end =< x /\ x < e.end
  BY <1>2, <1>3
<1>9. W = U \cup new
  <2>1. ASSUME NEW x \in Attribution!Covered(e), x \notin new PROVE x \in U
    <3>1. x \in Int /\ e.start =< x /\ x < e.end
      BY <1>5
    <3>2. x < s.end
      BY <1>3, <1>8, <2>1, <3>1
    <3>3. QED
      BY <1>6, <3>1, <3>2
  <2>2. new \subseteq Attribution!Covered(e)
    BY <1>5, <1>8
  <2>3. QED
    BY <1>4, <2>1, <2>2
<1>10. U \cap new = {}
  <2>1. ASSUME NEW x \in U, x \in new PROVE FALSE
    <3>1. x \in Int /\ x < s.end /\ s.end =< x
      BY <1>3, <1>8, <2>1
    <3>2. QED
      BY <1>3, <3>1
  <2>2. QED
    BY <2>1
<1> HIDE DEF new, added
<1>11. IsFiniteSet(W) /\ Cardinality(W) = s.total + added
  <2>1. /\ IsFiniteSet(U \cup new)
        /\ Cardinality(U \cup new) = Cardinality(U) + Cardinality(new) - Cardinality(U \cap new)
    BY <1>3, <1>7, FS_Union
  <2>2. Cardinality({}) = 0
    BY FS_EmptySet
  <2>3. Cardinality(W) = s.total + added - 0
    BY <1>3, <1>7, <1>9, <1>10, <2>1, <2>2
  <2>4. QED
    BY <1>3, <1>7, <1>9, <2>1, <2>3
<1>12. Metrics!Max({s.end, e.end}) = last /\ last \in Nat
  BY <1>2, <1>3, MaxOfTwo
<1>13. ASSUME NEW x \in W PROVE x \in Int /\ x < last
  <2>1. CASE x \in U
    BY <1>2, <1>3, <2>1
  <2>2. CASE x \in Attribution!Covered(e)
    BY <1>2, <1>3, <1>5, <2>2
  <2>3. QED
    BY <1>4, <2>1, <2>2
<1>14. ASSUME NEW x \in Int, e.start =< x, x < last PROVE x \in W
  <2>1. CASE x < s.end
    BY <1>4, <1>6, <1>14, <2>1
  <2>2. CASE ~(x < s.end)
    <3>1. x < e.end
      BY <1>2, <1>3, <1>14, <2>2
    <3>2. QED
      BY <1>4, <1>5, <1>14, <3>1
  <2>3. QED
    BY <2>1, <2>2
<1> DEFINE t == [total |-> s.total + added, end |-> last]
<1>15. t \in [total : Nat, end : Nat] /\ t.total = s.total + added /\ t.end = last
  BY <1>3, <1>7, <1>12
<1> HIDE DEF t, last
<1>16. Counts(t, q, n + 1)
  <2>1. \A x \in Int : q[n + 1].start =< x /\ x < t.end => x \in CoveredTo(q, n + 1)
    BY <1>14, <1>15 DEF e, W
  <2>2. QED
    BY <1>1, <1>11, <1>13, <1>15, <2>1 DEF Counts, W
<1>17. QED
  BY <1>12, <1>16 DEF t, e, added

\* The loop counts every time that is covered once.
LEMMA SummedCounts ==
  ASSUME NEW q \in Seq(Timed), InOrder(q, "start")
  PROVE  Metrics!Summed(q).total = Cardinality(CoveredTo(q, Len(q)))
<1> DEFINE g == CHOOSE g : AreSummed(g, q)
           len == Len(q)
           N == {n \in 0 .. len : Counts(g[n], q, n)}
<1>1. AreSummed(g, q)
  BY SumsOfBeginnings
<1>2. Metrics!Summed(q) = g[len]
  BY DEF Metrics!Summed, AreSummed
<1>3. len \in Nat
  BY LenProperties
<1> HIDE DEF g
<1>4. \A n \in 0 .. len :
        g[n] = IF n = 0 THEN [total |-> 0, end |-> 0]
               ELSE [total |-> g[n - 1].total + Metrics!Added(q[n], g[n - 1].end),
                     end   |-> Metrics!Max({g[n - 1].end, q[n].end})]
  BY <1>1 DEF AreSummed
<1>5. 0 \in N
  <2>1. 0 \in 0 .. len
    BY <1>3
  <2> DEFINE zero == [total |-> 0, end |-> 0]
  <2>2. g[0] = zero
    BY ONLY <1>4, <2>1
  <2>3. CoveredTo(q, 0) = {}
    BY DEF CoveredTo
  <2>4. zero \in [total : Nat, end : Nat] /\ zero.total = 0 /\ zero.end = 0
    OBVIOUS
  <2> HIDE DEF zero
  <2>5. Counts(zero, q, 0)
    BY <2>3, <2>4, FS_EmptySet DEF Counts
  <2>6. QED
    BY <2>1, <2>2, <2>5
<1>6. ASSUME NEW n \in 0 .. len - 1, n \in N PROVE n + 1 \in N
  <2>1. n + 1 \in 0 .. len /\ n + 1 # 0 /\ (n + 1) - 1 = n
    BY <1>3
  <2> DEFINE e == q[n + 1]
             s == g[n]
             t == [total |-> s.total + Metrics!Added(e, s.end),
                   end   |-> Metrics!Max({s.end, e.end})]
  <2>2. Counts(s, q, n)
    BY <1>6
  <2>3. g[n + 1] = t
    BY <1>4, <2>1
  <2> HIDE DEF s
  <2>4. Counts(t, q, n + 1)
    BY <2>2, OneMoreCounts
  <2> HIDE DEF t
  <2>5. QED
    BY <2>1, <2>3, <2>4
<1> HIDE DEF N
<1>7. len \in N
  <2>1. \A n \in 0 .. len : n \in N
    BY <1>3, <1>5, <1>6, UpToInduction
  <2>2. QED
    BY <1>3, <2>1
<1>8. Counts(g[len], q, len)
  BY <1>7 DEF N
<1>9. QED
  BY <1>2, <1>8 DEF Counts, len

-----------------------------------------------------------------------------
\* The durations of the metrics: what the ranges name.

Bounds == [start_index : Int, end_index : Int]

\* The segments that the ranges name.
InRanges(segments, ranges) ==
  {segments[i] : i \in {j \in DOMAIN segments : \E r \in ranges :
                          r.start_index < j /\ j =< r.end_index + 1}}

\* A place is named by a range, or is among the indices selected.
LEMMA PlacesSelected ==
  ASSUME NEW ranges \in SUBSET Bounds, NEW j \in Nat
  PROVE  j - 1 \in Metrics!Selected(ranges)
           <=> \E r \in ranges : r.start_index < j /\ j =< r.end_index + 1
<1>1. ASSUME NEW r \in ranges
      PROVE  j - 1 \in r.start_index .. r.end_index
               <=> r.start_index < j /\ j =< r.end_index + 1
  <2>1. r.start_index \in Int /\ r.end_index \in Int
    BY DEF Bounds
  <2>2. QED
    BY <2>1
<1>2. j - 1 \in Metrics!Selected(ranges)
        <=> \E r \in ranges : j - 1 \in r.start_index .. r.end_index
  BY DEF Metrics!Selected
<1>3. QED
  BY <1>1, <1>2

\* A duration is the number of times that the segments named cover.
LEMMA DurationCounts ==
  ASSUME NEW segments \in Seq(Timed), NEW ranges \in SUBSET Bounds
  PROVE  Metrics!UnionDuration(Metrics!SelectRanges(segments, ranges))
           = Cardinality(UNION {Attribution!Covered(x) : x \in InRanges(segments, ranges)})
<1> DEFINE len == Len(segments)
           places == Metrics!Selected(ranges)
           named == InRanges(segments, ranges)
           q == Metrics!SelectRanges(segments, ranges)
           s == Metrics!SortedBy(q, "start")
<1>1. len \in Nat /\ DOMAIN segments = 1 .. len
  BY LenProperties
<1>2. q \in Seq(Timed) /\ Holds(q, segments, places, len)
  BY SelectRangesHolds
<1> HIDE DEF q
<1>3. s \in Seq(Timed) /\ InOrder(s, "start") /\ Holds(s, q, Int, Len(q))
  BY <1>2, SortedByOrders DEF Keys
<1> HIDE DEF s
<1>4. Metrics!Summed(s).total = Cardinality(CoveredTo(s, Len(s)))
  BY <1>3, SummedCounts
<1>5. Metrics!UnionDuration(q) = Metrics!Summed(s).total
  BY DEF Metrics!UnionDuration, s
<1>6. \A x : x \in named <=> \E i \in 1 .. len : i - 1 \in places /\ x = segments[i]
  <2>1. \A i \in 1 .. len :
          i - 1 \in places <=> \E r \in ranges : r.start_index < i /\ i =< r.end_index + 1
    <3>1. \A i \in 1 .. len : i \in Nat
      BY <1>1
    <3>2. QED
      BY <3>1, PlacesSelected
  <2> HIDE DEF places, len
  <2>2. QED
    BY <1>1, <2>1 DEF InRanges
<1> HIDE DEF named, places, len
<1>7. \A x : x \in named <=> \E j \in 1 .. Len(s) : x = s[j]
  <2>1. \A x : x \in named <=> \E k \in 1 .. Len(q) : x = q[k]
    <3>1. /\ \A k \in 1 .. Len(q) : \E i \in 1 .. len : i - 1 \in places /\ q[k] = segments[i]
          /\ \A i \in 1 .. len : i - 1 \in places => \E k \in 1 .. Len(q) : q[k] = segments[i]
      BY <1>2 DEF Holds
    <3>2. ASSUME NEW x \in named PROVE \E k \in 1 .. Len(q) : x = q[k]
      <4>1. PICK i \in 1 .. len : i - 1 \in places /\ x = segments[i]
        BY <1>6
      <4>2. QED
        BY <3>1, <4>1
    <3>3. ASSUME NEW k \in 1 .. Len(q) PROVE q[k] \in named
      BY <1>6, <3>1
    <3>4. QED
      BY <3>2, <3>3
  <2>2. \A k \in 1 .. Len(q) : k - 1 \in Int
    OBVIOUS
  <2>3. /\ \A j \in 1 .. Len(s) : \E k \in 1 .. Len(q) : s[j] = q[k]
        /\ \A k \in 1 .. Len(q) : \E j \in 1 .. Len(s) : s[j] = q[k]
    BY <1>3, <2>2 DEF Holds
  <2>4. QED
    BY <2>1, <2>3
<1>8. CoveredTo(s, Len(s)) = UNION {Attribution!Covered(x) : x \in named}
  BY <1>7 DEF CoveredTo
<1>9. QED
  BY <1>4, <1>5, <1>8 DEF named, q

-----------------------------------------------------------------------------
\* The durations of the metrics: the order in which the segments were said.

\* MetricRequest: the segments of a request, in any order, have distinct numbers.
IsRequest(q) ==
  /\ q \in Seq(Timed)
  /\ \A i, j \in 1 .. Len(q) : q[i].sequence_number = q[j].sequence_number => i = j

Elements(q) == {q[i] : i \in 1 .. Len(q)}

LEMMA PlacesCounted ==
  ASSUME NEW n \in Nat
  PROVE  IsFiniteSet(1 .. n) /\ Cardinality(1 .. n) = n
<1>1. 1 \in Int /\ n \in Int
  OBVIOUS
<1>2. /\ IsFiniteSet(1 .. n)
      /\ Cardinality(1 .. n) = IF 1 > n THEN 0 ELSE n - 1 + 1
  BY ONLY <1>1, FS_Interval
<1>3. (IF 1 > n THEN 0 ELSE n - 1 + 1) = n
  OBVIOUS
<1>4. QED
  BY <1>2, <1>3

\* A sequence without repetition has as many elements as places.
LEMMA ElementsCounted ==
  ASSUME NEW q, Len(q) \in Nat, \A i, j \in 1 .. Len(q) : q[i] = q[j] => i = j
  PROVE  /\ IsFiniteSet(Elements(q)) /\ Cardinality(Elements(q)) = Len(q)
<1> DEFINE f == [i \in 1 .. Len(q) |-> q[i]]
           n == Len(q)
<1>1. f \in Injection(1 .. n, Elements(q)) /\ f \in Surjection(1 .. n, Elements(q))
  BY DEF Elements, Injection, Surjection, IsInjective
<1>2. ExistsBijection(1 .. n, Elements(q))
  BY <1>1 DEF Bijection, ExistsBijection
<1>3. IsFiniteSet(1 .. n) /\ Cardinality(1 .. n) = n
  BY PlacesCounted
<1>4. QED
  BY <1>2, <1>3, FS_Bijection

\* As many places as elements: nothing is repeated.
LEMMA NothingRepeated ==
  ASSUME NEW q, Len(q) \in Nat,
         IsFiniteSet(Elements(q)), Cardinality(Elements(q)) = Len(q)
  PROVE  \A i, j \in 1 .. Len(q) : q[i] = q[j] => i = j
<1> DEFINE f == [i \in 1 .. Len(q) |-> q[i]]
           n == Len(q)
<1>1. f \in Surjection(1 .. n, Elements(q))
  <2>1. f \in [1 .. n -> Elements(q)]
    BY DEF Elements
  <2>2. \A t \in Elements(q) : \E i \in 1 .. n : f[i] = t
    BY DEF Elements
  <2> HIDE DEF f
  <2>3. QED
    BY <2>1, <2>2 DEF Surjection
<1>2. IsFiniteSet(1 .. n) /\ Cardinality(1 .. n) = n
  BY PlacesCounted
<1>3. f \in Injection(1 .. n, Elements(q))
  BY <1>1, <1>2, FS_Surjection
<1>4. QED
  BY <1>3 DEF Injection, IsInjective

\* In the order of the numbers, each segment stands behind those said before it.
LEMMA SequenceOfRequest ==
  ASSUME NEW request_, IsRequest(request_)
  PROVE  LET q == Metrics!InSequence(request_)
         IN  /\ q \in Seq(Timed) /\ Len(q) = Len(request_)
             /\ Elements(q) = Elements(request_)
             /\ \A j \in 1 .. Len(q) :
                  Cardinality({t \in Elements(q) :
                                 t.sequence_number < q[j].sequence_number}) = j - 1
<1> DEFINE q == Metrics!InSequence(request_)
           n == Len(request_)
<1>1. request_ \in Seq(Timed) /\ n \in Nat
  BY LenProperties DEF IsRequest
<1>2. /\ q \in Seq(Timed) /\ Len(q) = n /\ InOrder(q, "sequence_number")
      /\ Holds(q, request_, Int, n)
  BY <1>1, SortedByOrders DEF Metrics!InSequence, Keys
<1> HIDE DEF q
<1>3. \A i \in 1 .. n : i - 1 \in Int
  BY <1>1
<1>4. Elements(q) = Elements(request_)
  <2>1. /\ \A j \in 1 .. Len(q) : \E i \in 1 .. n : q[j] = request_[i]
        /\ \A i \in 1 .. n : \E j \in 1 .. Len(q) : q[j] = request_[i]
    BY <1>2, <1>3 DEF Holds
  <2>2. ASSUME NEW x \in Elements(q) PROVE x \in Elements(request_)
    BY <2>1 DEF Elements
  <2>3. ASSUME NEW x \in Elements(request_) PROVE x \in Elements(q)
    BY <2>1 DEF Elements
  <2>4. QED
    BY <2>2, <2>3
<1>5. \A i, j \in 1 .. n : request_[i] = request_[j] => i = j
  BY DEF IsRequest
<1>6. IsFiniteSet(Elements(q)) /\ Cardinality(Elements(q)) = Len(q)
  BY <1>1, <1>2, <1>4, <1>5, ElementsCounted
<1>7. \A i, j \in 1 .. n : q[i] = q[j] => i = j
  BY <1>1, <1>2, <1>6, NothingRepeated
<1>8. \A x, y \in Elements(q) : x.sequence_number = y.sequence_number => x = y
  BY <1>4 DEF IsRequest, Elements
<1>9. \A i \in 1 .. n : q[i] \in Elements(q) /\ q[i].sequence_number \in Nat
  <2>1. \A i \in 1 .. n : q[i] \in Timed
    BY <1>2, ElementOfSeq
  <2>2. QED
    BY <1>2, <2>1 DEF Elements, Timed, Metrics!Recorded
<1>10. ASSUME NEW i \in 1 .. n, NEW j \in 1 .. n, i < j
       PROVE  q[i].sequence_number < q[j].sequence_number
  <2>1. q[i].sequence_number =< q[j].sequence_number
    BY <1>2, <1>10 DEF InOrder
  <2>2. q[i].sequence_number # q[j].sequence_number
    BY <1>1, <1>7, <1>8, <1>9, <1>10
  <2>3. QED
    BY <1>9, <2>1, <2>2
<1>11. ASSUME NEW j \in 1 .. n
       PROVE  Cardinality({t \in Elements(q) :
                             t.sequence_number < q[j].sequence_number}) = j - 1
  <2> DEFINE below == {t \in Elements(q) : t.sequence_number < q[j].sequence_number}
             before == [i \in 1 .. j - 1 |-> q[i]]
  <2>1. /\ j - 1 \in Nat /\ \A i \in 1 .. j - 1 : i \in 1 .. n /\ i < j
    BY <1>1
  <2>2. \A i \in 1 .. j - 1 : before[i] = q[i]
    OBVIOUS
  <2>3. \A i \in 1 .. j - 1 : q[i] \in below
    BY <1>9, <1>10, <2>1
  <2>4. ASSUME NEW t \in below PROVE \E i \in 1 .. j - 1 : t = q[i]
    <3>1. PICK i \in 1 .. n : t = q[i]
      BY <1>2 DEF Elements
    <3>2. q[i].sequence_number < q[j].sequence_number
      BY <3>1
    <3>3. i < j
      <4>1. CASE i = j
        BY <1>9, <3>2, <4>1
      <4>2. CASE j < i
        BY <1>9, <1>10, <3>2, <4>2
      <4>3. QED
        BY <1>1, <4>1, <4>2
    <3>4. i \in 1 .. j - 1
      BY <1>1, <3>3
    <3>5. QED
      BY <3>1, <3>4
  <2> HIDE DEF below
  <2>5. before \in Injection(1 .. j - 1, below)
    BY <1>7, <2>1, <2>3 DEF Injection, IsInjective
  <2>6. before \in Surjection(1 .. j - 1, below)
    BY <2>3, <2>4 DEF Surjection
  <2>7. ExistsBijection(1 .. j - 1, below)
    BY <2>5, <2>6 DEF Bijection, ExistsBijection
  <2>8. Cardinality(below) = j - 1
    BY <2>1, <2>7, FS_CountingElements
  <2>9. QED
    BY <2>8 DEF below
<1>12. QED
  BY <1>2, <1>4, <1>11 DEF q

\* The segments of a request have types and numbers; a request is never changed.
RequestOK == computation = "metrics" => IsRequest(request)

LEMMA RequestInit == Init => RequestOK
<1> SUFFICES ASSUME Init, computation = "metrics" PROVE IsRequest(request)
  BY DEF RequestOK
<1>1. request \in Requests
  BY DEF Init
<1>2. PICK n \in 0 .. MaxSegments : request \in [1 .. n -> MeetingSegments]
  BY <1>1 DEF Requests
<1>3. MeetingSegments \subseteq Timed
  <2>1. ASSUME NEW x \in MeetingSegments PROVE x \in Timed
    <3>1. /\ x \in [sequence_number : 1 .. MaxSegments, start : Moments, end : Moments]
          /\ x.start =< x.end
      BY DEF MeetingSegments
    <3>2. x \in [sequence_number : Nat, start : Nat, end : Nat]
      <4>1. MaxSegments \in Nat /\ \A y \in Moments : y \in Nat
        BY MetricsAssumption
      <4>2. \A y \in 1 .. MaxSegments : y \in Nat
        BY <4>1
      <4>3. QED
        BY ONLY <3>1, <4>1, <4>2
    <3>3. QED
      BY <3>1, <3>2 DEF Timed, Metrics!Recorded
  <2>2. QED
    BY <2>1
<1>4. n \in Nat
  BY MetricsAssumption
<1>5. request \in [1 .. n -> Timed]
  BY <1>2, <1>3
<1>6. request \in Seq(Timed)
  BY <1>4, <1>5, SeqDef
<1>7. DOMAIN request = 1 .. Len(request)
  BY <1>6, LenProperties
<1>8. QED
  BY <1>1, <1>6, <1>7 DEF Requests, Numbered, IsRequest

LEMMA RequestStep == RequestOK /\ [Next]_vars => RequestOK'
<1> SUFFICES ASSUME RequestOK, [Next]_vars PROVE RequestOK'
  OBVIOUS
<1>1. UNCHANGED <<computation, request>>
  BY DEF Next, vars, AssignmentStep, AttributionStep, ContextStep, TranscriptsStep,
         BatchStep
<1>2. QED
  BY <1>1 DEF RequestOK

\* What the ranges name, by the numbers of the segments: those at these places.
LEMMA NamedInSequence ==
  ASSUME IsRequest(request), NEW ranges \in SUBSET Bounds
  PROVE  Named(ranges) = InRanges(Metrics!InSequence(request), ranges)
<1> DEFINE q == Metrics!InSequence(request)
<1>1. /\ q \in Seq(Timed) /\ Elements(q) = Elements(request)
      /\ \A j \in 1 .. Len(q) :
           Cardinality({t \in Elements(q) :
                          t.sequence_number < q[j].sequence_number}) = j - 1
  BY SequenceOfRequest
<1> HIDE DEF q
<1>2. DOMAIN q = 1 .. Len(q) /\ Len(q) \in Nat
  BY <1>1, LenProperties
<1>3. Segments = Elements(q)
  <2>1. DOMAIN request = 1 .. Len(request)
    BY LenProperties DEF IsRequest
  <2>2. QED
    BY <1>1, <2>1 DEF Segments, Elements
<1>4. \A j \in 1 .. Len(q) : Before(q[j]) = j - 1
  BY <1>1, <1>3 DEF Before
<1>5. ASSUME NEW j \in 1 .. Len(q), NEW r \in ranges
      PROVE  r.start_index =< j - 1 /\ j - 1 =< r.end_index
               <=> r.start_index < j /\ j =< r.end_index + 1
  <2>1. r.start_index \in Int /\ r.end_index \in Int /\ j \in Int
    BY DEF Bounds
  <2>2. QED
    BY <2>1
<1>6. \A j \in 1 .. Len(q) :
        q[j] \in Named(ranges)
          <=> \E r \in ranges : r.start_index < j /\ j =< r.end_index + 1
  <2>1. \A j \in 1 .. Len(q) : q[j] \in Segments
    BY <1>3 DEF Elements
  <2>2. QED
    BY <1>4, <1>5, <2>1 DEF Named
<1>7. ASSUME NEW x \in Named(ranges) PROVE x \in InRanges(q, ranges)
  <2>1. PICK j \in 1 .. Len(q) : x = q[j]
    BY <1>3 DEF Named, Elements
  <2>2. QED
    BY <1>2, <1>6, <2>1 DEF InRanges
<1>8. ASSUME NEW x \in InRanges(q, ranges) PROVE x \in Named(ranges)
  BY <1>2, <1>6 DEF InRanges
<1>9. QED
  BY <1>7, <1>8 DEF q

\* For requests of any length and order, whatever segments overlap, are empty or are
\* said together, ranges that overlap included: a duration of the metrics counts
\* every instant of the segments named once, and ranges of segments that there are
\* not are refused (calculate_metrics, select_ranges and union_duration).
THEOREM MetricsAlwaysCountOnce == Spec => []MetricsCountOnce
<1>1. RequestOK => MetricsCountOnce
  <2> SUFFICES ASSUME RequestOK, computation = "metrics", NEW ranges \in OneOrTwoRanges
               PROVE  IF Metrics!Refused(request, ranges)
                      THEN \E r \in ranges :
                             r.end_index \notin r.start_index .. Len(request) - 1
                      ELSE Metrics!Duration(request, ranges)
                             = Cardinality(UNION {s.start .. s.end - 1 : s \in Named(ranges)})
    BY Zenon DEF MetricsCountOnce
  <2>1. IsRequest(request) /\ Len(request) \in Nat
    BY LenProperties DEF RequestOK, IsRequest
  <2>2. ranges \in SUBSET Bounds /\ \A r \in ranges : r.start_index \in Nat
    <3>1. Ranges \subseteq Bounds /\ \A r \in Ranges : r.start_index \in Nat
      BY MetricsAssumption DEF Ranges, Bounds
    <3>2. QED
      BY <3>1 DEF OneOrTwoRanges
  <2>3. ASSUME Metrics!Refused(request, ranges)
        PROVE  \E r \in ranges : r.end_index \notin r.start_index .. Len(request) - 1
    <3>1. PICK r \in ranges : ~Metrics!Legal(r, request)
      BY <2>3 DEF Metrics!Refused
    <3>2. r.start_index \in Nat /\ r.end_index \in Int
      BY <2>2 DEF Bounds
    <3>3. ~(0 =< r.start_index /\ r.start_index =< r.end_index
            /\ r.end_index < Len(request))
      BY <3>1 DEF Metrics!Legal
    <3>4. r.end_index \notin r.start_index .. Len(request) - 1
      BY <2>1, <3>2, <3>3
    <3>5. QED
      BY <3>4
  <2>4. Metrics!Duration(request, ranges)
          = Cardinality(UNION {s.start .. s.end - 1 : s \in Named(ranges)})
    <3> DEFINE q == Metrics!InSequence(request)
               named == InRanges(q, ranges)
    <3>1. q \in Seq(Timed)
      BY <2>1, SequenceOfRequest
    <3>2. Metrics!Duration(request, ranges)
            = Metrics!UnionDuration(Metrics!SelectRanges(q, ranges))
      BY DEF Metrics!Duration
    <3>3. Named(ranges) = named
      BY <2>1, <2>2, NamedInSequence
    <3> HIDE DEF q
    <3>4. Metrics!UnionDuration(Metrics!SelectRanges(q, ranges))
            = Cardinality(UNION {Attribution!Covered(x) : x \in named})
      BY <2>2, <3>1, DurationCounts
    <3> HIDE DEF named
    <3>5. QED
      BY <3>2, <3>3, <3>4 DEF Attribution!Covered
  <2>5. QED
    BY <2>3, <2>4
<1>2. QED
  BY <1>1, RequestInit, RequestStep, PTL DEF Spec

-----------------------------------------------------------------------------
\* The mapping of slots to members: matchings and their totals.

Members == Assignment!Members
Slots   == Assignment!Slots

\* Tables of gains, and the one-to-one mappings of the first k members that use no
\* pair of a negative gain.
Tables == [Members -> [Slots -> Int]]
Matched(k, used, g) == Assignment!Matchings(1 .. k, used, g)
TotalGain(f, g) == Assignment!Total(f, g)

LEMMA MatchedIs ==
  ASSUME NEW k, NEW used, NEW g, NEW f
  PROVE  f \in Matched(k, used, g) <=>
           /\ f \in [used -> 1 .. k]
           /\ \A s, t \in used : f[s] = f[t] => s = t
           /\ \A s \in used : g[f[s]][s] >= 0
<1>1. f \in Matched(k, used, g) <=>
        /\ f \in [used -> 1 .. k] /\ Assignment!IsInjective(f)
        /\ \A s \in used : g[f[s]][s] >= 0
  BY DEF Matched, Assignment!Matchings, Assignment!Injection
<1>2. ASSUME f \in [used -> 1 .. k]
      PROVE  Assignment!IsInjective(f) <=> \A s, t \in used : f[s] = f[t] => s = t
  BY <1>2 DEF Assignment!IsInjective
<1>3. QED
  BY <1>1, <1>2

\* The terms of a total.
Gains(f, g) == [s \in DOMAIN f |-> g[f[s]][s]]

LEMMA TotalIsSum ==
  ASSUME NEW f, NEW g
  PROVE  TotalGain(f, g) = SumFunctionOnSet(Gains(f, g), DOMAIN f)
<1>1. Assignment!SumFunction(Gains(f, g)) = SumFunctionOnSet(Gains(f, g), DOMAIN Gains(f, g))
  BY DEF Assignment!SumFunction, Assignment!SumFunctionOnSet,
         Assignment!FoldFunctionOnSet, Assignment!MapThenFoldSet,
         SumFunctionOnSet, FoldFunctionOnSet, MapThenFoldSet
<1>2. DOMAIN Gains(f, g) = DOMAIN f
  BY DEF Gains
<1>3. TotalGain(f, g) = Assignment!SumFunction(Gains(f, g))
  BY DEF TotalGain, Assignment!Total, Gains
<1>4. QED
  BY <1>1, <1>2, <1>3

\* A mapping, with one more slot.
With(f, used, s, v) == [t \in used \cup {s} |-> IF t = s THEN v ELSE f[t]]

LEMMA SlotsAreFinite ==
  ASSUME NEW used \in SUBSET Slots
  PROVE  IsFiniteSet(used)
<1>1. IsFiniteSet(Slots)
  BY AssignmentAssumption, FS_Interval DEF Slots, Assignment!Slots
<1>2. QED
  BY <1>1, FS_Subset

LEMMA GainsAreInt ==
  ASSUME NEW g \in Tables, NEW k \in Nat, k =< MemberCount, NEW used \in SUBSET Slots,
         NEW f \in Matched(k, used, g)
  PROVE  /\ DOMAIN f = used /\ DOMAIN Gains(f, g) = used
         /\ \A s \in used : Gains(f, g)[s] = g[f[s]][s] /\ Gains(f, g)[s] \in Int
<1>1. f \in [used -> 1 .. k]
  BY MatchedIs
<1>2. \A s \in used : f[s] \in Members
  BY <1>1, AssignmentAssumption DEF Members, Assignment!Members
<1>3. QED
  BY <1>1, <1>2 DEF Gains, Tables

LEMMA TotalInt ==
  ASSUME NEW g \in Tables, NEW k \in Nat, k =< MemberCount, NEW used \in SUBSET Slots,
         NEW f \in Matched(k, used, g)
  PROVE  TotalGain(f, g) \in Int
<1>1. SumFunctionOnSet(Gains(f, g), used) \in Int
  BY GainsAreInt, SlotsAreFinite, SumInt
<1>2. QED
  BY <1>1, GainsAreInt, TotalIsSum

\* One more slot for a member that has none yet adds the gain of the pair.
LEMMA OneMoreSlot ==
  ASSUME NEW g \in Tables, NEW k \in Nat, k < MemberCount, NEW used \in SUBSET Slots,
         NEW f \in Matched(k, used, g), NEW s \in Slots \ used, g[k + 1][s] >= 0
  PROVE  /\ With(f, used, s, k + 1) \in Matched(k + 1, used \cup {s}, g)
         /\ TotalGain(With(f, used, s, k + 1), g) = TotalGain(f, g) + g[k + 1][s]
<1> DEFINE v == k + 1
           h == With(f, used, s, v)
           more == used \cup {s}
<1>1. /\ v \in Nat /\ v =< MemberCount /\ k =< MemberCount /\ v \in Members
      /\ g[v][s] \in Int /\ g[v][s] >= 0
  <2>1. v \in Members
    BY AssignmentAssumption DEF Members, Assignment!Members
  <2>2. QED
    BY <2>1, AssignmentAssumption DEF Tables
<1>2. /\ f \in [used -> 1 .. k]
      /\ \A r, t \in used : f[r] = f[t] => r = t
      /\ \A r \in used : g[f[r]][r] >= 0
  BY MatchedIs
<1>3. /\ DOMAIN h = more /\ h[s] = v /\ \A t \in used : h[t] = f[t]
      /\ h \in [more -> 1 .. v]
  BY <1>2 DEF With
<1>4. \A t \in used : f[t] # v
  BY <1>2
<1> HIDE DEF v, h
<1>5. h \in Matched(v, more, g)
  BY <1>1, <1>2, <1>3, <1>4, MatchedIs
<1>6. /\ Gains(h, g)[s] = g[v][s] /\ Gains(h, g)[s] \in Int
      /\ \A t \in used : Gains(h, g)[t] = Gains(f, g)[t] /\ Gains(f, g)[t] \in Int
  <2>1. \A t \in more : Gains(h, g)[t] = g[h[t]][t]
    BY <1>3 DEF Gains
  <2>2. \A t \in used : Gains(f, g)[t] = g[f[t]][t] /\ Gains(f, g)[t] \in Int
    BY <1>1, GainsAreInt
  <2>3. QED
    BY <1>1, <1>3, <2>1, <2>2
<1>7. IsFiniteSet(used)
  BY SlotsAreFinite
<1>8. SumFunctionOnSet(Gains(h, g), used) = SumFunctionOnSet(Gains(f, g), used)
  BY <1>6, <1>7, SumSame
<1>9. SumFunctionOnSet(Gains(h, g), more) = SumFunctionOnSet(Gains(h, g), used) + Gains(h, g)[s]
  BY <1>6, <1>7, SumAdd
<1>10. TotalGain(h, g) = TotalGain(f, g) + g[v][s]
  <2>1. DOMAIN f = used
    BY <1>2
  <2>2. /\ TotalGain(h, g) = SumFunctionOnSet(Gains(h, g), more)
        /\ TotalGain(f, g) = SumFunctionOnSet(Gains(f, g), used)
    BY <1>3, <2>1, TotalIsSum
  <2>3. QED
    BY <1>6, <1>8, <1>9, <2>2
<1>11. QED
  BY <1>5, <1>10 DEF h, v

\* Matchings of fewer members are matchings of more.
LEMMA MoreMembers ==
  ASSUME NEW k \in Nat, NEW used, NEW g, NEW f \in Matched(k, used, g)
  PROVE  f \in Matched(k + 1, used, g)
<1>1. f \in [used -> 1 .. k + 1]
  BY MatchedIs
<1>2. QED
  BY <1>1, MatchedIs

\* A matching of the members up to k + 1 is one of the first k, or one of them with
\* a slot for the last.
LEMMA WithoutLast ==
  ASSUME NEW g \in Tables, NEW k \in Nat, k < MemberCount, NEW used \in SUBSET Slots,
         NEW f \in Matched(k + 1, used, g)
  PROVE  \/ f \in Matched(k, used, g)
         \/ \E s \in used : \E h \in Matched(k, used \ {s}, g) :
              /\ g[k + 1][s] >= 0
              /\ TotalGain(f, g) = TotalGain(h, g) + g[k + 1][s]
<1>1. /\ f \in [used -> 1 .. k + 1]
      /\ \A r, t \in used : f[r] = f[t] => r = t
      /\ \A r \in used : g[f[r]][r] >= 0
  BY MatchedIs
<1>2. CASE \A s \in used : f[s] # k + 1
  <2>1. f \in [used -> 1 .. k]
    BY <1>1, <1>2
  <2>2. f \in Matched(k, used, g)
    BY <1>1, <2>1, MatchedIs
  <2>3. QED
    BY <2>2
<1>3. CASE \E s \in used : f[s] = k + 1
  <2>1. PICK s \in used : f[s] = k + 1
    BY <1>3
  <2> DEFINE less == used \ {s}
             h == [t \in less |-> f[t]]
  <2>2. h \in [less -> 1 .. k] /\ \A t \in less : h[t] = f[t]
    <3>1. \A t \in less : f[t] \in 1 .. k + 1 /\ f[t] # k + 1
      BY <1>1, <2>1
    <3>2. \A t \in less : f[t] \in 1 .. k
      BY <3>1
    <3>3. QED
      BY <3>2
  <2>3. With(h, less, s, k + 1) = f
    <3>1. less \cup {s} = used
      BY <2>1
    <3>2. \A t \in used : f[t] = IF t = s THEN k + 1 ELSE h[t]
      BY <2>1, <2>2
    <3> DEFINE w == [t \in used |-> IF t = s THEN k + 1 ELSE h[t]]
    <3>3. w = f
      BY <1>1, <3>2
    <3>4. QED
      BY <3>1, <3>3 DEF With
  <2>4. less \in SUBSET Slots /\ s \in Slots \ less
    BY <2>1
  <2> HIDE DEF h
  <2>5. h \in Matched(k, less, g)
    BY <1>1, <2>2, MatchedIs
  <2>6. g[k + 1][s] >= 0
    BY <1>1, <2>1
  <2>7. TotalGain(f, g) = TotalGain(h, g) + g[k + 1][s]
    BY <2>3, <2>4, <2>5, <2>6, OneMoreSlot
  <2>8. QED
    BY <2>5, <2>6, <2>7
<1>4. QED
  BY <1>2, <1>3

-----------------------------------------------------------------------------
\* The mapping of slots to members: the invariant.

Entry == [used : SUBSET Slots, score : Int, mapping : UNION {[u -> Members] : u \in SUBSET Slots}]

LEMMA EntryFields ==
  ASSUME NEW d \in Seq(Entry), NEW p \in 1 .. Len(d)
  PROVE  d[p].score \in Int /\ d[p].used \in SUBSET Slots
<1>1. d[p] \in Entry
  BY ElementOfSeq
<1>2. QED
  BY <1>1 DEF Entry

\* Each entry of a dict is a matching of the first k members with its total, and no
\* two entries are of the same slots.
DictOK(d, k, g) ==
  /\ d \in Seq(Entry)
  /\ \A p \in 1 .. Len(d) :
       d[p].mapping \in Matched(k, d[p].used, g) /\ d[p].score = TotalGain(d[p].mapping, g)
  /\ \A p, q \in 1 .. Len(d) : d[p].used = d[q].used => p = q

\* Of these slots, a dict has an entry of this score or a greater one.
Offers(d, used, score) ==
  \E p \in 1 .. Len(d) : d[p].used = used /\ score =< d[p].score

\* No matching of the first k members is better than the entry of its slots.
BestOK(d, k, g) ==
  \A used \in SUBSET Slots : \A f \in Matched(k, used, g) : Offers(d, used, TotalGain(f, g))

\* Pair p, s of the two loops has been tried.
Tried(p, s) == p < entry \/ (p = entry /\ s < index)

\* What the loops over a member have achieved: following offers what best does, and
\* what it does with the member in one more slot, for the pairs tried.
MemberOK ==
  /\ DictOK(following, member, gain)
  /\ \A p \in 1 .. Len(best) : Offers(following, best[p].used, best[p].score)
  /\ \A p \in 1 .. Len(best) : \A s \in Slots \ best[p].used :
       Tried(p, s) /\ gain[member][s] >= 0 =>
         Offers(following, best[p].used \cup {s}, best[p].score + gain[member][s])

AssignmentOK ==
  /\ gain \in Tables
  /\ member \in 1 .. MemberCount + 1
  /\ entry \in Nat \ {0} /\ index \in Nat \ {0} /\ (SlotCount > 0 => index =< SlotCount)
  /\ DictOK(best, member - 1, gain) /\ BestOK(best, member - 1, gain)
  /\ member =< MemberCount => MemberOK
  /\ result # Assignment!Pending =>
       result.mapping \in Assignment!BestMatchings(Members, Slots, gain)

\* The first dict has the mapping of no slots.
LEMMA AssignmentInit == Assignment!Init => AssignmentOK
<1> SUFFICES ASSUME Assignment!Init PROVE AssignmentOK
  OBVIOUS
<1> DEFINE none == << >>
           zero == [used |-> {}, score |-> 0, mapping |-> none]
<1>1. /\ gain \in [Members -> [Slots -> {c - THRESHOLD : c \in Cosines}]]
      /\ member = 1 /\ entry = 1 /\ index = 1 /\ best = <<zero>> /\ following = <<zero>>
      /\ result = Assignment!Pending
  BY DEF Assignment!Init, Members, Slots
<1>2. gain \in Tables
  <2>1. {c - THRESHOLD : c \in Cosines} \subseteq Int
    BY AssignmentAssumption
  <2>2. QED
    BY <1>1, <2>1 DEF Tables
<1>3. \A f : f \in [{} -> Members] <=> f = none
  <2>1. 1 .. 0 = {} /\ none \in [1 .. 0 -> Members]
    OBVIOUS
  <2>2. ASSUME NEW f \in [1 .. 0 -> Members] PROVE f = none
    <3>1. f \in Seq(Members) /\ Len(f) = 0
      BY LenProperties, SeqDef
    <3>2. QED
      BY <3>1, EmptySeq
  <2> HIDE DEF none
  <2>3. QED
    BY <2>1, <2>2
<1>4. /\ zero \in Entry /\ zero.used = {} /\ zero.score = 0 /\ zero.mapping = none
  <2>1. none \in [{} -> Members]
    BY <1>3
  <2>2. QED
    BY <2>1 DEF Entry
<1>5. \A used, f : f \in Matched(0, used, gain) => used = {} /\ f = none
  <2> SUFFICES ASSUME NEW used, NEW f \in Matched(0, used, gain) PROVE used = {} /\ f = none
    OBVIOUS
  <2>1. f \in [used -> 1 .. 0]
    BY MatchedIs
  <2>2. QED
    BY <1>3, <2>1
<1>6. \A k \in Nat : none \in Matched(k, {}, gain)
  <2>1. \A k \in Nat : none \in [{} -> 1 .. k]
    OBVIOUS
  <2>2. QED
    BY <2>1, MatchedIs
<1>7. TotalGain(none, gain) = 0
  <2>1. DOMAIN none = {}
    OBVIOUS
  <2> HIDE DEF none
  <2>2. QED
    BY <2>1, TotalIsSum, SumEmpty
<1> HIDE DEF none, zero
<1> DEFINE d == <<zero>>
<1>8. d \in Seq(Entry) /\ Len(d) = 1 /\ d[1] = zero
  BY <1>4
<1> HIDE DEF d
<1>9. (\A p \in 1 .. Len(d) : p = 1 /\ d[p] = zero) /\ 1 \in 1 .. Len(d)
  BY <1>8
<1>10. \A k \in Nat : DictOK(d, k, gain)
    <2>1. ASSUME NEW k \in Nat PROVE DictOK(d, k, gain)
    <3>1. \A p \in 1 .. Len(d) :
            d[p].mapping \in Matched(k, d[p].used, gain) /\ d[p].score = TotalGain(d[p].mapping, gain)
      BY <1>4, <1>6, <1>7, <1>9
    <3>2. \A p, q \in 1 .. Len(d) : p = q
      BY <1>9
    <3>3. QED
      BY <1>8, <3>1, <3>2 DEF DictOK
  <2>2. QED
    BY <2>1
<1>11. BestOK(d, 0, gain)
  <2>1. ASSUME NEW used \in SUBSET Slots, NEW f \in Matched(0, used, gain)
        PROVE  Offers(d, used, TotalGain(f, gain))
    <3>1. used = {} /\ TotalGain(f, gain) = 0
      BY <1>5, <1>7
    <3>2. d[1].used = {} /\ d[1].score = 0
      BY <1>4, <1>9
    <3>3. d[1].used = used /\ TotalGain(f, gain) =< d[1].score
      BY <3>1, <3>2
    <3>4. QED
      BY <1>9, <3>3 DEF Offers
  <2>2. QED
    BY <2>1 DEF BestOK
<1>12. best = d /\ following = d
  BY <1>1 DEF d
<1>13. 1 =< MemberCount => MemberOK
  <2>1. DictOK(following, member, gain)
    BY <1>1, <1>10, <1>12
  <2>2. \A p \in 1 .. Len(best) : Offers(following, best[p].used, best[p].score)
    BY <1>4, <1>12, <1>9 DEF Offers
  <2>3. \A p \in 1 .. Len(best), s \in Slots : ~Tried(p, s)
    BY <1>1, AssignmentAssumption DEF Tried, Slots, Assignment!Slots
  <2>4. QED
    BY <2>1, <2>2, <2>3 DEF MemberOK
<1>14. QED
  BY <1>1, <1>2, <1>10, <1>11, <1>12, <1>13, AssignmentAssumption DEF AssignmentOK

\* The pair that is tried.
LEMMA LoopingIs ==
  ASSUME AssignmentOK, Assignment!Looping
  PROVE  /\ member =< MemberCount /\ member \in Nat /\ member - 1 \in Nat
         /\ member - 1 < MemberCount /\ (member - 1) + 1 = member
         /\ entry \in 1 .. Len(best) /\ index \in Slots /\ MemberOK
         /\ best[entry] \in Entry /\ Len(best) \in Nat /\ best \in Seq(Entry)
<1>1. /\ best \in Seq(Entry) /\ Len(best) \in Nat
  BY LenProperties DEF AssignmentOK, DictOK
<1>2. /\ member =< MemberCount /\ entry =< Len(best) /\ index =< SlotCount
  BY DEF Assignment!Looping, Assignment!Read
<1>3. entry \in 1 .. Len(best) /\ index \in Slots
  BY <1>1, <1>2, AssignmentAssumption DEF AssignmentOK, Slots, Assignment!Slots
<1>4. QED
  BY <1>1, <1>2, <1>3, ElementOfSeq, AssignmentAssumption DEF AssignmentOK

\* The extension of an entry is a matching of one member more, with its total.
LEMMA ExtendedIs ==
  ASSUME AssignmentOK, Assignment!Looping, Assignment!Usable
  PROVE  /\ Assignment!Extended \in Entry
         /\ Assignment!Extended.used = best[entry].used \cup {index}
         /\ Assignment!Extended.score = best[entry].score + gain[member][index]
         /\ Assignment!Extended.mapping \in Matched(member, Assignment!Extended.used, gain)
         /\ Assignment!Extended.score = TotalGain(Assignment!Extended.mapping, gain)
         /\ index \notin best[entry].used /\ gain[member][index] >= 0
<1> DEFINE e == best[entry]
           k == member - 1
           h == With(e.mapping, e.used, index, k + 1)
           more == e.used \cup {index}
           sum == e.score + gain[member][index]
<1>1. /\ k \in Nat /\ k < MemberCount /\ k + 1 = member /\ member =< MemberCount
      /\ entry \in 1 .. Len(best) /\ index \in Slots /\ e \in Entry
  BY LoopingIs
<1>2. index \notin e.used /\ gain[member][index] >= 0
  BY DEF Assignment!Usable, Assignment!Read
<1>3. e.used \in SUBSET Slots /\ e.score \in Int
  BY <1>1 DEF Entry
<1>4. e.mapping \in Matched(k, e.used, gain) /\ e.score = TotalGain(e.mapping, gain)
  BY <1>1 DEF AssignmentOK, DictOK
<1>5. gain \in Tables
  BY DEF AssignmentOK
<1>6. Assignment!Extended = [used |-> more, score |-> sum, mapping |-> h]
  BY <1>1 DEF Assignment!Extended, Assignment!Read, With
<1> HIDE DEF e, k, h
<1>7. /\ h \in Matched(k + 1, more, gain)
      /\ TotalGain(h, gain) = TotalGain(e.mapping, gain) + gain[k + 1][index]
  <2>1. index \in Slots \ e.used /\ gain[k + 1][index] >= 0
    BY <1>1, <1>2
  <2>2. /\ k \in Nat /\ k < MemberCount /\ e.used \in SUBSET Slots
        /\ e.mapping \in Matched(k, e.used, gain) /\ gain \in Tables
    BY <1>1, <1>3, <1>4, <1>5
  <2>3. /\ With(e.mapping, e.used, index, k + 1) \in Matched(k + 1, e.used \cup {index}, gain)
        /\ TotalGain(With(e.mapping, e.used, index, k + 1), gain)
             = TotalGain(e.mapping, gain) + gain[k + 1][index]
    BY ONLY <2>1, <2>2, OneMoreSlot
  <2>4. QED
    BY <2>3 DEF h
<1>8. h \in Matched(member, more, gain) /\ TotalGain(h, gain) = sum
  BY <1>1, <1>4, <1>7
<1>9. more \in SUBSET Slots /\ sum \in Int /\ h \in [more -> Members]
  <2>1. gain[member][index] \in Int /\ member \in Members
    BY <1>1, <1>5, AssignmentAssumption DEF Tables, Members, Assignment!Members
  <2>2. h \in [more -> 1 .. member]
    BY <1>8, MatchedIs
  <2>3. 1 .. member \subseteq Members
    BY <1>1, AssignmentAssumption DEF Members, Assignment!Members
  <2>4. QED
    BY <1>1, <1>3, <2>1, <2>2, <2>3
<1> HIDE DEF more, sum
<1>10. /\ Assignment!Extended.used = more /\ Assignment!Extended.score = sum
       /\ Assignment!Extended.mapping = h
  BY <1>6
<1>11. Assignment!Extended \in Entry
  BY <1>6, <1>9 DEF Entry
<1>12. QED
  BY <1>2, <1>8, <1>10, <1>11 DEF more, sum, e

\* The two loops go on to the next pair.
LEMMA TriedNext ==
  ASSUME AssignmentOK, Assignment!Looping, Assignment!Advance
  PROVE  /\ entry' \in Nat \ {0} /\ index' \in Nat \ {0} /\ (SlotCount > 0 => index' =< SlotCount)
         /\ \A p \in Nat, s \in Slots : Tried(p, s)' => Tried(p, s) \/ (p = entry /\ s = index)
<1>1. /\ entry \in Nat \ {0} /\ index \in Nat \ {0} /\ index =< SlotCount /\ SlotCount \in Nat
  BY AssignmentAssumption DEF AssignmentOK, Assignment!Looping
<1>2. /\ index' = IF index < SlotCount THEN index + 1 ELSE 1
      /\ entry' = IF index < SlotCount THEN entry ELSE entry + 1
  BY DEF Assignment!Advance
<1>3. \A s \in Slots : s \in Nat /\ s =< SlotCount /\ s > 0
  BY <1>1 DEF Slots, Assignment!Slots
<1>4. QED
  BY <1>1, <1>2, <1>3 DEF Tried

\* If following is a dict of as many members, still offers what it did, and offers
\* what the pair gives if it may be used, the invariant holds at the next pair.
LEMMA PairKeeps ==
  ASSUME AssignmentOK, Assignment!Looping, Assignment!Advance,
         DictOK(following', member, gain),
         \A used : \A v \in Int : Offers(following, used, v) => Offers(following', used, v),
         Assignment!Usable =>
           Offers(following', Assignment!Extended.used, Assignment!Extended.score)
  PROVE  AssignmentOK'
<1>1. UNCHANGED <<gain, member, best, result>>
  BY DEF Assignment!Advance
<1>2. MemberOK /\ member =< MemberCount /\ Len(best) \in Nat
  BY LoopingIs
<1>3. \A p \in 1 .. Len(best) : Offers(following', best[p].used, best[p].score)
  <2>1. \A p \in 1 .. Len(best) : best[p].score \in Int
    BY EntryFields DEF AssignmentOK, DictOK
  <2>2. QED
    BY <1>2, <2>1 DEF MemberOK
<1>4. ASSUME NEW p \in 1 .. Len(best), NEW s \in Slots \ best[p].used,
             Tried(p, s)', gain[member][s] >= 0
      PROVE  Offers(following', best[p].used \cup {s}, best[p].score + gain[member][s])
  <2>1. Tried(p, s) \/ (p = entry /\ s = index)
    BY <1>2, <1>4, TriedNext
  <2>2. CASE Tried(p, s)
    <3>1. Offers(following, best[p].used \cup {s}, best[p].score + gain[member][s])
      BY <1>2, <1>4, <2>2 DEF MemberOK
    <3>2. best[p].score \in Int /\ gain[member][s] \in Int
      <4>1. best[p].score \in Int
        BY EntryFields DEF AssignmentOK, DictOK
      <4>2. member \in Members
        BY <1>2, AssignmentAssumption DEF AssignmentOK, Members, Assignment!Members
      <4>3. QED
        BY <4>1, <4>2 DEF AssignmentOK, Tables
    <3>3. QED
      BY <3>1, <3>2
  <2>3. CASE p = entry /\ s = index
    <3>1. Assignment!Usable
      BY <1>4, <2>3 DEF Assignment!Usable, Assignment!Read
    <3>2. /\ Assignment!Extended.used = best[p].used \cup {s}
          /\ Assignment!Extended.score = best[p].score + gain[member][s]
      BY <2>3, <3>1, ExtendedIs
    <3>3. QED
      BY <3>1, <3>2
  <2>4. QED
    BY <2>1, <2>2, <2>3
<1>5. MemberOK'
  <2>1. DictOK(following, member, gain)'
    BY <1>1 DEF DictOK
  <2>2. \A p \in 1 .. Len(best)' : Offers(following, best[p].used, best[p].score)'
    BY <1>1, <1>3 DEF Offers
  <2>3. \A p \in 1 .. Len(best)' : \A s \in Slots \ best'[p].used :
          Tried(p, s)' /\ gain'[member'][s] >= 0 =>
            Offers(following, best[p].used \cup {s}, best[p].score + gain[member][s])'
    BY <1>1, <1>4 DEF Offers
  <2>4. QED
    BY <2>1, <2>2, <2>3 DEF MemberOK
<1>6. DictOK(best, member - 1, gain)' /\ BestOK(best, member - 1, gain)'
  BY <1>1 DEF AssignmentOK, DictOK, BestOK, Offers
<1>7. (result # Assignment!Pending =>
         result.mapping \in Assignment!BestMatchings(Members, Slots, gain))'
  <2>1. result # Assignment!Pending =>
          result.mapping \in Assignment!BestMatchings(Members, Slots, gain)
    BY DEF AssignmentOK
  <2>2. Assignment!Pending' = Assignment!Pending
    BY DEF Assignment!Pending
  <2>3. QED
    BY <1>1, <2>1, <2>2
<1>8. gain' \in Tables /\ member' \in 1 .. MemberCount + 1
  BY <1>1 DEF AssignmentOK
<1>9. QED
  BY <1>5, <1>6, <1>7, <1>8, TriedNext DEF AssignmentOK

LEMMA PassKeeps ==
  ASSUME AssignmentOK, Assignment!Pass
  PROVE  AssignmentOK'
<1>1. /\ Assignment!Looping /\ Assignment!Advance /\ following' = following
      /\ Assignment!Usable => ~Assignment!Improves
  BY DEF Assignment!Pass
<1>2. DictOK(following', member, gain)
  BY <1>1, LoopingIs DEF MemberOK
<1>3. ASSUME Assignment!Usable
      PROVE  Offers(following', Assignment!Extended.used, Assignment!Extended.score)
  <2>1. PICK p \in Assignment!Places : ~(Assignment!Extended.score > following[p].score)
    BY <1>1, <1>3 DEF Assignment!Improves
  <2>2. p \in 1 .. Len(following) /\ following[p].used = Assignment!Extended.used
    BY <2>1 DEF Assignment!Places
  <2>3. Assignment!Extended.score \in Int /\ following[p].score \in Int
    <3>1. following[p] \in Entry
      BY <1>1, <2>2, LoopingIs, ElementOfSeq DEF MemberOK, DictOK
    <3>2. QED
      BY <1>1, <1>3, <3>1, ExtendedIs DEF Entry
  <2>4. Assignment!Extended.score =< following[p].score
    BY <2>1, <2>3
  <2>5. QED
    BY <1>1, <2>2, <2>4 DEF Offers
<1>4. QED
  BY <1>1, <1>2, <1>3, PairKeeps

LEMMA InsertKeeps ==
  ASSUME AssignmentOK, Assignment!Insert
  PROVE  AssignmentOK'
<1> DEFINE e == Assignment!Extended
           len == Len(following)
<1>1. /\ Assignment!Looping /\ Assignment!Advance /\ Assignment!Usable
      /\ Assignment!Places = {} /\ following' = Append(following, e)
  BY DEF Assignment!Insert
<1>2. DictOK(following, member, gain) /\ following \in Seq(Entry) /\ len \in Nat
  BY <1>1, LoopingIs, LenProperties DEF MemberOK, DictOK
<1>3. /\ e \in Entry /\ e.mapping \in Matched(member, e.used, gain)
      /\ e.score = TotalGain(e.mapping, gain)
  BY <1>1, ExtendedIs
<1>4. \A p \in 1 .. len : following[p].used # e.used
  BY <1>1 DEF Assignment!Places
<1> HIDE DEF e
<1>5. /\ following' \in Seq(Entry) /\ Len(following') = len + 1
      /\ following'[len + 1] = e
      /\ \A p \in 1 .. len : following'[p] = following[p]
  BY <1>1, <1>2, <1>3, AppendProperties
<1>6. \A p \in 1 .. len + 1 : p \in 1 .. len \/ p = len + 1
  BY <1>2
<1> HIDE DEF len
<1>7. DictOK(following', member, gain)
  <2>1. \A p \in 1 .. len + 1 :
          /\ following'[p].mapping \in Matched(member, following'[p].used, gain)
          /\ following'[p].score = TotalGain(following'[p].mapping, gain)
    BY <1>2, <1>3, <1>5, <1>6 DEF DictOK, len
  <2>2. \A p, q \in 1 .. len + 1 : following'[p].used = following'[q].used => p = q
    <3>1. \A p, q \in 1 .. len : following[p].used = following[q].used => p = q
      BY <1>2 DEF DictOK, len
    <3>2. QED
      BY <1>4, <1>5, <1>6, <3>1
  <2>3. QED
    BY <1>5, <2>1, <2>2 DEF DictOK
<1>8. ASSUME NEW used, NEW v, Offers(following, used, v) PROVE Offers(following', used, v)
  <2>1. PICK p \in 1 .. len : following[p].used = used /\ v =< following[p].score
    BY <1>8 DEF Offers, len
  <2>2. p \in 1 .. len + 1
    BY <1>2 DEF len
  <2>3. QED
    BY <1>5, <2>1, <2>2 DEF Offers
<1>9. Offers(following', e.used, e.score)
  <2>1. len + 1 \in 1 .. Len(following')
    BY <1>2, <1>5 DEF len
  <2>2. e.score =< e.score
    BY <1>3 DEF Entry
  <2>3. QED
    BY <1>5, <2>1, <2>2 DEF Offers
<1>10. QED
  BY <1>1, <1>7, <1>8, <1>9, PairKeeps DEF e

LEMMA ReplaceKeeps ==
  ASSUME AssignmentOK, Assignment!Replace
  PROVE  AssignmentOK'
<1> DEFINE e == Assignment!Extended
           len == Len(following)
<1>1. /\ Assignment!Looping /\ Assignment!Advance /\ Assignment!Usable
      /\ Assignment!Improves
  BY DEF Assignment!Replace
<1>2. PICK x \in Assignment!Places : following' = [following EXCEPT ![x] = e]
  BY DEF Assignment!Replace
<1>3. DictOK(following, member, gain) /\ following \in Seq(Entry) /\ len \in Nat
  BY <1>1, LoopingIs, LenProperties DEF MemberOK, DictOK
<1>4. /\ e \in Entry /\ e.mapping \in Matched(member, e.used, gain)
      /\ e.score = TotalGain(e.mapping, gain)
  BY <1>1, ExtendedIs
<1>5. /\ x \in 1 .. len /\ following[x].used = e.used /\ e.score > following[x].score
  BY <1>1 DEF Assignment!Places, Assignment!Improves
<1> HIDE DEF e
<1>6. /\ following' \in Seq(Entry) /\ Len(following') = len
      /\ \A p \in 1 .. len : following'[p] = IF p = x THEN e ELSE following[p]
  BY <1>2, <1>3, <1>4, <1>5, ExceptSeq
<1> HIDE DEF len
<1>7. DictOK(following', member, gain)
  <2>1. \A p \in 1 .. len :
          /\ following'[p].mapping \in Matched(member, following'[p].used, gain)
          /\ following'[p].score = TotalGain(following'[p].mapping, gain)
    BY <1>3, <1>4, <1>6 DEF DictOK, len
  <2>2. \A p \in 1 .. len : following'[p].used = following[p].used
    BY <1>5, <1>6
  <2>3. \A p, q \in 1 .. len : following[p].used = following[q].used => p = q
    BY <1>3 DEF DictOK, len
  <2>4. QED
    BY <1>6, <2>1, <2>2, <2>3 DEF DictOK
<1>8. ASSUME NEW used, NEW v \in Int, Offers(following, used, v)
      PROVE  Offers(following', used, v)
  <2>1. PICK p \in 1 .. len : following[p].used = used /\ v =< following[p].score
    BY <1>8 DEF Offers, len
  <2>2. following[p].score \in Int /\ e.score \in Int
    BY <1>3, <1>4, <2>1, EntryFields DEF Entry, len
  <2>3. following'[p].used = used /\ v =< following'[p].score
    BY <1>5, <1>6, <2>1, <2>2
  <2>4. QED
    BY <1>6, <2>1, <2>3 DEF Offers
<1>9. Offers(following', e.used, e.score)
  <2>1. e.score =< e.score
    BY <1>4 DEF Entry
  <2>2. QED
    BY <1>5, <1>6, <2>1 DEF Offers
<1>10. QED
  BY <1>1, <1>7, <1>8, <1>9, PairKeeps DEF e

\* After the last pair of a member, following is the best of what there is with one
\* member more.
LEMMA NextMemberKeeps ==
  ASSUME AssignmentOK, Assignment!NextMember
  PROVE  AssignmentOK'
<1>1. /\ member =< MemberCount /\ (SlotCount = 0 \/ entry > Len(best))
      /\ best' = following /\ member' = member + 1 /\ entry' = 1 /\ index' = 1
      /\ UNCHANGED <<gain, following, result>>
  BY DEF Assignment!NextMember, Assignment!Read
<1> DEFINE k == member - 1
<1>2. /\ k \in Nat /\ k < MemberCount /\ k + 1 = member /\ member \in Nat
      /\ gain \in Tables /\ MemberOK /\ BestOK(best, k, gain) /\ DictOK(best, k, gain)
  BY <1>1, AssignmentAssumption DEF AssignmentOK
<1>3. /\ DictOK(following, member, gain)
      /\ following \in Seq(Entry) /\ Len(following) \in Nat
      /\ best \in Seq(Entry) /\ Len(best) \in Nat
  BY <1>2, LenProperties DEF MemberOK, DictOK
<1>4. /\ \A p \in 1 .. Len(following) : following[p].score \in Int
      /\ \A p \in 1 .. Len(best) : best[p].score \in Int /\ best[p].used \in SUBSET Slots
  BY <1>3, EntryFields
<1> HIDE DEF k
<1>5. ASSUME NEW used \in SUBSET Slots, NEW f \in Matched(k + 1, used, gain)
      PROVE  Offers(following, used, TotalGain(f, gain))
  <2>1. CASE f \in Matched(k, used, gain)
    <3>1. PICK p \in 1 .. Len(best) : best[p].used = used /\ TotalGain(f, gain) =< best[p].score
      BY <1>2, <2>1 DEF BestOK, Offers
    <3>2. PICK q \in 1 .. Len(following) :
                 following[q].used = used /\ best[p].score =< following[q].score
      BY <1>2, <3>1 DEF MemberOK, Offers
    <3>3. TotalGain(f, gain) \in Int
      BY <1>2, <2>1, TotalInt, AssignmentAssumption
    <3>4. TotalGain(f, gain) =< following[q].score
      BY <1>4, <3>1, <3>2, <3>3
    <3>5. QED
      BY <3>2, <3>4 DEF Offers
  <2>2. CASE \E s \in used : \E h \in Matched(k, used \ {s}, gain) :
               /\ gain[k + 1][s] >= 0
               /\ TotalGain(f, gain) = TotalGain(h, gain) + gain[k + 1][s]
    <3>1. PICK s \in used : \E h \in Matched(k, used \ {s}, gain) :
                 /\ gain[k + 1][s] >= 0
                 /\ TotalGain(f, gain) = TotalGain(h, gain) + gain[k + 1][s]
      BY <2>2
    <3> DEFINE less == used \ {s}
    <3>2. PICK h \in Matched(k, less, gain) :
                 /\ gain[k + 1][s] >= 0
                 /\ TotalGain(f, gain) = TotalGain(h, gain) + gain[k + 1][s]
      BY <3>1
    <3>3. less \in SUBSET Slots /\ s \in Slots /\ less \cup {s} = used /\ s \notin less
      BY <3>1
    <3> HIDE DEF less
    <3>4. PICK p \in 1 .. Len(best) : best[p].used = less /\ TotalGain(h, gain) =< best[p].score
      BY <1>2, <3>2, <3>3 DEF BestOK, Offers
    <3>5. Tried(p, s)
      <4>1. SlotCount # 0
        BY <3>3, AssignmentAssumption DEF Slots, Assignment!Slots
      <4>2. entry \in Nat
        BY DEF AssignmentOK
      <4>3. p < entry
        BY <1>1, <1>3, <3>4, <4>1, <4>2
      <4>4. QED
        BY <4>3 DEF Tried
    <3>6. Offers(following, used, best[p].score + gain[k + 1][s])
      BY <1>2, <3>2, <3>3, <3>4, <3>5 DEF MemberOK
    <3>7. PICK q \in 1 .. Len(following) :
                 following[q].used = used /\ best[p].score + gain[k + 1][s] =< following[q].score
      BY <3>6 DEF Offers
    <3>8. /\ TotalGain(h, gain) \in Int /\ gain[k + 1][s] \in Int
          /\ best[p].score \in Int /\ following[q].score \in Int
      <4>1. TotalGain(h, gain) \in Int
        BY <1>2, <3>2, <3>3, TotalInt, AssignmentAssumption
      <4>2. k + 1 \in Members
        BY <1>1, <1>2, AssignmentAssumption DEF Members, Assignment!Members
      <4>3. gain[k + 1][s] \in Int
        BY <1>2, <3>3, <4>2 DEF Tables
      <4>4. QED
        BY <1>4, <4>1, <4>3
    <3>9. TotalGain(f, gain) =< following[q].score
      BY <3>2, <3>4, <3>7, <3>8
    <3>10. QED
      BY <3>7, <3>9 DEF Offers
  <2>3. QED
    BY <1>2, <1>5, <2>1, <2>2, WithoutLast
<1>6. BestOK(following, member, gain)
  BY <1>2, <1>5 DEF BestOK
<1>7. DictOK(following, member + 1, gain)
  <2>1. \A p \in 1 .. Len(following) :
          following[p].mapping \in Matched(member + 1, following[p].used, gain)
    BY <1>2, <1>3, MoreMembers DEF DictOK
  <2>2. QED
    BY <1>3, <2>1 DEF DictOK
<1>8. MemberOK'
  <2>1. DictOK(following, member, gain)'
    BY <1>1, <1>7 DEF DictOK
  <2>2. \A p \in 1 .. Len(following) : Offers(following, following[p].used, following[p].score)
    <3>1. \A p \in 1 .. Len(following) : following[p].score =< following[p].score
      BY <1>4
    <3>2. QED
      BY <3>1 DEF Offers
  <2>3. \A p \in 1 .. Len(following), s \in Slots : ~Tried(p, s)'
    BY <1>1, <1>3, AssignmentAssumption DEF Tried, Slots, Assignment!Slots
  <2>4. QED
    BY <1>1, <2>1, <2>2, <2>3 DEF MemberOK, Offers
<1>9. DictOK(best, member - 1, gain)' /\ BestOK(best, member - 1, gain)'
  <2>1. best' = following /\ member' - 1 = member /\ gain' = gain
    BY <1>1, <1>2
  <2>2. QED
    BY <1>3, <1>6, <2>1 DEF DictOK, BestOK, Offers
<1>10. (result # Assignment!Pending =>
          result.mapping \in Assignment!BestMatchings(Members, Slots, gain))'
  <2>1. result # Assignment!Pending =>
          result.mapping \in Assignment!BestMatchings(Members, Slots, gain)
    BY DEF AssignmentOK
  <2>2. Assignment!Pending' = Assignment!Pending
    BY DEF Assignment!Pending
  <2>3. QED
    BY <1>1, <2>1, <2>2
<1>11. /\ gain' \in Tables /\ member' \in 1 .. MemberCount + 1
       /\ entry' \in Nat \ {0} /\ index' \in Nat \ {0} /\ (SlotCount > 0 => index' =< SlotCount)
  BY <1>1, <1>2, AssignmentAssumption
<1>12. QED
  BY <1>8, <1>9, <1>10, <1>11 DEF AssignmentOK

\* The greatest entry of the last dict is the best of all matchings.
LEMMA ReturnKeeps ==
  ASSUME AssignmentOK, Assignment!Return
  PROVE  AssignmentOK'
<1>1. /\ member > MemberCount
      /\ UNCHANGED <<gain, member, best, following, entry, index>>
  BY DEF Assignment!Return
<1>2. PICK x \in 1 .. Len(best) :
             /\ \A q \in 1 .. Len(best) : IF q < x THEN best[q].score < best[x].score
                                                    ELSE best[q].score =< best[x].score
             /\ result' = best[x]
  BY DEF Assignment!Return
<1>3. member - 1 = MemberCount /\ MemberCount \in Nat /\ gain \in Tables
  BY <1>1, AssignmentAssumption DEF AssignmentOK
<1>4. DictOK(best, MemberCount, gain) /\ BestOK(best, MemberCount, gain)
  BY <1>3 DEF AssignmentOK
<1>5. /\ \A p \in 1 .. Len(best) : best[p].score \in Int /\ best[p].used \in SUBSET Slots
      /\ Len(best) \in Nat
  BY <1>4, EntryFields, LenProperties DEF DictOK
<1>6. \A q \in 1 .. Len(best) : best[q].score =< best[x].score
  BY <1>2, <1>5
<1> DEFINE f == best[x].mapping
           all == UNION {Assignment!Matchings(Members, used, gain) : used \in SUBSET Slots}
<1>7. f \in Matched(MemberCount, best[x].used, gain) /\ best[x].score = TotalGain(f, gain)
  BY <1>4 DEF DictOK
<1>8. Members = 1 .. MemberCount
  BY DEF Members, Assignment!Members
<1>9. f \in all
  BY <1>5, <1>7, <1>8 DEF Matched
<1>10. ASSUME NEW g \in all PROVE Assignment!Total(g, gain) =< Assignment!Total(f, gain)
  <2>1. PICK used \in SUBSET Slots : g \in Matched(MemberCount, used, gain)
    BY <1>8, <1>10 DEF Matched
  <2>2. PICK p \in 1 .. Len(best) : TotalGain(g, gain) =< best[p].score
    BY <1>4, <2>1 DEF BestOK, Offers
  <2>3. TotalGain(g, gain) \in Int
    BY <1>3, <2>1, TotalInt
  <2>4. TotalGain(g, gain) =< best[x].score
    BY <1>5, <1>6, <2>2, <2>3
  <2>5. QED
    BY <1>7, <2>4 DEF TotalGain
<1>11. f \in Assignment!BestMatchings(Members, Slots, gain)
  BY <1>9, <1>10 DEF Assignment!BestMatchings
<1>12. (result # Assignment!Pending =>
          result.mapping \in Assignment!BestMatchings(Members, Slots, gain))'
  BY <1>1, <1>2, <1>11
<1>13. DictOK(best, member - 1, gain)' /\ BestOK(best, member - 1, gain)'
  BY <1>1 DEF AssignmentOK, DictOK, BestOK, Offers
<1>14. ~(member' =< MemberCount)
  BY <1>1, <1>3 DEF AssignmentOK
<1>15. QED
  BY <1>1, <1>12, <1>13, <1>14 DEF AssignmentOK

LEMMA AssignmentNext ==
  AssignmentOK /\ (Assignment!Next \/ UNCHANGED assignmentVars) => AssignmentOK'
<1> SUFFICES ASSUME AssignmentOK, Assignment!Next \/ UNCHANGED assignmentVars
             PROVE  AssignmentOK'
  OBVIOUS
<1>1. CASE UNCHANGED assignmentVars
  <2>1. UNCHANGED <<gain, member, best, following, entry, index, result>>
    BY <1>1 DEF assignmentVars
  <2>2. Assignment!Pending' = Assignment!Pending
    BY DEF Assignment!Pending
  <2>3. ASSUME MemberOK PROVE MemberOK'
    <3>1. DictOK(following, member, gain)'
      BY <2>1, <2>3 DEF MemberOK, DictOK
    <3>2. \A used, v : Offers(following, used, v)' = Offers(following, used, v)
      BY <2>1 DEF Offers
    <3>3. \A p, s : Tried(p, s)' <=> Tried(p, s)
      BY <2>1 DEF Tried
    <3>4. /\ \A p \in 1 .. Len(best) : Offers(following, best[p].used, best[p].score)
          /\ \A p \in 1 .. Len(best) : \A s \in Slots \ best[p].used :
               Tried(p, s) /\ gain[member][s] >= 0 =>
                 Offers(following, best[p].used \cup {s}, best[p].score + gain[member][s])
      BY <2>3 DEF MemberOK
    <3>5. QED
      BY <2>1, <3>1, <3>2, <3>3, <3>4 DEF MemberOK
  <2>4. DictOK(best, member - 1, gain)'
    BY <2>1 DEF AssignmentOK, DictOK
  <2>5. BestOK(best, member - 1, gain)'
    BY <2>1 DEF AssignmentOK, BestOK, Offers
  <2>6. QED
    BY <2>1, <2>2, <2>3, <2>4, <2>5 DEF AssignmentOK
<1>2. QED
  BY <1>1, PassKeeps, InsertKeeps, ReplaceKeeps, NextMemberKeeps, ReturnKeeps
     DEF Assignment!Next

\* A step of the computations is a step of the assignment, or leaves it.
LEMMA StepOfAssignment ==
  ASSUME [Next]_vars
  PROVE  Assignment!Next \/ UNCHANGED assignmentVars
BY DEF Next, vars, AssignmentStep, AttributionStep, ContextStep, TranscriptsStep, BatchStep

THEOREM BestAlwaysKept == Spec => []AssignmentOK
<1>1. Init => AssignmentOK
  BY AssignmentInit DEF Init
<1>2. AssignmentOK /\ [Next]_vars => AssignmentOK'
  BY StepOfAssignment, AssignmentNext
<1>3. QED
  BY <1>1, <1>2, PTL DEF Spec

\* For any members, slots, cosines and threshold: what the dynamic program of _assign
\* keeps for a set of slots is a best matching of the members so far to just these
\* slots, and what it returns is a best one-to-one mapping of all.
THEOREM AlwaysAssignedBest == Spec => []AssignmentOptimal
<1>1. AssignmentOK => AssignmentOptimal
  <2> SUFFICES ASSUME AssignmentOK PROVE Assignment!AssignmentOptimal
    BY DEF AssignmentOptimal
  <2> DEFINE k == member - 1
  <2>1. DictOK(best, k, gain) /\ BestOK(best, k, gain)
    BY DEF AssignmentOK
  <2>2. ASSUME NEW used \in SUBSET Slots
        PROVE  LET ms   == Matched(k, used, gain)
                   held == {p \in 1 .. Len(best) : best[p].used = used}
               IN  /\ Cardinality(held) = (IF ms = {} THEN 0 ELSE 1)
                   /\ \A p \in held :
                        /\ best[p].mapping \in ms
                        /\ best[p].score = TotalGain(best[p].mapping, gain)
                        /\ \A f \in ms : TotalGain(f, gain) =< best[p].score
    <3> DEFINE ms   == Matched(k, used, gain)
               held == {p \in 1 .. Len(best) : best[p].used = used}
    <3>1. \A p \in held : best[p].mapping \in ms /\ best[p].score = TotalGain(best[p].mapping, gain)
      BY <2>1 DEF DictOK
    <3>2. \A p, q \in held : p = q
      BY <2>1 DEF DictOK
    <3>3. ASSUME NEW f \in ms PROVE \E p \in held : TotalGain(f, gain) =< best[p].score
      BY <2>1 DEF BestOK, Offers
    <3> HIDE DEF ms, held
    <3>4. Cardinality(held) = (IF ms = {} THEN 0 ELSE 1)
      <4>1. CASE ms = {}
        <5>1. held = {}
          BY <3>1, <4>1
        <5>2. QED
          BY <4>1, <5>1, FS_EmptySet
      <4>2. CASE ms # {}
        <5>1. PICK p \in held : TRUE
          BY <3>3, <4>2
        <5>2. held = {p}
          BY <3>2
        <5>3. QED
          BY <4>2, <5>2, FS_Singleton
      <4>3. QED
        BY <4>1, <4>2
    <3>5. QED
      BY <3>1, <3>2, <3>3, <3>4 DEF ms, held
  <2>3. \A S : Assignment!Cardinality(S) = Cardinality(S)
    BY DEF Assignment!Cardinality, Cardinality
  <2>4. result # Assignment!Pending =>
          result.mapping \in Assignment!BestMatchings(Assignment!Members, Assignment!Slots, gain)
    BY DEF AssignmentOK, Members, Slots
  <2>5. QED
    BY <2>2, <2>3, <2>4 DEF Assignment!AssignmentOptimal, Matched, TotalGain, Slots
<1>2. QED
  BY <1>1, BestAlwaysKept, PTL
===============================================================================
