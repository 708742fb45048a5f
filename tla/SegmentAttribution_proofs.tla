------------------------ MODULE SegmentAttribution_proofs ------------------------
(***************************************************************************)
(* Proofs about SegmentAttribution, for any team, slots, voices and number *)
(* of segments: the client's names and the evidence of the mapper belong   *)
(* to the segments they are shown and taken for, whatever becomes of the   *)
(* extractions.                                                            *)
(***************************************************************************)
EXTENDS SegmentAttribution, CollectionLemmas

-----------------------------------------------------------------------------
\* The invariant.

States == {"none", "submitted", "running", "done", "cancelled"}
Taken  == [segment : Nat, committed : BOOLEAN]
Shown  == [segment : Nat, speaker : Slots \cup {None}, committed : BOOLEAN,
           name : Nat \cup {None}]

KindsOK ==
  /\ profiles \in SUBSET Members
  /\ closed \in Seq(Segment)
  /\ futures \in Seq(States) /\ Len(futures) = Len(closed)
  /\ pool \in Seq(Nat) /\ \A i \in 1 .. Len(pool) : pool[i] \in 1 .. Len(closed)
  /\ running = None \/ running \in 1 .. Len(closed)
  /\ recognised \in 0 .. Len(closed)
  /\ results \in Seq(Taken) /\ current \in Taken /\ current.segment \in 0 .. Len(closed)
  /\ emit \in {"get", "wait", "send", "over"}
  /\ delivered \in Seq(Shown)

\* The results that wait are those of the segments after the current one, in
\* their order.
OrderOK ==
  emit # "over" =>
    /\ current.segment + Len(results) = recognised
    /\ \A k \in 1 .. Len(results) : results[k].segment = current.segment + k

\* Nothing that lies ahead of the emit task has been given up.
FuturesOK ==
  /\ \A i \in 1 .. Len(futures) : futures[i] = "none" <=> ~Enabled
  /\ emit # "over" =>
       \A i \in 1 .. Len(futures) : i > current.segment => futures[i] # "cancelled"
  /\ emit = "wait" =>
       /\ current.segment \in 1 .. Len(closed) /\ current.committed /\ Enabled
       /\ futures[current.segment] # "cancelled"

\* What is taken as evidence.
CountedOK ==
  /\ counted \in SUBSET Nat
  /\ \A i \in counted :
       /\ i \in 1 .. Len(closed) /\ i =< current.segment
       /\ futures[i] = "done" /\ closed[i].voice # << >>
  /\ current.segment \in counted => current.committed /\ emit # "wait"

\* The terms of the evidence of a slot.
Part(i, m) == closed[i].seconds * closed[i].voice[m]
Heard(s) == {i \in counted : closed[i].slot = s}
Lengths(s) == [i \in Heard(s) |-> closed[i].seconds]
Parts(s, m) == [i \in Heard(s) |-> closed[i].seconds * closed[i].voice[m]]

SumsOK ==
  /\ DOMAIN sums = DOMAIN seconds
  /\ \A i \in counted : closed[i].slot \in DOMAIN seconds
  /\ \A s \in DOMAIN seconds :
       /\ seconds[s] = SumFunctionOnSet(Lengths(s), Heard(s))
       /\ \A m \in Members : sums[s][m] = SumFunctionOnSet(Parts(s, m), Heard(s))

\* Each connected slot has a member of the session to itself.
OneToOne(map) ==
  /\ \A s \in DOMAIN map : map[s] \in profiles
  /\ \A s, t \in DOMAIN map : map[s] = map[t] => s = t

\* A name that a snapshot gives to this speaker of a segment is right.
RightName(snapshot, speaker, segment) ==
  speaker \in DOMAIN snapshot /\ snapshot[speaker] # None =>
    snapshot[speaker] = BestMember(closed[segment].voice)

\* What is on its way to the client: nothing, or what the current result became.
OutboxOK ==
  /\ emit \in {"get", "wait"} => outbox = << >> /\ view = sent
  /\ emit = "send" =>
       /\ current.segment \in 1 .. Len(closed)
       /\ \E speaker \in Slots \cup {None} :
            /\ \/ outbox = <<Message(current, speaker)>> /\ view = sent
               \/ outbox = <<Update(sent), Message(current, speaker)>>
            /\ current.committed => RightName(sent, speaker, current.segment)

MapperOK ==
  /\ discovered \in SUBSET Slots /\ OneToOne(mapping)
  /\ sent = Snapshot(discovered, mapping)
  /\ ~Enabled => discovered = {}

DeliveredOK ==
  \A i \in 1 .. Len(delivered) :
    LET t == delivered[i]
    IN  /\ t.segment \in 1 .. Len(closed) /\ t.segment =< current.segment
        /\ emit = "wait" => t.segment # current.segment
        /\ t.segment \in counted => t.committed
        /\ t.committed /\ t.name # None => t.name = BestMember(closed[t.segment].voice)

IInv ==
  /\ KindsOK /\ OrderOK /\ FuturesOK /\ CountedOK /\ SumsOK
  /\ OutboxOK /\ MapperOK /\ DeliveredOK

-----------------------------------------------------------------------------
\* What a step that does not concern them leaves as it is.

\* The segments closed so far stay what they are.
SegmentsStay ==
  /\ Len(closed) \in Nat /\ Len(closed') \in Nat /\ Len(closed) =< Len(closed')
  /\ \A i \in 1 .. Len(closed) : closed'[i] = closed[i]

LEMMA SegmentsUnchanged ==
  ASSUME KindsOK, closed' = closed
  PROVE  SegmentsStay
<1>1. Len(closed) \in Nat
  BY LenProperties DEF KindsOK
<1>2. QED
  BY <1>1 DEF SegmentsStay

LEMMA SumsKept ==
  ASSUME SumsOK, CountedOK, SegmentsStay, sums' = sums, seconds' = seconds, counted' = counted
  PROVE  SumsOK'
<1>1. \A i \in counted : closed'[i] = closed[i]
  BY DEF CountedOK, SegmentsStay
<1>2. \A s : Heard(s)' = Heard(s)
  BY <1>1 DEF Heard
<1>3. \A s : Lengths(s)' = Lengths(s) /\ \A m : Parts(s, m)' = Parts(s, m)
  <2>1. \A s : \A i \in Heard(s) : closed'[i] = closed[i]
    BY <1>1 DEF Heard
  <2>2. QED
    BY <1>2, <2>1 DEF Lengths, Parts
<1>4. \A i \in counted : closed'[i].slot \in DOMAIN seconds
  BY <1>1 DEF SumsOK
<1>5. QED
  BY <1>2, <1>3, <1>4 DEF SumsOK

LEMMA CountedKept ==
  ASSUME CountedOK, SegmentsStay, counted' = counted, current' = current,
         \A i \in counted : futures'[i] = futures[i],
         emit' = "wait" => emit = "wait"
  PROVE  CountedOK'
<1>1. ASSUME NEW i \in counted PROVE i \in 1 .. Len(closed') /\ closed'[i] = closed[i]
  <2>1. i \in 1 .. Len(closed)
    BY DEF CountedOK
  <2>2. QED
    BY <2>1 DEF SegmentsStay
<1>2. QED
  BY <1>1 DEF CountedOK

LEMMA MapperKept ==
  ASSUME MapperOK, profiles' = profiles, discovered' = discovered, mapping' = mapping,
         sent' = sent
  PROVE  MapperOK'
BY DEF MapperOK, Snapshot, OneToOne, Enabled

LEMMA OutboxKept ==
  ASSUME OutboxOK, SegmentsStay, emit' = emit \/ emit' = "over", outbox' = outbox \/ emit' = "over",
         profiles' = profiles, current' = current, sent' = sent, view' = view
  PROVE  OutboxOK'
<1>1. CASE emit' = "over"
  BY <1>1 DEF OutboxOK
<1>2. CASE emit' = emit /\ outbox' = outbox /\ emit = "send"
  <2>1. current.segment \in 1 .. Len(closed)
    BY <1>2 DEF OutboxOK
  <2>2. current.segment \in 1 .. Len(closed') /\ closed'[current.segment] = closed[current.segment]
    BY <2>1 DEF SegmentsStay
  <2>3. \A s : RightName(sent, s, current.segment)' <=> RightName(sent, s, current.segment)
    BY <2>2 DEF RightName, BestMember
  <2>4. \A s : /\ Message(current, s)' = Message(current, s)
               /\ Update(sent)' = Update(sent)
    BY DEF Message, Update
  <2>5. PICK s \in Slots \cup {None} :
          /\ \/ outbox = <<Message(current, s)>> /\ view = sent
             \/ outbox = <<Update(sent), Message(current, s)>>
          /\ current.committed => RightName(sent, s, current.segment)
    BY <1>2 DEF OutboxOK
  <2>6. /\ \/ outbox' = <<Message(current, s)'>> /\ view' = sent'
           \/ outbox' = <<Update(sent)', Message(current, s)'>>
        /\ current'.committed => RightName(sent, s, current.segment)'
    BY <1>2, <2>3, <2>4, <2>5
  <2>7. QED
    BY <1>2, <2>2, <2>6 DEF OutboxOK
<1>3. CASE emit' = emit /\ outbox' = outbox /\ emit # "send"
  BY <1>3 DEF OutboxOK
<1>4. QED
  BY <1>1, <1>2, <1>3

LEMMA DeliveredKept ==
  ASSUME DeliveredOK, SegmentsStay, delivered' = delivered, counted' = counted,
         profiles' = profiles, current' = current, emit' = "wait" => emit = "wait"
  PROVE  DeliveredOK'
<1> SUFFICES ASSUME NEW i \in 1 .. Len(delivered)
             PROVE  LET t == delivered[i]
                    IN  /\ t.segment \in 1 .. Len(closed') /\ t.segment =< current.segment
                        /\ emit' = "wait" => t.segment # current.segment
                        /\ t.segment \in counted => t.committed
                        /\ t.committed /\ t.name # None =>
                             t.name = BestMember(closed[t.segment].voice)'
  BY DEF DeliveredOK
<1> DEFINE t == delivered[i]
<1>1. /\ t.segment \in 1 .. Len(closed) /\ t.segment =< current.segment
      /\ emit = "wait" => t.segment # current.segment
      /\ t.segment \in counted => t.committed
      /\ t.committed /\ t.name # None => t.name = BestMember(closed[t.segment].voice)
  BY DEF DeliveredOK
<1>2. t.segment \in 1 .. Len(closed') /\ closed'[t.segment] = closed[t.segment]
  BY <1>1 DEF SegmentsStay
<1>3. BestMember(closed[t.segment].voice)' = BestMember(closed[t.segment].voice)
  BY <1>2 DEF BestMember
<1>4. QED
  BY <1>1, <1>2, <1>3

-----------------------------------------------------------------------------
\* The segments and the thread.

LEMMA CloseTurnOK ==
  ASSUME IInv, CloseTurn
  PROVE  IInv'
<1>1. KindsOK /\ OrderOK /\ FuturesOK /\ CountedOK /\ SumsOK /\ OutboxOK /\ MapperOK /\ DeliveredOK
  BY DEF IInv
<1> DEFINE n == Len(closed)
<1>2. /\ n \in Nat /\ closed \in Seq(Segment) /\ futures \in Seq(States) /\ Len(futures) = n
      /\ pool \in Seq(Nat) /\ Len(pool) \in Nat
      /\ \A i \in 1 .. Len(pool) : pool[i] \in 1 .. n
  BY <1>1, LenProperties DEF KindsOK
<1>3. PICK segment \in Segment : closed' = Append(closed, segment)
  BY DEF CloseTurn
<1>4. /\ closed' \in Seq(Segment) /\ Len(closed') = n + 1
      /\ \A i \in 1 .. n : closed'[i] = closed[i]
  BY <1>2, <1>3, AppendProperties
<1>5. PICK f \in States : futures' = Append(futures, f) /\ (f = "none" <=> ~Enabled)
                          /\ f # "cancelled"
  BY DEF CloseTurn, States
<1>6. /\ futures' \in Seq(States) /\ Len(futures') = n + 1
      /\ \A i \in 1 .. n : futures'[i] = futures[i]
      /\ futures'[n + 1] = f
  BY <1>2, <1>5, AppendProperties
<1>7. pool' = pool \/ pool' = Append(pool, n + 1)
  BY <1>4 DEF CloseTurn
<1>8. UNCHANGED <<profiles, running, queueVars, emit, current, outbox,
                  mapperVars, clientVars, aborted>>
  BY DEF CloseTurn
<1> USE DEF queueVars, mapperVars, clientVars
<1>9. SegmentsStay
  BY <1>2, <1>4 DEF SegmentsStay
<1>10. KindsOK'
  <2>1. pool' \in Seq(Nat) /\ \A i \in 1 .. Len(pool') : pool'[i] \in 1 .. n + 1
    <3>1. n + 1 \in Nat /\ \A i \in 1 .. n : i \in 1 .. n + 1
      BY <1>2
    <3>2. CASE pool' = pool
      BY <1>2, <3>1, <3>2
    <3>3. CASE pool' = Append(pool, n + 1)
      <4>1. /\ pool' \in Seq(Nat) /\ Len(pool') = Len(pool) + 1
            /\ pool'[Len(pool) + 1] = n + 1
            /\ \A i \in 1 .. Len(pool) : pool'[i] = pool[i]
        BY <1>2, <3>1, <3>3, AppendProperties
      <4> HIDE DEF n
      <4>2. \A i \in 1 .. Len(pool) + 1 : i \in 1 .. Len(pool) \/ i = Len(pool) + 1
        BY <1>2
      <4>3. n + 1 \in 1 .. n + 1
        BY <1>2
      <4>4. QED
        BY <1>2, <3>1, <4>1, <4>2, <4>3
    <3>4. QED
      BY <1>7, <3>2, <3>3
  <2>2. \A i : i \in 0 .. n => i \in 0 .. n + 1
    BY <1>2
  <2>3. \A i : i \in 1 .. n => i \in 1 .. n + 1
    BY <1>2
  <2>4. QED
    BY <1>1, <1>4, <1>6, <1>8, <2>1, <2>2, <2>3 DEF KindsOK
<1>11. OrderOK'
  BY <1>1, <1>8 DEF OrderOK
<1>12. FuturesOK'
  <2>1. \A i \in 1 .. n + 1 : i \in 1 .. n \/ i = n + 1
    BY <1>2
  <2>2. Enabled' <=> Enabled
    BY <1>8 DEF Enabled
  <2>3. emit = "wait" => /\ current.segment \in 1 .. n + 1
                         /\ futures'[current.segment] = futures[current.segment]
    BY <1>1, <1>2, <1>6 DEF FuturesOK
  <2> HIDE DEF n
  <2>4. Len(futures) = n /\ Len(futures') = n + 1 /\ Len(closed') = n + 1
    BY <1>2, <1>4, <1>6
  <2>5. QED
    BY <1>1, <1>5, <1>6, <1>8, <2>1, <2>2, <2>3, <2>4 DEF FuturesOK
<1>13. CountedOK'
  <2>1. \A i \in counted : futures'[i] = futures[i]
    BY <1>1, <1>6 DEF CountedOK
  <2>2. QED
    BY <1>1, <1>8, <1>9, <2>1, CountedKept
<1>14. SumsOK'
  BY <1>1, <1>8, <1>9, SumsKept
<1>15. OutboxOK'
  BY <1>1, <1>8, <1>9, OutboxKept
<1>16. MapperOK'
  BY <1>1, <1>8, MapperKept
<1>17. DeliveredOK'
  BY <1>1, <1>8, <1>9, DeliveredKept
<1>18. QED
  BY <1>10, <1>11, <1>12, <1>13, <1>14, <1>15, <1>16, <1>17 DEF IInv

LEMMA RecogniseOK ==
  ASSUME IInv, Recognise
  PROVE  IInv'
<1>1. KindsOK /\ OrderOK /\ FuturesOK /\ CountedOK /\ SumsOK /\ OutboxOK /\ MapperOK /\ DeliveredOK
  BY DEF IInv
<1>2. PICK committed \in BOOLEAN :
        results' = Append(results, [segment |-> recognised + 1, committed |-> committed])
  BY DEF Recognise
<1>3. /\ recognised < Len(closed) /\ recognised' = recognised + 1
      /\ UNCHANGED <<profiles, segmentVars, poolVars, emit, current, outbox,
                     mapperVars, clientVars, aborted>>
  BY DEF Recognise
<1> USE DEF segmentVars, poolVars, mapperVars, clientVars
<1> DEFINE e == [segment |-> recognised + 1, committed |-> committed]
           r == recognised
           l == Len(results)
<1>4. /\ r \in Nat /\ Len(closed) \in Nat /\ r + 1 \in 0 .. Len(closed)
      /\ results \in Seq(Taken) /\ l \in Nat /\ current.segment \in Nat
  BY <1>1, <1>3, LenProperties DEF KindsOK
<1>5. e \in Taken /\ e.segment = r + 1
  BY <1>4 DEF Taken
<1> HIDE DEF e
<1>6. /\ results' \in Seq(Taken) /\ Len(results') = l + 1 /\ results'[l + 1] = e
      /\ \A k \in 1 .. l : results'[k] = results[k]
  BY <1>2, <1>4, <1>5, AppendProperties DEF e
<1>7. SegmentsStay
  BY <1>1, <1>3, SegmentsUnchanged
<1>8. KindsOK'
  BY <1>1, <1>3, <1>4, <1>6 DEF KindsOK
<1>9. OrderOK'
  <2> SUFFICES ASSUME emit' # "over" PROVE OrderOK'
    BY DEF OrderOK
  <2>1. current.segment + l = r /\ \A k \in 1 .. l : results[k].segment = current.segment + k
    BY <1>1, <1>3 DEF OrderOK
  <2> HIDE DEF l, r
  <2>2. current.segment + (l + 1) = r + 1
    BY <1>4, <2>1
  <2>3. \A k \in 1 .. l + 1 : k \in 1 .. l \/ k = l + 1
    BY <1>4
  <2>4. \A k \in 1 .. l + 1 : results'[k].segment = current.segment + k
    BY <1>5, <1>6, <2>1, <2>2, <2>3
  <2>5. current' = current /\ recognised' = r + 1 /\ Len(results') = l + 1
    BY <1>3, <1>6 DEF r
  <2>6. QED
    BY <2>2, <2>4, <2>5 DEF OrderOK
<1>10. FuturesOK'
  BY <1>1, <1>3 DEF FuturesOK, Enabled
<1>11. CountedOK'
  BY <1>1, <1>3, <1>7, CountedKept
<1>12. SumsOK'
  BY <1>1, <1>3, <1>7, SumsKept
<1>13. OutboxOK'
  BY <1>1, <1>3, <1>7, OutboxKept
<1>14. MapperOK'
  BY <1>1, <1>3, MapperKept
<1>15. DeliveredOK'
  BY <1>1, <1>3, <1>7, DeliveredKept
<1>16. QED
  BY <1>8, <1>9, <1>10, <1>11, <1>12, <1>13, <1>14, <1>15 DEF IInv

\* The state of one extraction moves on, or none does.
OneFuture(i, state) ==
  /\ i \in 1 .. Len(futures) /\ state \in States \ {"none"} /\ futures[i] # "none"
  /\ futures' = [futures EXCEPT ![i] = state]

LEMMA FutureMoved ==
  ASSUME KindsOK, NEW i, NEW state, OneFuture(i, state)
  PROVE  /\ futures' \in Seq(States) /\ Len(futures') = Len(futures)
         /\ \A j \in 1 .. Len(futures) : futures'[j] = IF j = i THEN state ELSE futures[j]
BY ExceptSeq DEF KindsOK, OneFuture

\* What a step of the thread leaves.
ThreadStep ==
  /\ UNCHANGED <<profiles, segmentVars, queueVars, emit, current, outbox,
                 mapperVars, clientVars, aborted>>
  /\ pool' \in Seq(Nat) /\ \A i \in 1 .. Len(pool') : pool'[i] \in 1 .. Len(closed)
  /\ running' = None \/ running' \in 1 .. Len(closed)
  /\ \/ futures' = futures
     \/ \E i, state : /\ OneFuture(i, state)
                      /\ futures[i] \in {"submitted", "running"}
                      /\ state \in {"running", "done"}

LEMMA ThreadStepOK ==
  ASSUME IInv, ThreadStep
  PROVE  IInv'
<1>1. KindsOK /\ OrderOK /\ FuturesOK /\ CountedOK /\ SumsOK /\ OutboxOK /\ MapperOK /\ DeliveredOK
  BY DEF IInv
<1>2. UNCHANGED <<profiles, segmentVars, queueVars, emit, current, outbox,
                  mapperVars, clientVars, aborted>>
  BY DEF ThreadStep
<1> USE DEF segmentVars, queueVars, mapperVars, clientVars
<1>3. SegmentsStay
  BY <1>1, <1>2, SegmentsUnchanged
<1>4. /\ futures' \in Seq(States) /\ Len(futures') = Len(futures)
      /\ \A j \in 1 .. Len(futures) :
           \/ futures'[j] = futures[j]
           \/ futures[j] \in {"submitted", "running"} /\ futures'[j] \in {"running", "done"}
  <2>1. CASE futures' = futures
    BY <1>1, <2>1 DEF KindsOK
  <2>2. CASE futures' # futures
    <3>1. PICK i, state : /\ OneFuture(i, state)
                          /\ futures[i] \in {"submitted", "running"}
                          /\ state \in {"running", "done"}
      BY <2>2 DEF ThreadStep
    <3>2. QED
      BY <1>1, <3>1, FutureMoved
  <2>3. QED
    BY <2>1, <2>2
<1>5. KindsOK'
  BY <1>1, <1>2, <1>4 DEF KindsOK, ThreadStep
<1>6. OrderOK'
  BY <1>1, <1>2 DEF OrderOK
<1>7. FuturesOK'
  <2>1. emit = "wait" => current.segment \in 1 .. Len(futures)
    BY <1>1 DEF FuturesOK, KindsOK
  <2>2. QED
    BY <1>1, <1>2, <1>4, <2>1 DEF FuturesOK, Enabled
<1>8. CountedOK'
  <2>1. \A i \in counted : i \in 1 .. Len(futures) /\ futures[i] = "done"
    BY <1>1 DEF CountedOK, KindsOK
  <2>2. \A i \in counted : futures'[i] = futures[i]
    BY <1>4, <2>1
  <2>3. QED
    BY <1>1, <1>2, <1>3, <2>2, CountedKept
<1>9. SumsOK'
  BY <1>1, <1>2, <1>3, SumsKept
<1>10. OutboxOK'
  BY <1>1, <1>2, <1>3, OutboxKept
<1>11. MapperOK'
  BY <1>1, <1>2, MapperKept
<1>12. DeliveredOK'
  BY <1>1, <1>2, <1>3, DeliveredKept
<1>13. QED
  BY <1>5, <1>6, <1>7, <1>8, <1>9, <1>10, <1>11, <1>12 DEF IInv

LEMMA EmbedStartsOK ==
  ASSUME IInv, EmbedStarts
  PROVE  IInv'
<1> DEFINE h == Head(pool)
<1>1. KindsOK
  BY DEF IInv
<1>2. pool \in Seq(Nat) /\ pool # << >> /\ Len(pool) \in Nat
      /\ \A i \in 1 .. Len(pool) : pool[i] \in 1 .. Len(closed)
  BY <1>1, LenProperties DEF EmbedStarts, KindsOK
<1>3. /\ pool' = Tail(pool) /\ pool' \in Seq(Nat) /\ Len(pool') = Len(pool) - 1
      /\ \A i \in 1 .. Len(pool') : pool'[i] = pool[i + 1]
  BY <1>2, HeadTailProperties DEF EmbedStarts
<1>4. h \in 1 .. Len(closed)
  <2>1. h = pool[1] /\ Len(pool) # 0
    BY <1>2, EmptySeq
  <2>2. 1 \in 1 .. Len(pool)
    BY <1>2, <2>1
  <2>3. QED
    BY <1>2, <2>1, <2>2
<1>5. \A i \in 1 .. Len(pool') : pool'[i] \in 1 .. Len(closed)
  <2>1. \A i \in 1 .. Len(pool') : i + 1 \in 1 .. Len(pool)
    BY <1>2, <1>3
  <2>2. QED
    BY <1>2, <1>3, <2>1
<1> HIDE DEF h
<1>6. \/ running' = None /\ futures' = futures
      \/ running' = h /\ futures[h] = "submitted"
         /\ futures' = [futures EXCEPT ![h] = "running"]
  BY DEF EmbedStarts, h
<1>7. futures[h] = "submitted" /\ futures' = [futures EXCEPT ![h] = "running"] =>
        OneFuture(h, "running")
  BY <1>1, <1>4 DEF OneFuture, KindsOK, States
<1>8. UNCHANGED <<profiles, segmentVars, queueVars, emit, current, outbox,
                  mapperVars, clientVars, aborted>>
  BY DEF EmbedStarts
<1>9. ThreadStep
  BY <1>3, <1>4, <1>5, <1>6, <1>7, <1>8 DEF ThreadStep
<1>10. QED
  BY <1>9, ThreadStepOK

LEMMA EmbedEndsOK ==
  ASSUME IInv, EmbedEnds
  PROVE  IInv'
<1>1. KindsOK
  BY DEF IInv
<1>2. running \in 1 .. Len(futures) /\ futures \in Seq(States)
  BY <1>1 DEF EmbedEnds, KindsOK
<1>3. \/ futures[running] = "running" /\ futures' = [futures EXCEPT ![running] = "done"]
      \/ futures' = [futures EXCEPT ![running] = futures[running]]
  BY DEF EmbedEnds
<1>4. [futures EXCEPT ![running] = futures[running]] = futures
  BY <1>2
<1>5. futures[running] = "running" /\ futures' = [futures EXCEPT ![running] = "done"] =>
        OneFuture(running, "done")
  BY <1>2 DEF OneFuture, States
<1>6. /\ UNCHANGED <<profiles, segmentVars, pool, queueVars, emit, current, outbox,
                     mapperVars, clientVars, aborted>>
      /\ running' = None
  BY DEF EmbedEnds
<1>7. ThreadStep
  BY <1>1, <1>3, <1>4, <1>5, <1>6 DEF ThreadStep, KindsOK
<1>8. QED
  BY <1>7, ThreadStepOK

-----------------------------------------------------------------------------
\* The mapper.

\* Whatever the cosines are, the assignment is one-to-one.
LEMMA AssignOneToOne ==
  ASSUME NEW total, NEW spoken, NEW map \in Assign(total, spoken)
  PROVE  OneToOne(map)
<1>1. PICK slots, gain : map \in BestMatchings(profiles, slots, gain)
  BY DEF Assign
<1>2. PICK used \in SUBSET slots : map \in Matchings(profiles, used, gain)
  BY <1>1 DEF BestMatchings
<1>3. map \in [used -> profiles] /\ \A s, t \in used : map[s] = map[t] => s = t
  BY <1>2 DEF Matchings, Injection, IsInjective
<1>4. QED
  BY <1>3 DEF OneToOne

\* What the mapper has decided is what the next messages say.
LEMMA ObservedOK ==
  ASSUME KindsOK, MapperOK, OutboxOK, FuturesOK, emit = "wait", emit' = "send",
         NEW speaker \in Slots \cup {None}, NEW found \in SUBSET Slots, NEW map,
         OneToOne(map), RightName(Snapshot(found, map), speaker, current.segment),
         Observed(speaker, found, map),
         UNCHANGED <<profiles, closed, current, view>>
  PROVE  MapperOK' /\ OutboxOK'
<1> DEFINE new == Snapshot(found, map)
<1>1. discovered' = found /\ mapping' = map /\ sent' = new
  BY DEF Observed, Changed
<1>2. MapperOK'
  <2>1. Enabled'
    BY DEF FuturesOK, Enabled
  <2>2. Snapshot(discovered', mapping') = new /\ OneToOne(mapping)'
    BY <1>1 DEF OneToOne
  <2>3. Snapshot(discovered, mapping)' = Snapshot(discovered', mapping')
    BY DEF Snapshot
  <2>4. QED
    BY <1>1, <2>1, <2>2, <2>3 DEF MapperOK
<1>3. \/ outbox' = <<Message(current, speaker)>> /\ sent' = sent
      \/ outbox' = <<Update(new), Message(current, speaker)>>
  BY <1>1 DEF Observed, Ordered
<1>4. view = sent /\ current.segment \in 1 .. Len(closed)
  BY DEF OutboxOK, FuturesOK
<1>5. RightName(sent, speaker, current.segment)'
  <2>1. BestMember(closed[current.segment].voice)' = BestMember(closed[current.segment].voice)
    BY DEF BestMember
  <2> HIDE DEF new
  <2>2. RightName(new, speaker, current.segment)
    BY DEF new
  <2>3. QED
    BY <1>1, <2>1, <2>2 DEF RightName
<1> HIDE DEF new
<1>6. Message(current, speaker)' = Message(current, speaker) /\ Update(sent)' = Update(new)
  BY <1>1 DEF Message, Update
<1>7. OutboxOK'
  BY <1>1, <1>3, <1>4, <1>5, <1>6 DEF OutboxOK
<1>8. QED
  BY <1>2, <1>7

\* observe without a vector.
LEMMA ObserveNothingOK ==
  ASSUME IInv, emit = "wait", emit' = "send", NEW slot \in Slots, ObserveNothing(slot),
         UNCHANGED <<profiles, closed, current, view>>
  PROVE  MapperOK' /\ OutboxOK'
<1>1. KindsOK /\ MapperOK /\ OutboxOK /\ FuturesOK
  BY DEF IInv
<1> DEFINE found == discovered \cup {slot}
<1>2. found \in SUBSET Slots /\ None \notin found
  BY <1>1, AttributionAssumption DEF MapperOK
<1>3. RightName(Snapshot(found, mapping), None, current.segment)
  BY <1>2 DEF RightName, Snapshot
<1>4. Observed(None, found, mapping) /\ OneToOne(mapping)
  BY <1>1 DEF ObserveNothing, MapperOK
<1> HIDE DEF found
<1>5. QED
  BY <1>1, <1>2, <1>3, <1>4, ObservedOK

\* observe with one.
LEMMA ObserveOK ==
  ASSUME IInv, emit = "wait", emit' = "send", NEW slot \in Slots,
         NEW voice, NEW length, voice = closed[current.segment].voice,
         Observe(slot, voice, length),
         UNCHANGED <<profiles, closed, current, view>>
  PROVE  MapperOK' /\ OutboxOK'
<1>1. KindsOK /\ MapperOK /\ OutboxOK /\ FuturesOK
  BY DEF IInv
<1> DEFINE found == discovered \cup {slot}
<1>2. found \in SUBSET Slots /\ None \notin found
  BY <1>1, AttributionAssumption DEF MapperOK
<1>3. PICK map \in Assign(sums', seconds') :
        Observed(IF Withheld(slot, voice, map) THEN None ELSE slot, found, map)
  BY DEF Observe
<1>4. OneToOne(map)
  BY <1>3, AssignOneToOne
<1> DEFINE speaker == IF Withheld(slot, voice, map) THEN None ELSE slot
<1>5. RightName(Snapshot(found, map), speaker, current.segment)
  <2>1. CASE Withheld(slot, voice, map)
    BY <1>2, <2>1 DEF RightName, Snapshot
  <2>2. CASE ~Withheld(slot, voice, map)
    BY <2>2 DEF RightName, Snapshot, Withheld
  <2>3. QED
    BY <2>1, <2>2
<1>6. speaker \in Slots \cup {None} /\ Observed(speaker, found, map)
  BY <1>3
<1> HIDE DEF found, speaker
<1>7. QED
  BY <1>1, <1>2, <1>4, <1>5, <1>6, ObservedOK

\* The evidence grows by segment x.
MoreEvidence(x) ==
  /\ closed' = closed /\ counted' = counted \cup {x}
  /\ x \in 1 .. Len(closed) /\ x \notin counted
  /\ closed[x].voice # << >> /\ closed[x].voice \in Voices
  /\ DOMAIN sums' = DOMAIN seconds'
  /\ DOMAIN seconds' = DOMAIN seconds \cup {closed[x].slot}
  /\ \A s \in DOMAIN seconds : s # closed[x].slot =>
       seconds'[s] = seconds[s] /\ sums'[s] = sums[s]
  /\ LET slot == closed[x].slot
         known == slot \in DOMAIN seconds
     IN  /\ seconds'[slot] = (IF known THEN seconds[slot] ELSE 0) + closed[x].seconds
         /\ \A m \in Members : sums'[slot][m] =
              (IF known THEN sums[slot][m] ELSE 0) + Part(x, m)

LEMMA HeardMore ==
  ASSUME KindsOK, CountedOK, SumsOK, NEW x, MoreEvidence(x)
  PROVE  SumsOK'
<1> DEFINE slot == closed[x].slot
<1>1. \A i \in counted \cup {x} :
        /\ closed[i] \in Segment /\ closed[i].seconds \in Nat
        /\ closed[i].voice \in [Members -> 0 .. 10]
  <2> SUFFICES ASSUME NEW i \in counted \cup {x}
               PROVE  /\ closed[i] \in Segment /\ closed[i].seconds \in Nat
                      /\ closed[i].voice \in [Members -> 0 .. 10]
    OBVIOUS
  <2>1. i \in 1 .. Len(closed) /\ closed[i].voice # << >>
    BY DEF MoreEvidence, CountedOK
  <2>2. closed[i] \in Segment
    BY <2>1, ElementOfSeq DEF KindsOK
  <2>3. closed[i].voice \in Voices
    BY <2>1, <2>2 DEF Segment
  <2>4. QED
    BY <2>2, <2>3, AttributionAssumption DEF Segment
<1>2. \A s : /\ Heard(s)' = IF s = slot THEN Heard(s) \cup {x} ELSE Heard(s)
             /\ x \notin Heard(s) /\ IsFiniteSet(Heard(s))
  <2> SUFFICES ASSUME NEW s
               PROVE  /\ Heard(s)' = IF s = slot THEN Heard(s) \cup {x} ELSE Heard(s)
                      /\ x \notin Heard(s) /\ IsFiniteSet(Heard(s))
    OBVIOUS
  <2>1. Heard(s)' = IF s = slot THEN Heard(s) \cup {x} ELSE Heard(s)
    BY DEF MoreEvidence, Heard
  <2>2. x \notin Heard(s)
    BY DEF MoreEvidence, Heard
  <2>3. IsFiniteSet(1 .. Len(closed))
    <3>1. 1 \in Int /\ Len(closed) \in Int
      BY LenProperties DEF KindsOK
    <3>2. QED
      BY <3>1, FS_Interval
  <2>4. Heard(s) \subseteq 1 .. Len(closed)
    BY DEF Heard, CountedOK
  <2>5. QED
    BY <2>1, <2>2, <2>3, <2>4, FS_Subset
<1>0. PICK y : y = x
  OBVIOUS
<1>14. \A s : /\ Heard(s)' = IF s = slot THEN Heard(s) \cup {y} ELSE Heard(s)
              /\ y \notin Heard(s) /\ IsFiniteSet(Heard(s))
  BY <1>0, <1>2
<1>12. \A i \in counted \cup {x} : \A m \in Members : Part(i, m) \in Int
  <2> SUFFICES ASSUME NEW i \in counted \cup {x}, NEW m \in Members PROVE Part(i, m) \in Int
    OBVIOUS
  <2> DEFINE a == closed[i].seconds
             b == closed[i].voice[m]
  <2>1. a \in Nat
    BY <1>1
  <2>2. b \in Nat
    <3>1. closed[i].voice \in [Members -> 0 .. 10]
      BY <1>1
    <3> DEFINE v == closed[i].voice
    <3> HIDE DEF v
    <3>2. v \in [Members -> 0 .. 10] => v[m] \in 0 .. 10
      OBVIOUS
    <3>3. v[m] \in 0 .. 10
      BY <3>1, <3>2 DEF v
    <3>4. v[m] \in Nat
      BY <3>3
    <3>5. QED
      BY <3>4 DEF v
  <2> HIDE DEF a, b
  <2>3. a * b \in Int
    BY <2>1, <2>2
  <2>4. QED
    BY <2>3 DEF a, b, Part
<1>13. \A s : Heard(s) \subseteq counted /\ Heard(s)' \subseteq counted \cup {x}
  BY DEF MoreEvidence, Heard
<1>3. \A s : \A i \in Heard(s) :
        /\ Lengths(s)[i] = closed[i].seconds /\ Lengths(s)[i] \in Int
        /\ \A m \in Members : Parts(s, m)[i] = Part(i, m) /\ Parts(s, m)[i] \in Int
  <2> SUFFICES ASSUME NEW s, NEW i \in Heard(s)
               PROVE  /\ Lengths(s)[i] = closed[i].seconds /\ Lengths(s)[i] \in Int
                      /\ \A m \in Members : Parts(s, m)[i] = Part(i, m) /\ Parts(s, m)[i] \in Int
    OBVIOUS
  <2>1. i \in counted \cup {x}
    BY <1>13
  <2>2. \A m \in Members : Parts(s, m)[i] = Part(i, m)
    BY DEF Parts, Part
  <2>3. Lengths(s)[i] = closed[i].seconds
    BY DEF Lengths
  <2>4. QED
    BY <1>1, <1>12, <2>1, <2>2, <2>3
<1>4. \A s : \A i \in Heard(s)' :
        /\ Lengths(s)'[i] = closed[i].seconds /\ Lengths(s)'[i] \in Int
        /\ \A m \in Members : Parts(s, m)'[i] = Part(i, m) /\ Parts(s, m)'[i] \in Int
  <2> SUFFICES ASSUME NEW s, NEW i \in Heard(s)'
               PROVE  /\ Lengths(s)'[i] = closed[i].seconds /\ Lengths(s)'[i] \in Int
                      /\ \A m \in Members :
                           Parts(s, m)'[i] = Part(i, m) /\ Parts(s, m)'[i] \in Int
    OBVIOUS
  <2>1. i \in counted \cup {x}
    BY <1>13
  <2>2. \A m \in Members : Parts(s, m)'[i] = Part(i, m)
    BY DEF MoreEvidence, Parts, Part
  <2>3. Lengths(s)'[i] = closed[i].seconds
    BY DEF MoreEvidence, Lengths
  <2>4. QED
    BY <1>1, <1>12, <2>1, <2>2, <2>3
\* The sum of a function that agrees on the evidence there was.
<1>5. ASSUME NEW s, NEW f, NEW g,
             \A i \in Heard(s) : f[i] \in Int /\ g[i] = f[i],
             s = slot => g[y] \in Int
      PROVE  SumFunctionOnSet(g, Heard(s)') =
               IF s = slot THEN SumFunctionOnSet(f, Heard(s)) + g[y]
               ELSE SumFunctionOnSet(f, Heard(s))
  <2>1. SumFunctionOnSet(g, Heard(s)) = SumFunctionOnSet(f, Heard(s))
    BY <1>14, <1>5, SumSame
  <2>2. s = slot => SumFunctionOnSet(g, Heard(s) \cup {y}) = SumFunctionOnSet(g, Heard(s)) + g[y]
    BY <1>14, <1>5, SumAdd
  <2>3. QED
    BY <1>14, <2>1, <2>2
<1>6. slot \notin DOMAIN seconds => Heard(slot) = {}
  BY DEF Heard, SumsOK
<1>7. x \in Heard(slot)'
  BY <1>2 DEF MoreEvidence
<1>8. /\ SumFunctionOnSet(Lengths(slot), Heard(slot))
         = IF slot \in DOMAIN seconds THEN seconds[slot] ELSE 0
      /\ \A m \in Members :
           SumFunctionOnSet(Parts(slot, m), Heard(slot))
           = IF slot \in DOMAIN seconds THEN sums[slot][m] ELSE 0
  BY <1>6, SumEmpty DEF SumsOK
<1>9. ASSUME NEW s \in DOMAIN seconds'
      PROVE  /\ seconds'[s] = SumFunctionOnSet(Lengths(s)', Heard(s)')
             /\ \A m \in Members : sums'[s][m] = SumFunctionOnSet(Parts(s, m)', Heard(s)')
  <2>1. \A i \in Heard(s) : i \in Heard(s)'
    BY <1>2
  <2>2. SumFunctionOnSet(Lengths(s)', Heard(s)') =
          IF s = slot THEN SumFunctionOnSet(Lengths(s), Heard(s)) + Lengths(s)'[y]
          ELSE SumFunctionOnSet(Lengths(s), Heard(s))
    <3>1. \A i \in Heard(s) : Lengths(s)[i] \in Int /\ Lengths(s)'[i] = Lengths(s)[i]
      BY <1>3, <1>4, <2>1
    <3>2. s = slot => Lengths(s)'[y] \in Int
      BY <1>0, <1>4, <1>7 DEF MoreEvidence
    <3> DEFINE f == Lengths(s)
               g == Lengths(s)'
    <3>3. (\A i \in Heard(s) : f[i] \in Int /\ g[i] = f[i]) /\ (s = slot => g[y] \in Int)
      BY <3>1, <3>2
    <3> HIDE DEF f, g
    <3>4. SumFunctionOnSet(g, Heard(s)') =
            IF s = slot THEN SumFunctionOnSet(f, Heard(s)) + g[y]
            ELSE SumFunctionOnSet(f, Heard(s))
      BY <1>5, <3>3
    <3>5. QED
      BY <3>4 DEF f, g
  <2>3. ASSUME NEW m \in Members
        PROVE  SumFunctionOnSet(Parts(s, m)', Heard(s)') =
                 IF s = slot THEN SumFunctionOnSet(Parts(s, m), Heard(s)) + Parts(s, m)'[y]
                 ELSE SumFunctionOnSet(Parts(s, m), Heard(s))
    <3>1. \A i \in Heard(s) : Parts(s, m)[i] \in Int /\ Parts(s, m)'[i] = Parts(s, m)[i]
      BY <1>3, <1>4, <2>1
    <3>2. s = slot => Parts(s, m)'[y] \in Int
      BY <1>0, <1>4, <1>7 DEF MoreEvidence
    <3> DEFINE f == Parts(s, m)
               g == Parts(s, m)'
    <3>3. (\A i \in Heard(s) : f[i] \in Int /\ g[i] = f[i]) /\ (s = slot => g[y] \in Int)
      BY <3>1, <3>2
    <3> HIDE DEF f, g
    <3>4. SumFunctionOnSet(g, Heard(s)') =
            IF s = slot THEN SumFunctionOnSet(f, Heard(s)) + g[y]
            ELSE SumFunctionOnSet(f, Heard(s))
      BY <1>5, <3>3
    <3>5. QED
      BY <3>4 DEF f, g
  <2>4. CASE s = slot
    <3>1. Lengths(s)'[y] = closed[x].seconds
          /\ \A m \in Members : Parts(s, m)'[y] = Part(x, m)
      BY <1>0, <1>4, <1>7, <2>4 DEF MoreEvidence
    <3>2. QED
      BY <1>8, <2>2, <2>3, <2>4, <3>1 DEF MoreEvidence
  <2>5. CASE s # slot
    <3>1. s \in DOMAIN seconds
      BY <2>5 DEF MoreEvidence
    <3>2. QED
      BY <2>2, <2>3, <2>5, <3>1 DEF MoreEvidence, SumsOK
  <2>6. QED
    BY <2>4, <2>5
<1>10. \A i \in counted' : closed'[i].slot \in DOMAIN seconds'
  BY DEF MoreEvidence, SumsOK
<1>11. QED
  BY <1>9, <1>10 DEF MoreEvidence, SumsOK

-----------------------------------------------------------------------------
\* The emit task.

\* The next segment, and its result, are the ones the emit task takes.
LEMMA TakeResultOK ==
  ASSUME IInv, TakeResult
  PROVE  IInv'
<1>1. KindsOK /\ OrderOK /\ FuturesOK /\ CountedOK /\ SumsOK /\ OutboxOK /\ MapperOK /\ DeliveredOK
  BY DEF IInv
<1>2. /\ emit = "get" /\ results # << >> /\ results' = Tail(results) /\ current' = Head(results)
      /\ UNCHANGED <<profiles, closed, pool, running, recognised, mapperVars,
                     clientVars, aborted>>
  BY DEF TakeResult
<1> USE DEF mapperVars, clientVars
<1> DEFINE c == current.segment
           d == current'.segment
           l == Len(results)
           n == Len(closed)
<1>3. /\ results \in Seq(Taken) /\ l \in Nat /\ n \in Nat /\ c \in Nat
      /\ futures \in Seq(States) /\ Len(futures) = n /\ recognised \in 0 .. n
  BY <1>1, LenProperties DEF KindsOK, Taken
<1>4. /\ current' \in Taken /\ results' \in Seq(Taken) /\ Len(results') = l - 1
      /\ \A k \in 1 .. l - 1 : results'[k] = results[k + 1]
  BY <1>2, <1>3, HeadTailProperties
<1>5. l # 0 /\ current' = results[1]
  BY <1>2, <1>3, EmptySeq
<1>6. c + l = recognised /\ \A k \in 1 .. l : results[k].segment = c + k
  BY <1>1, <1>2 DEF OrderOK
<1>7. d = c + 1
  <2>1. 1 \in 1 .. l
    BY <1>3, <1>5
  <2>2. QED
    BY <1>5, <1>6, <2>1
<1> HIDE DEF c, d, l, n
<1>8. d \in 1 .. n /\ d > c
  BY <1>3, <1>5, <1>6, <1>7
<1>9. \/ /\ current'.committed /\ Enabled /\ emit' = "wait"
         /\ outbox' = outbox /\ futures' = futures
      \/ /\ ~(current'.committed /\ Enabled) /\ emit' = "send"
         /\ outbox' = <<Message(current', closed[d].slot)>>
         /\ \/ OneFuture(d, "cancelled") \/ futures' = futures
  <2>1. CASE current'.committed /\ Enabled
    <3>1. emit' = "wait" /\ UNCHANGED <<outbox, futures>>
      BY <2>1 DEF TakeResult, IsEvidence
    <3>2. QED
      BY <2>1, <3>1
  <2>2. CASE ~(current'.committed /\ Enabled)
    <3>1. futures' = [futures EXCEPT ![d] =
                        IF futures[d] \in {"submitted", "running"} THEN "cancelled" ELSE futures[d]]
      BY <2>2 DEF TakeResult, IsEvidence, d
    <3>2. OneFuture(d, "cancelled") \/ futures' = futures
      <4>1. futures[d] \in {"submitted", "running"} => OneFuture(d, "cancelled")
        BY <1>3, <1>8, <3>1 DEF OneFuture, States
      <4>2. futures[d] \notin {"submitted", "running"} =>
              futures' = [futures EXCEPT ![d] = futures[d]]
        BY <3>1
      <4>3. [futures EXCEPT ![d] = futures[d]] = futures
        BY <1>3
      <4>4. QED
        BY <4>1, <4>2, <4>3
    <3>3. emit' = "send" /\ outbox' = <<Message(current', closed[d].slot)>>
      BY <2>2 DEF TakeResult, IsEvidence, d
    <3>4. QED
      BY <2>2, <3>2, <3>3
  <2>3. QED
    BY <2>1, <2>2
<1>10. /\ futures' \in Seq(States) /\ Len(futures') = n
       /\ \A i \in 1 .. n : i # d => futures'[i] = futures[i]
       /\ \A i \in 1 .. n : futures'[i] = "none" <=> futures[i] = "none"
  <2>1. CASE futures' = futures
    BY <1>3, <2>1
  <2>2. CASE OneFuture(d, "cancelled")
    BY <1>1, <1>3, <2>2, FutureMoved DEF OneFuture
  <2>3. QED
    BY <1>9, <2>1, <2>2
<1>11. \A i \in counted : i \in 1 .. n /\ i =< c /\ i # d /\ futures'[i] = futures[i]
  <2> SUFFICES ASSUME NEW i \in counted
               PROVE  i \in 1 .. n /\ i =< c /\ i # d /\ futures'[i] = futures[i]
    OBVIOUS
  <2>1. i \in 1 .. n /\ i =< c
    BY <1>1 DEF CountedOK, n, c
  <2>2. i # d
    BY <1>3, <1>8, <2>1
  <2>3. QED
    BY <1>10, <2>1, <2>2
<1>12. SegmentsStay
  BY <1>1, <1>2, SegmentsUnchanged
<1>13. KindsOK'
  <2>1. d \in 0 .. n
    BY <1>3, <1>8
  <2>2. Len(closed') = n
    BY <1>2 DEF n
  <2>3. QED
    BY <1>1, <1>2, <1>4, <1>9, <1>10, <2>1, <2>2 DEF KindsOK, d, n
<1>14. OrderOK'
  <2>1. d + (l - 1) = recognised
    BY <1>3, <1>6, <1>7
  <2>2. \A k \in 1 .. l - 1 : k + 1 \in 1 .. l /\ c + (k + 1) = d + k
    BY <1>3, <1>7
  <2>3. \A k \in 1 .. l - 1 : results'[k].segment = d + k
    BY <1>4, <1>6, <2>2
  <2>4. QED
    BY <1>2, <1>4, <2>1, <2>3 DEF OrderOK, d
<1>15. FuturesOK'
  <2>1. \A i \in 1 .. n : i > c => futures[i] # "cancelled"
    BY <1>1, <1>2, <1>3 DEF FuturesOK, c
  <2>2. \A i \in 1 .. n : i > d => i > c /\ i # d
    BY <1>3, <1>8
  <2>3. \A i \in 1 .. n : i > d => futures'[i] # "cancelled"
    BY <1>10, <2>1, <2>2
  <2>4. \A i \in 1 .. n : futures'[i] = "none" <=> ~Enabled
    BY <1>1, <1>3, <1>10 DEF FuturesOK
  <2>5. futures[d] # "cancelled"
    BY <1>8, <2>1
  <2>6. emit' = "wait" => current'.committed /\ Enabled /\ futures' = futures
    BY <1>9
  <2>7. Len(futures') = n /\ Len(closed') = n /\ (Enabled' <=> Enabled)
    BY <1>2, <1>10 DEF n, Enabled
  <2>8. QED
    BY <1>8, <2>3, <2>4, <2>5, <2>6, <2>7 DEF FuturesOK, d
<1>16. CountedOK'
  <2>1. d \notin counted
    BY <1>11
  <2>2. \A i \in counted : i =< d
    <3> SUFFICES ASSUME NEW i \in counted PROVE i =< d
      OBVIOUS
    <3>1. i \in 1 .. n /\ i =< c
      BY <1>11
    <3>2. QED
      BY <1>3, <1>8, <3>1
  <2>3. \A i \in counted : i \in 1 .. n /\ futures'[i] = "done" /\ closed[i].voice # << >>
    BY <1>1, <1>11 DEF CountedOK
  <2>4. counted' = counted /\ closed' = closed
    BY <1>2
  <2>5. QED
    BY <1>1, <2>1, <2>2, <2>3, <2>4 DEF CountedOK, d, n
<1>17. SumsOK'
  BY <1>1, <1>2, <1>12, SumsKept
<1>18. MapperOK'
  BY <1>1, <1>2, MapperKept
<1>19. OutboxOK'
  <2>1. outbox = << >> /\ view = sent
    BY <1>1, <1>2 DEF OutboxOK
  <2>2. CASE emit' = "wait"
    BY <1>2, <1>9, <2>1, <2>2 DEF OutboxOK
  <2>3. CASE emit' = "send"
    <3>1. PICK slot \in Slots : slot = closed[d].slot
      <4>1. closed[d] \in Segment
        BY <1>1, <1>8, ElementOfSeq DEF KindsOK, n
      <4>2. QED
        BY <4>1 DEF Segment
    <3>2. outbox' = <<Message(current', slot)>> /\ view' = sent'
      BY <1>2, <1>9, <2>1, <2>3, <3>1
    <3>3. Message(current, slot)' = Message(current', slot)
      BY DEF Message
    <3>4. current'.committed => sent' = Snapshot({}, mapping)
      BY <1>1, <1>2, <1>9, <2>3 DEF MapperOK
    <3>5. DOMAIN Snapshot({}, mapping) = {}
      BY DEF Snapshot
    <3>6. current'.committed => RightName(sent, slot, current.segment)'
      BY <3>4, <3>5 DEF RightName
    <3>7. current'.segment \in 1 .. Len(closed')
      BY <1>2, <1>8 DEF d, n
    <3>9. /\ outbox' = <<Message(current, slot)'>> /\ view' = sent'
          /\ current'.committed => RightName(sent, slot, current.segment)'
      BY <3>2, <3>3, <3>6
    <3>10. QED
      BY <2>3, <3>1, <3>7, <3>9 DEF OutboxOK
  <2>4. QED
    BY <1>9, <2>2, <2>3
<1>20. DeliveredOK'
  <2> SUFFICES ASSUME NEW i \in 1 .. Len(delivered)
               PROVE  LET t == delivered[i]
                      IN  /\ t.segment \in 1 .. Len(closed') /\ t.segment =< d
                          /\ emit' = "wait" => t.segment # d
                          /\ t.segment \in counted => t.committed
                          /\ t.committed /\ t.name # None =>
                               t.name = BestMember(closed[t.segment].voice)'
    BY <1>2 DEF DeliveredOK, d
  <2> DEFINE t == delivered[i]
             k == t.segment
  <2>1. /\ k \in 1 .. n /\ k =< c
        /\ k \in counted => t.committed
        /\ t.committed /\ t.name # None => t.name = BestMember(closed[k].voice)
    BY <1>1 DEF DeliveredOK, n, c
  <2>2. BestMember(closed[k].voice)' = BestMember(closed[k].voice)
    BY <1>2 DEF BestMember
  <2> HIDE DEF k
  <2>3. k =< d /\ k # d
    BY <1>3, <1>8, <2>1
  <2>4. k \in 1 .. Len(closed')
    BY <1>2, <2>1 DEF n
  <2>5. QED
    BY <2>1, <2>2, <2>3, <2>4 DEF k
<1>21. QED
  BY <1>13, <1>14, <1>15, <1>16, <1>17, <1>18, <1>19, <1>20 DEF IInv

\* The wait is over: what every end of it leaves.
LEMMA WaitOver ==
  ASSUME IInv, emit = "wait", emit' = "send",
         UNCHANGED <<profiles, segmentVars, pool, running, queueVars, current,
                     clientVars, aborted>>,
         futures' = futures \/ OneFuture(current.segment, "cancelled")
  PROVE  /\ KindsOK' /\ OrderOK' /\ FuturesOK' /\ SegmentsStay
         /\ counted' = counted => CountedOK' /\ DeliveredOK'
<1>1. KindsOK /\ OrderOK /\ FuturesOK /\ CountedOK /\ DeliveredOK
  BY DEF IInv
<1> USE DEF segmentVars, queueVars, clientVars
<1> DEFINE c == current.segment
           n == Len(closed)
<1>2. c \in 1 .. n /\ n \in Nat /\ Len(futures) = n /\ futures \in Seq(States)
  BY <1>1, LenProperties DEF FuturesOK, KindsOK
<1> HIDE DEF c, n
<1>3. /\ futures' \in Seq(States) /\ Len(futures') = n
      /\ \A i \in 1 .. n : i # c => futures'[i] = futures[i]
      /\ \A i \in 1 .. n : futures'[i] = "none" <=> futures[i] = "none"
  <2>1. CASE futures' = futures
    BY <1>2, <2>1
  <2>2. CASE OneFuture(c, "cancelled")
    BY <1>1, <1>2, <2>2, FutureMoved DEF OneFuture
  <2>3. QED
    BY <2>1, <2>2 DEF c
<1>4. KindsOK'
  BY <1>1, <1>3 DEF KindsOK, n
<1>5. OrderOK'
  BY <1>1 DEF OrderOK
<1>6. FuturesOK'
  <2>1. \A i \in 1 .. n : i > c => futures[i] # "cancelled" /\ i # c
    BY <1>1, <1>2 DEF FuturesOK, c
  <2>2. \A i \in 1 .. n : futures'[i] = "none" <=> ~Enabled
    BY <1>1, <1>2, <1>3 DEF FuturesOK
  <2>3. Enabled' <=> Enabled
    BY DEF Enabled
  <2>4. QED
    BY <1>3, <2>1, <2>2, <2>3 DEF FuturesOK, c
<1>7. SegmentsStay
  BY <1>1, SegmentsUnchanged
<1>8. ASSUME counted' = counted PROVE CountedOK'
  <2>1. \A i \in counted : i \in 1 .. n /\ i # c
    BY <1>1 DEF CountedOK, c, n
  <2>2. \A i \in counted : futures'[i] = futures[i]
    BY <1>3, <2>1
  <2>3. QED
    BY <1>1, <1>7, <1>8, <2>2, CountedKept
<1>9. ASSUME counted' = counted PROVE DeliveredOK'
  BY <1>1, <1>7, <1>9, DeliveredKept
<1>10. QED
  BY <1>4, <1>5, <1>6, <1>7, <1>8, <1>9

LEMMA VectorTimeoutOK ==
  ASSUME IInv, VectorTimeout
  PROVE  IInv'
<1>1. KindsOK /\ OrderOK /\ FuturesOK /\ CountedOK /\ SumsOK /\ OutboxOK /\ MapperOK /\ DeliveredOK
  BY DEF IInv
<1>2. /\ emit = "wait" /\ emit' = "send"
      /\ UNCHANGED <<profiles, segmentVars, pool, running, queueVars, current,
                     clientVars, aborted>>
      /\ Late(futures[current.segment])
      /\ futures' = [futures EXCEPT ![current.segment] = "cancelled"]
  BY DEF VectorTimeout
<1>3. PICK slot : slot = closed[current.segment].slot /\ ObserveNothing(slot)
  BY DEF VectorTimeout
<1>4. current.segment \in 1 .. Len(closed) /\ Len(futures) = Len(closed)
  BY <1>1, <1>2 DEF FuturesOK, KindsOK
<1>5. OneFuture(current.segment, "cancelled")
  BY <1>2, <1>4 DEF OneFuture, States, Late
<1>6. slot \in Slots
  <2>1. closed[current.segment] \in Segment
    BY <1>1, <1>4, ElementOfSeq DEF KindsOK
  <2>2. QED
    BY <1>3, <2>1 DEF Segment
<1>7. sums' = sums /\ seconds' = seconds /\ counted' = counted
  BY <1>3 DEF ObserveNothing
<1>8. /\ KindsOK' /\ OrderOK' /\ FuturesOK' /\ SegmentsStay
      /\ CountedOK' /\ DeliveredOK'
  BY <1>2, <1>5, <1>7, WaitOver
<1>9. SumsOK'
  BY <1>1, <1>7, <1>8, SumsKept
<1>10. MapperOK' /\ OutboxOK'
  BY <1>2, <1>3, <1>6, ObserveNothingOK DEF segmentVars, clientVars
<1>11. QED
  BY <1>8, <1>9, <1>10 DEF IInv

LEMMA VectorReadyOK ==
  ASSUME IInv, VectorReady
  PROVE  IInv'
<1>1. KindsOK /\ OrderOK /\ FuturesOK /\ CountedOK /\ SumsOK /\ OutboxOK /\ MapperOK /\ DeliveredOK
  BY DEF IInv
<1> DEFINE c == current.segment
<1>2. /\ emit = "wait" /\ emit' = "send" /\ futures[c] = "done"
      /\ UNCHANGED <<profiles, segmentVars, poolVars, queueVars, current,
                     clientVars, aborted>>
  BY DEF VectorReady
<1> USE DEF segmentVars, poolVars, queueVars, clientVars
<1>3. PICK segment : segment = closed[c] /\
        IF segment.voice = << >> THEN ObserveNothing(segment.slot)
        ELSE Observe(segment.slot, segment.voice, segment.seconds)
  BY DEF VectorReady
<1>4. c \in 1 .. Len(closed) /\ current.committed
  BY <1>1, <1>2 DEF FuturesOK
<1>5. segment \in Segment /\ segment.slot \in Slots
  <2>1. closed[c] \in Segment
    BY <1>1, <1>4, ElementOfSeq DEF KindsOK
  <2>2. QED
    BY <1>3, <2>1 DEF Segment
<1>6. /\ KindsOK' /\ OrderOK' /\ FuturesOK' /\ SegmentsStay
      /\ counted' = counted => CountedOK' /\ DeliveredOK'
  BY <1>2, WaitOver
<1>7. CASE segment.voice = << >>
  <2>1. ObserveNothing(segment.slot)
    BY <1>3, <1>7
  <2>2. sums' = sums /\ seconds' = seconds /\ counted' = counted
    BY <2>1 DEF ObserveNothing
  <2>3. SumsOK'
    BY <1>1, <1>6, <2>2, SumsKept
  <2>4. MapperOK' /\ OutboxOK'
    BY <1>2, <1>5, <2>1, ObserveNothingOK
  <2>5. QED
    BY <1>6, <2>2, <2>3, <2>4 DEF IInv
<1>8. CASE segment.voice # << >>
  <2>1. Observe(segment.slot, segment.voice, segment.seconds)
    BY <1>3, <1>8
  <2>2. MapperOK' /\ OutboxOK'
    <3> DEFINE slot == segment.slot
               voice == segment.voice
               length == segment.seconds
    <3>1. slot \in Slots /\ voice = closed[current.segment].voice /\ Observe(slot, voice, length)
      BY <1>3, <1>5, <2>1
    <3> HIDE DEF slot, voice, length
    <3>2. QED
      BY <1>2, <3>1, ObserveOK
  <2>3. counted' = counted \cup {c} /\ c \notin counted
    BY <1>1, <1>2, <2>1 DEF Observe, CountedOK
  <2>4. segment.voice \in Voices
    BY <1>5, <1>8 DEF Segment
  <2>5. CountedOK'
    BY <1>1, <1>2, <1>3, <1>4, <1>8, <2>3 DEF CountedOK, KindsOK
  <2>6. SumsOK'
    <3> DEFINE slot == segment.slot
               known == slot \in DOMAIN seconds
               old == [m \in Members |-> IF slot \in DOMAIN sums THEN sums[slot][m] ELSE 0]
               heard == IF slot \in DOMAIN seconds THEN seconds[slot] ELSE 0
               more == [m \in Members |-> old[m] + segment.seconds * segment.voice[m]]
    <3>1. DOMAIN sums = DOMAIN seconds
      BY <1>1 DEF SumsOK
    <3>2. /\ sums' = [s \in DOMAIN sums \cup {slot} |-> IF s = slot THEN more ELSE sums[s]]
          /\ seconds' = [s \in DOMAIN sums' |->
                           IF s = slot THEN heard + segment.seconds ELSE seconds[s]]
      BY <2>1 DEF Observe
    <3>3. \A m \in Members : more[m] =
            (IF known THEN sums[slot][m] ELSE 0) + segment.seconds * segment.voice[m]
      BY <3>1
    <3>4. heard = IF known THEN seconds[slot] ELSE 0
      OBVIOUS
    <3> HIDE DEF more, heard, slot
    <3>5. /\ DOMAIN sums' = DOMAIN seconds' /\ DOMAIN seconds' = DOMAIN seconds \cup {slot}
          /\ \A s \in DOMAIN seconds : s # slot => seconds'[s] = seconds[s] /\ sums'[s] = sums[s]
          /\ seconds'[slot] = heard + segment.seconds
          /\ sums'[slot] = more
      BY <3>1, <3>2
    <3>6. slot = closed[c].slot /\ segment = closed[c]
      BY <1>3 DEF slot
    <3>7. /\ seconds'[slot] = (IF known THEN seconds[slot] ELSE 0) + segment.seconds
          /\ \A m \in Members : sums'[slot][m] =
               (IF known THEN sums[slot][m] ELSE 0) + segment.seconds * segment.voice[m]
      BY <3>3, <3>4, <3>5
    <3> HIDE DEF c
    <3>8. QED
      <4>1. MoreEvidence(c)
        BY <1>2, <1>3, <1>4, <1>8, <2>3, <2>4, <3>5, <3>6, <3>7 DEF MoreEvidence, Part
      <4>2. QED
        BY <1>1, <4>1, HeardMore
  <2>7. DeliveredOK'
    <3> SUFFICES ASSUME NEW i \in 1 .. Len(delivered)
                 PROVE  LET t == delivered[i]
                        IN  /\ t.segment \in 1 .. Len(closed) /\ t.segment =< c
                            /\ t.segment \in counted' => t.committed
                            /\ t.committed /\ t.name # None =>
                                 t.name = BestMember(closed[t.segment].voice)'
      BY <1>2 DEF DeliveredOK
    <3> DEFINE t == delivered[i]
    <3>1. /\ t.segment \in 1 .. Len(closed) /\ t.segment =< c /\ t.segment # c
          /\ t.segment \in counted => t.committed
          /\ t.committed /\ t.name # None => t.name = BestMember(closed[t.segment].voice)
      BY <1>1, <1>2 DEF DeliveredOK
    <3>2. BestMember(closed[t.segment].voice)' = BestMember(closed[t.segment].voice)
      BY <1>2 DEF BestMember
    <3>3. QED
      BY <2>3, <3>1, <3>2
  <2>8. QED
    BY <1>6, <2>2, <2>5, <2>6, <2>7 DEF IInv
<1>9. QED
  BY <1>7, <1>8

\* The client accepts every snapshot: members of the session, one slot each.
LEMMA SentAccepted ==
  ASSUME MapperOK, KindsOK
  PROVE  /\ Accepts(sent)
         /\ \A s \in DOMAIN sent : sent[s] \in Nat \cup {None}
<1>1. sent = [s \in discovered |-> IF s \in DOMAIN mapping THEN mapping[s] ELSE None]
  BY DEF MapperOK, Snapshot
<1>2. OneToOne(mapping)
  BY DEF MapperOK
<1>3. profiles \subseteq Nat
  BY AttributionAssumption DEF KindsOK
<1>4. QED
  BY <1>1, <1>2, <1>3 DEF OneToOne, Accepts

LEMMA SendOK ==
  ASSUME IInv, Send
  PROVE  IInv'
<1>1. KindsOK /\ OrderOK /\ FuturesOK /\ CountedOK /\ SumsOK /\ OutboxOK /\ MapperOK /\ DeliveredOK
  BY DEF IInv
<1>2. /\ emit = "send" /\ outbox' = Tail(outbox)
      /\ emit' = IF Len(outbox) > 1 THEN "send" ELSE "get"
      /\ UNCHANGED <<profiles, segmentVars, poolVars, queueVars, current,
                     mapperVars, aborted>>
  BY DEF Send
<1> USE DEF segmentVars, poolVars, queueVars, mapperVars
<1> DEFINE c == current.segment
<1>3. c \in 1 .. Len(closed)
  BY <1>1, <1>2 DEF OutboxOK
<1>4. PICK speaker \in Slots \cup {None} :
        /\ \/ outbox = <<Message(current, speaker)>> /\ view = sent
           \/ outbox = <<Update(sent), Message(current, speaker)>>
        /\ current.committed => RightName(sent, speaker, c)
  BY <1>1, <1>2 DEF OutboxOK
<1>5. SegmentsStay
  BY <1>1, <1>2, SegmentsUnchanged
<1>6. emit' \in {"send", "get"}
  BY <1>2
<1>7. OrderOK' /\ FuturesOK' /\ CountedOK' /\ SumsOK' /\ MapperOK'
  <2>1. OrderOK'
    BY <1>1, <1>2, <1>6 DEF OrderOK
  <2>2. FuturesOK'
    BY <1>1, <1>2, <1>6 DEF FuturesOK, Enabled
  <2>3. CountedOK'
    BY <1>1, <1>2, <1>5, <1>6, CountedKept
  <2>4. SumsOK'
    BY <1>1, <1>2, <1>5, SumsKept
  <2>5. MapperOK'
    BY <1>1, <1>2, MapperKept
  <2>6. QED
    BY <2>1, <2>2, <2>3, <2>4, <2>5
<1>8. CASE outbox = <<Update(sent), Message(current, speaker)>>
  <2>1. /\ Head(outbox).type = "update" /\ Head(outbox).snapshot = sent
        /\ outbox' = <<Message(current, speaker)>> /\ emit' = "send"
    BY <1>2, <1>8 DEF Update
  <2>2. Accepts(sent)
    BY <1>1, SentAccepted
  <2>3. view' = sent /\ delivered' = delivered
    BY <2>1, <2>2 DEF Send
  <2>4. KindsOK'
    BY <1>1, <1>2, <2>1, <2>3 DEF KindsOK
  <2>5. OutboxOK'
    <3>1. Message(current, speaker)' = Message(current, speaker)
      BY <1>2 DEF Message
    <3>2. RightName(sent, speaker, current.segment)' <=> RightName(sent, speaker, c)
      BY <1>2 DEF RightName, BestMember
    <3>3. /\ outbox' = <<Message(current, speaker)'>> /\ view' = sent'
          /\ current'.committed => RightName(sent, speaker, current.segment)'
      BY <1>2, <1>4, <2>1, <2>3, <3>1, <3>2
    <3>4. QED
      BY <1>2, <1>3, <2>1, <3>3 DEF OutboxOK
  <2>6. DeliveredOK'
    BY <1>1, <1>2, <1>5, <1>6, <2>3, DeliveredKept
  <2>7. QED
    BY <1>7, <2>4, <2>5, <2>6 DEF IInv
<1>9. CASE outbox = <<Message(current, speaker)>> /\ view = sent
  <2> DEFINE message == Message(current, speaker)
             name == Name(message)
             t == [segment |-> c, speaker |-> speaker,
                   committed |-> current.committed, name |-> name]
             l == Len(delivered)
  <2>1. /\ Head(outbox) = message /\ message.type = "message"
        /\ message.segment = c /\ message.speaker = speaker
        /\ message.committed = current.committed
        /\ outbox' = << >> /\ emit' = "get"
    BY <1>2, <1>9 DEF Message
  <2>2. delivered' = Append(delivered, t) /\ view' = view
    BY <2>1 DEF Send
  <2>3. name = IF speaker \in DOMAIN sent THEN sent[speaker] ELSE None
    BY <1>9, <2>1 DEF Name
  <2>4. name \in Nat \cup {None}
    BY <1>1, <2>3, SentAccepted
  <2>5. current.committed /\ name # None => name = BestMember(closed[c].voice)
    BY <1>4, <2>3 DEF RightName
  <2> HIDE DEF name, message
  <2>6. /\ t \in Shown /\ t.segment = c /\ t.committed = current.committed /\ t.name = name
    BY <1>1, <2>4 DEF KindsOK, Taken, Shown
  <2> HIDE DEF t
  <2>7. delivered \in Seq(Shown) /\ l \in Nat
    BY <1>1, LenProperties DEF KindsOK
  <2>8. /\ delivered' \in Seq(Shown) /\ Len(delivered') = l + 1 /\ delivered'[l + 1] = t
        /\ \A i \in 1 .. l : delivered'[i] = delivered[i]
    BY <2>2, <2>6, <2>7, AppendProperties
  <2>9. KindsOK'
    BY <1>1, <1>2, <2>1, <2>8 DEF KindsOK
  <2>10. OutboxOK'
    BY <1>2, <1>9, <2>1, <2>2 DEF OutboxOK
  <2>11. DeliveredOK'
    <3>1. \A k : BestMember(closed[k].voice)' = BestMember(closed[k].voice)
      BY <1>2 DEF BestMember
    <3> SUFFICES ASSUME NEW i \in 1 .. Len(delivered'), NEW u, u = delivered'[i]
                 PROVE  /\ u.segment \in 1 .. Len(closed) /\ u.segment =< c
                        /\ u.segment \in counted => u.committed
                        /\ u.committed /\ u.name # None =>
                             u.name = BestMember(closed[u.segment].voice)
      BY <1>2, <2>1, <3>1 DEF DeliveredOK
    <3>2. CASE i \in 1 .. l
      BY <1>1, <2>8, <3>2 DEF DeliveredOK
    <3>3. CASE i = l + 1
      <4>1. u = t
        BY <2>8, <3>3
      <4>2. c \in counted => current.committed
        BY <1>1 DEF CountedOK
      <4>3. c =< c
        BY <1>3
      <4> HIDE DEF c
      <4>4. QED
        BY <1>3, <2>5, <2>6, <4>1, <4>2, <4>3
    <3>4. i \in 1 .. l \/ i = l + 1
      BY <2>7, <2>8
    <3>5. QED
      BY <3>2, <3>3, <3>4
  <2>12. QED
    BY <1>7, <2>9, <2>10, <2>11 DEF IInv
<1>10. QED
  BY <1>4, <1>8, <1>9

LEMMA ReleaseOK ==
  ASSUME IInv, Release
  PROVE  IInv'
<1>1. KindsOK /\ OrderOK /\ FuturesOK /\ CountedOK /\ SumsOK /\ OutboxOK /\ MapperOK /\ DeliveredOK
  BY DEF IInv
<1>2. /\ emit' = "over" /\ results' = << >>
      /\ UNCHANGED <<profiles, closed, pool, running, recognised, current,
                     mapperVars, clientVars>>
  BY DEF Release
<1> USE DEF mapperVars, clientVars
<1>3. /\ futures' \in Seq(States) /\ Len(futures') = Len(closed)
      /\ \A i \in 1 .. Len(closed) :
           /\ futures'[i] = "none" <=> futures[i] = "none"
           /\ futures[i] = "done" => futures'[i] = "done"
  <2>1. futures \in Seq(States) /\ Len(futures) = Len(closed)
    BY <1>1 DEF KindsOK
  <2>2. CASE emit = "wait" /\ Late(futures[current.segment])
    <3>1. current.segment \in 1 .. Len(closed)
      BY <1>1, <2>2 DEF FuturesOK
    <3>2. OneFuture(current.segment, "cancelled")
      BY <2>1, <2>2, <3>1 DEF Release, OneFuture, Late, States
    <3>3. QED
      BY <1>1, <2>1, <2>2, <3>1, <3>2, FutureMoved DEF OneFuture, Late
  <2>3. CASE ~(emit = "wait" /\ Late(futures[current.segment]))
    <3>1. futures' = futures
      BY <2>3 DEF Release
    <3>2. QED
      BY <2>1, <3>1
  <2>4. QED
    BY <2>2, <2>3
<1>4. SegmentsStay
  BY <1>1, <1>2, SegmentsUnchanged
<1>5. KindsOK'
  <2>1. results' \in Seq(Taken)
    BY <1>2
  <2>2. QED
    BY <1>1, <1>2, <1>3, <2>1 DEF KindsOK
<1>6. OrderOK'
  BY <1>2 DEF OrderOK
<1>7. FuturesOK'
  BY <1>1, <1>2, <1>3 DEF FuturesOK, Enabled, KindsOK
<1>8. CountedOK'
  <2>1. \A i \in counted : futures'[i] = futures[i]
    BY <1>1, <1>3 DEF CountedOK
  <2>2. QED
    BY <1>1, <1>2, <1>4, <2>1, CountedKept
<1>9. SumsOK'
  BY <1>1, <1>2, <1>4, SumsKept
<1>10. OutboxOK'
  BY <1>2 DEF OutboxOK
<1>11. MapperOK'
  BY <1>1, <1>2, MapperKept
<1>12. DeliveredOK'
  BY <1>1, <1>2, <1>4, DeliveredKept
<1>13. QED
  BY <1>5, <1>6, <1>7, <1>8, <1>9, <1>10, <1>11, <1>12 DEF IInv

-----------------------------------------------------------------------------
\* The theorems.

LEMMA InitOK ==
  ASSUME Init
  PROVE  IInv
<1> USE DEF Init
<1>1. KindsOK
  <2>1. profiles \in SUBSET Members
    BY AttributionAssumption
  <2>2. /\ closed \in Seq(Segment) /\ futures \in Seq(States) /\ pool \in Seq(Nat)
        /\ results \in Seq(Taken) /\ delivered \in Seq(Shown)
    OBVIOUS
  <2>3. Len(closed) = 0 /\ Len(futures) = 0 /\ Len(pool) = 0
    OBVIOUS
  <2>4. current \in Taken /\ current.segment = 0
    BY DEF NoResult, Taken
  <2>5. QED
    BY <2>1, <2>2, <2>3, <2>4 DEF KindsOK
<1>2. OrderOK
  BY DEF OrderOK, NoResult
<1>3. FuturesOK
  BY DEF FuturesOK
<1>4. CountedOK
  BY DEF CountedOK
<1>5. SumsOK
  BY DEF SumsOK
<1>6. OutboxOK
  BY DEF OutboxOK
<1>7. MapperOK
  BY DEF MapperOK, OneToOne, Snapshot, Nothing
<1>8. DeliveredOK
  BY DEF DeliveredOK
<1>9. QED
  BY <1>1, <1>2, <1>3, <1>4, <1>5, <1>6, <1>7, <1>8 DEF IInv

LEMMA StutterOK ==
  ASSUME IInv, UNCHANGED vars
  PROVE  IInv'
<1>1. KindsOK /\ OrderOK /\ FuturesOK /\ CountedOK /\ SumsOK /\ OutboxOK /\ MapperOK /\ DeliveredOK
  BY DEF IInv
<1> USE DEF vars, segmentVars, poolVars, queueVars, mapperVars, clientVars
<1>2. SegmentsStay
  BY <1>1, SegmentsUnchanged
<1>3. KindsOK' /\ OrderOK' /\ FuturesOK'
  BY <1>1 DEF KindsOK, OrderOK, FuturesOK, Enabled
<1>4. CountedOK'
  BY <1>1, <1>2, CountedKept
<1>5. SumsOK'
  BY <1>1, <1>2, SumsKept
<1>6. OutboxOK'
  BY <1>1, <1>2, OutboxKept
<1>7. MapperOK' /\ DeliveredOK'
  BY <1>1, <1>2, MapperKept, DeliveredKept
<1>8. QED
  BY <1>3, <1>4, <1>5, <1>6, <1>7 DEF IInv

LEMMA StepOK ==
  ASSUME IInv, [Next]_vars
  PROVE  IInv'
<1>1. CASE CloseTurn
  BY <1>1, CloseTurnOK
<1>2. CASE Recognise
  BY <1>2, RecogniseOK
<1>3. CASE EmbedStarts
  BY <1>3, EmbedStartsOK
<1>4. CASE EmbedEnds
  BY <1>4, EmbedEndsOK
<1>5. CASE TakeResult
  BY <1>5, TakeResultOK
<1>6. CASE VectorReady
  BY <1>6, VectorReadyOK
<1>7. CASE VectorTimeout
  BY <1>7, VectorTimeoutOK
<1>8. CASE Send
  BY <1>8, SendOK
<1>9. CASE Release
  BY <1>9, ReleaseOK
<1>10. CASE UNCHANGED vars
  BY <1>10, StutterOK
<1>11. QED
  BY <1>1, <1>2, <1>3, <1>4, <1>5, <1>6, <1>7, <1>8, <1>9, <1>10 DEF Next

\* Every step of the emit task, the embedding thread and the ASR loop, and the
\* release of the session at any of them, keeps the messages, the mapper and the
\* extractions in step with the results.
THEOREM Invariance == Spec => []IInv
<1>1. Init => IInv
  BY InitOK
<1>2. IInv /\ [Next]_vars => IInv'
  BY StepOK
<1>3. QED
  BY <1>1, <1>2, PTL DEF Spec

\* Sending only the snapshots that changed keeps the client's copy current: it
\* accepts each of them, as the assignment never names a member twice, and it
\* has the mapper's decision whenever the emit task is between two results.
THEOREM SnapshotAlwaysCurrent == Spec => []SnapshotCurrent
<1>1. IInv => SnapshotCurrent
  BY DEF IInv, OutboxOK, MapperOK, SnapshotCurrent
<1>2. QED
  BY <1>1, Invariance, PTL

\* A transcript shown under a member's name has that member as the most similar
\* voice, however late the vector was and whatever snapshot was sent since.
THEOREM NamesMatchVoices == Spec => []NameMatchesVoice
<1>1. IInv => NameMatchesVoice
  <2> SUFFICES ASSUME IInv, NEW i \in DOMAIN delivered
               PROVE  LET t == delivered[i]
                      IN  t.committed /\ t.name # None =>
                            t.name = BestMember(closed[t.segment].voice)
    BY DEF NameMatchesVoice
  <2>1. i \in 1 .. Len(delivered)
    BY LenProperties DEF IInv, KindsOK
  <2>2. QED
    BY <2>1 DEF IInv, DeliveredOK
<1>2. QED
  BY <1>1, Invariance, PTL

\* The evidence of a slot is the sum over the transcripts heard of it, each
\* once, and over nothing else: no failed segment, no cancelled extraction.
THEOREM EvidenceIsOfTranscripts == Spec => []EvidenceOfTranscripts
<1>1. IInv => EvidenceOfTranscripts
  <2> SUFFICES ASSUME IInv PROVE EvidenceOfTranscripts
    OBVIOUS
  <2>1. \A i \in DOMAIN delivered : i \in 1 .. Len(delivered)
    BY LenProperties DEF IInv, KindsOK
  <2>2. \A i \in DOMAIN delivered :
          delivered[i].segment \in counted => delivered[i].committed
    BY <2>1 DEF IInv, DeliveredOK
  <2>3. \A i \in counted : i =< current.segment /\ futures[i] = "done"
    BY DEF IInv, CountedOK
  <2>4. QED
    BY <2>2, <2>3 DEF EvidenceOfTranscripts, IInv, SumsOK, Heard, Lengths, Parts
<1>2. QED
  BY <1>1, Invariance, PTL

\* What the emit task waits for is there, or its deadline may still give it up:
\* nothing else cancels the extraction of a segment it has not passed.
THEOREM WaitsAlwaysEnd == Spec => []WaitEnds
<1>1. IInv => WaitEnds
  <2> SUFFICES ASSUME IInv, emit = "wait"
               PROVE  LET state == futures[current.segment] IN state = "done" \/ Late(state)
    BY DEF WaitEnds
  <2>1. /\ current.segment \in 1 .. Len(futures) /\ Enabled
        /\ futures[current.segment] # "cancelled"
    BY DEF IInv, FuturesOK, KindsOK
  <2>2. futures[current.segment] \in States
    BY <2>1, ElementOfSeq DEF IInv, KindsOK
  <2>3. QED
    BY <2>1, <2>2 DEF IInv, FuturesOK, States, Late
<1>2. QED
  BY <1>1, Invariance, PTL

==================================================================================
