----------------------- MODULE AnalysisRequests_proofs -----------------------
(***************************************************************************)
(* Proofs about the agents of the analysis service: of AssistantRun for    *)
(* all limits, meetings and sizes, of ChatRun for any meetings, material   *)
(* and limits, and of both for rounds and answers of any length.           *)
(***************************************************************************)
EXTENDS MCAnalysisRequests, CollectionLemmas

-----------------------------------------------------------------------------
\* The assistant: the inductive invariant.

CallState ==
  [tool : {"search", "members", "draft", "read"},
   meeting : Meetings \cup {NoMeeting},
   at : {"asked", "waiting", "done"}, attempt : {1, 2}]

\* The calls of a round; only reads name a meeting.
CallsOK ==
  /\ calls \in Seq(CallState) /\ Len(calls) =< MaxParallel
  /\ \A i \in 1 .. Len(calls) :
       IF calls[i].tool = "read" THEN calls[i].meeting \in Meetings
       ELSE calls[i].meeting = NoMeeting

VarsOK ==
  /\ phase \in {"idle", "model", "tools", "ended"}
  /\ outcome \in {"none", "completed", "timeout", "invalid_request", "forbidden",
                  "retrieval_failed", "generation_failed"}
  /\ model_calls \in Nat /\ tool_calls \in Nat /\ tools \in {"none", "offered"}
  /\ input_bytes \in Nat /\ prompt \in Nat /\ found \in Nat /\ given \in Nat
  /\ handled \in Nat
  /\ targets \subseteq Meetings
  /\ meeting_draft \in {"none", "registered"} /\ answer \in {"blank", "text"}

\* A model that still may ask for tools is not the last one.
ModelLimit ==
  /\ model_calls =< MAX_MODEL_CALLS
  /\ (phase \in {"idle", "tools"} \/ (phase = "model" /\ tools = "offered"))
       => model_calls < MAX_MODEL_CALLS

Asked == {i \in 1 .. Len(calls) : calls[i].at = "asked"}

\* Tools are offered while calls are left, and the calls of a round that have
\* not been counted yet pass the limit by less than a round.
ToolLimit ==
  /\ tool_calls < MAX_TOOL_CALLS + MaxParallel
  /\ phase = "model" /\ tools = "offered" => tool_calls < MAX_TOOL_CALLS
  /\ phase = "tools" =>
       tool_calls + Cardinality(Asked) < MAX_TOOL_CALLS + MaxParallel
  /\ handled =< tool_calls /\ handled =< MAX_TOOL_CALLS

\* A read that waits for the backend has been admitted.
Admitted ==
  /\ IsFiniteSet(targets) /\ Cardinality(targets) =< MAX_MEETINGS
  /\ \A i \in 1 .. Len(calls) :
       calls[i].at = "waiting" /\ calls[i].tool = "read"
         => calls[i].meeting \in targets

Shown == referenced_meeting_ids = shown /\ shown \subseteq targets

IInv ==
  /\ VarsOK /\ CallsOK /\ ModelLimit /\ ToolLimit /\ Admitted /\ Shown
  /\ BudgetKept

-----------------------------------------------------------------------------
\* Lemmas about one round of calls.

\* The entry of a call that is marked keeps what the call asked for.
LEMMA CallMarked ==
  ASSUME CallsOK, NEW i \in 1 .. Len(calls), NEW c \in CallState,
         c.tool = calls[i].tool, c.meeting = calls[i].meeting,
         calls' = [calls EXCEPT ![i] = c]
  PROVE  /\ CallsOK' /\ Len(calls') = Len(calls)
         /\ \A k \in 1 .. Len(calls) : calls'[k] = IF k = i THEN c ELSE calls[k]
<1>1. /\ calls' \in Seq(CallState) /\ Len(calls') = Len(calls)
      /\ \A k \in 1 .. Len(calls) : calls'[k] = IF k = i THEN c ELSE calls[k]
  BY ExceptSeq DEF CallsOK
<1>2. QED
  BY <1>1 DEF CallsOK

\* The positions of a sequence.
LEMMA UpTo ==
  ASSUME NEW n \in Nat
  PROVE  IsFiniteSet(1 .. n) /\ Cardinality(1 .. n) = n
<1>1. /\ IsFiniteSet(1 .. n)
      /\ Cardinality(1 .. n) = IF 1 > n THEN 0 ELSE n - 1 + 1
  BY FS_Interval
<1>2. QED
  BY <1>1

\* The calls not yet counted are finitely many, and one less once one is.
LEMMA AskedFinite ==
  ASSUME CallsOK
  PROVE  /\ IsFiniteSet(Asked) /\ Cardinality(Asked) \in Nat
         /\ Cardinality(Asked) =< Len(calls)
<1>1. Len(calls) \in Nat
  BY LenProperties DEF CallsOK
<1>2. IsFiniteSet(1 .. Len(calls)) /\ Cardinality(1 .. Len(calls)) = Len(calls)
  BY <1>1, UpTo
<1>3. Asked \in SUBSET (1 .. Len(calls))
  BY DEF Asked
<1>4. QED
  BY <1>2, <1>3, FS_Subset, FS_CardinalityType

\* A call that goes on to the backend or is done keeps its tool and its meeting,
\* no longer is to be counted, and leaves the others as they are.
LEMMA RoundGoes ==
  ASSUME CallsOK, NEW i \in 1 .. Len(calls), NEW place \in {"waiting", "done"},
         Goes(i, place)
  PROVE  /\ CallsOK' /\ Len(calls') = Len(calls)
         /\ \A k \in 1 .. Len(calls) : k # i => calls'[k] = calls[k]
         /\ calls'[i].at = place /\ calls'[i].tool = calls[i].tool
         /\ calls'[i].meeting = calls[i].meeting
         /\ Cardinality(Asked') =
              IF calls[i].at = "asked" THEN Cardinality(Asked) - 1
              ELSE Cardinality(Asked)
<1> DEFINE c == [calls[i] EXCEPT !.at = place]
<1>1. calls[i] \in CallState
  BY ElementOfSeq DEF CallsOK
<1>2. c \in CallState /\ c.tool = calls[i].tool /\ c.meeting = calls[i].meeting
      /\ c.at = place
  BY <1>1 DEF CallState
<1>3. calls' = [calls EXCEPT ![i] = c]
  BY DEF Goes
<1> HIDE DEF c
<1>4. /\ CallsOK' /\ Len(calls') = Len(calls)
      /\ \A k \in 1 .. Len(calls) : calls'[k] = IF k = i THEN c ELSE calls[k]
  BY <1>2, <1>3, CallMarked
<1>5. Asked' = Asked \ {i} /\ (i \in Asked <=> calls[i].at = "asked")
  BY <1>2, <1>4 DEF Asked
<1>6. Cardinality(Asked') = IF i \in Asked THEN Cardinality(Asked) - 1
                            ELSE Cardinality(Asked)
  BY <1>5, AskedFinite, FS_RemoveElement
<1>7. QED
  BY <1>2, <1>4, <1>5, <1>6

\* A second attempt changes nothing that the invariant looks at.
LEMMA RoundRetries ==
  ASSUME CallsOK, NEW i \in 1 .. Len(calls),
         calls' = [calls EXCEPT ![i].attempt = 2]
  PROVE  /\ CallsOK' /\ Len(calls') = Len(calls) /\ Asked' = Asked
         /\ \A k \in 1 .. Len(calls) :
              /\ calls'[k].at = calls[k].at /\ calls'[k].tool = calls[k].tool
              /\ calls'[k].meeting = calls[k].meeting
<1> DEFINE c == [calls[i] EXCEPT !.attempt = 2]
<1>1. calls[i] \in CallState
  BY ElementOfSeq DEF CallsOK
<1>2. c \in CallState /\ c.tool = calls[i].tool /\ c.meeting = calls[i].meeting
      /\ c.at = calls[i].at
  BY <1>1 DEF CallState
<1>3. calls' = [calls EXCEPT ![i] = c]
  OBVIOUS
<1> HIDE DEF c
<1>4. /\ CallsOK' /\ Len(calls') = Len(calls)
      /\ \A k \in 1 .. Len(calls) : calls'[k] = IF k = i THEN c ELSE calls[k]
  BY <1>2, <1>3, CallMarked
<1>5. QED
  BY <1>2, <1>4 DEF Asked

-----------------------------------------------------------------------------
\* The steps.

LEMMA InvInit == Init => IInv
<1> SUFFICES ASSUME Init PROVE IInv
  OBVIOUS
<1> USE AssistantAssumption
<1>1. VarsOK
  BY DEF Init, VarsOK
<1>2. CallsOK /\ Len(calls) = 0
  BY EmptySeq DEF Init, CallsOK
<1>3. ModelLimit /\ ToolLimit /\ BudgetKept /\ Shown
  BY DEF Init, ModelLimit, ToolLimit, BudgetKept, Shown
<1>4. Admitted
  BY <1>2, FS_EmptySet DEF Init, Admitted
<1>5. QED
  BY <1>1, <1>2, <1>3, <1>4 DEF IInv

\* The steps of the graph outside a round, and the ends of a request.
LEMMA GraphStep ==
  ASSUME IInv,
         CallModel \/ Chunk \/ AnswerEnds \/ ModelFails \/ Deadline \/ RoundEnds
  PROVE  IInv'
<1> USE AssistantAssumption
<1>1. VarsOK'
  <2>1. CASE CallModel
    BY <2>1 DEF IInv, VarsOK, CallModel, runVars, history
  <2>2. CASE Chunk
    BY <2>2 DEF IInv, VarsOK, Chunk, runVars, history
  <2>3. CASE AnswerEnds
    BY <2>3 DEF IInv, VarsOK, AnswerEnds, runVars, history
  <2>4. CASE ModelFails \/ Deadline
    BY <2>4 DEF IInv, VarsOK, ModelFails, Deadline, Fail, runVars, history
  <2>5. CASE RoundEnds
    BY <2>5 DEF IInv, VarsOK, RoundEnds, runVars, history
  <2>6. QED
    BY <2>1, <2>2, <2>3, <2>4, <2>5
<1>2. CallsOK' /\ (calls' = calls \/ Len(calls') = 0)
  <2>1. CASE RoundEnds
    BY <2>1, EmptySeq DEF RoundEnds, CallsOK
  <2>2. CASE ~RoundEnds
    BY <2>2 DEF IInv, CallsOK, CallModel, Chunk, AnswerEnds, ModelFails, Deadline
  <2>3. QED
    BY <2>1, <2>2
<1>3. ModelLimit'
  BY DEF IInv, VarsOK, ModelLimit, CallModel, LastCall, Chunk, AnswerEnds, ModelFails,
         Deadline, RoundEnds, Fail
<1>4. ToolLimit'
  BY DEF IInv, VarsOK, ToolLimit, CallModel, LastCall, Chunk, AnswerEnds, ModelFails,
         Deadline, RoundEnds, Fail, history
<1>5. targets' = targets /\ shown' = shown
      /\ referenced_meeting_ids' = referenced_meeting_ids
  BY DEF CallModel, Chunk, AnswerEnds, ModelFails, Deadline, RoundEnds, runVars, history
<1>6. Admitted' /\ Shown'
  BY <1>2, <1>5 DEF IInv, Admitted, Shown
<1>7. BudgetKept'
  BY DEF IInv, BudgetKept, CallModel, Chunk, AnswerEnds, ModelFails, Deadline, RoundEnds,
         runVars, history
<1>8. QED
  BY <1>1, <1>2, <1>3, <1>4, <1>6, <1>7 DEF IInv

\* A round starts while calls of tools and another call of the model are left.
LEMMA RoundStarts ==
  ASSUME IInv, RequestTools
  PROVE  IInv'
<1> USE AssistantAssumption
<1>1. PICK n \in 1 .. MaxParallel : calls' \in [1 .. n -> Call]
  BY DEF RequestTools
<1>2. \A call \in Call :
        /\ call \in CallState /\ call.at = "asked"
        /\ IF call.tool = "read" THEN call.meeting \in Meetings
           ELSE call.meeting = NoMeeting
  BY DEF Call, CallState, NoMeeting
<1>3. calls' \in [1 .. n -> CallState]
  BY <1>1, <1>2
<1>4. calls' \in Seq(CallState) /\ Len(calls') = n
  BY <1>3
<1>5. CallsOK'
  BY <1>1, <1>2, <1>4 DEF CallsOK
<1>6. Cardinality(Asked)' \in Nat /\ Cardinality(Asked)' =< MaxParallel
  <2>1. n \in Nat /\ IsFiniteSet(1 .. n) /\ Cardinality(1 .. n) = n
    BY UpTo
  <2>2. Asked' \in SUBSET (1 .. n)
    BY <1>4 DEF Asked
  <2>3. IsFiniteSet(Asked') /\ Cardinality(Asked') =< n
    BY <2>1, <2>2, FS_Subset
  <2>4. Cardinality(Asked') \in Nat
    BY <2>3, FS_CardinalityType
  <2>5. n =< MaxParallel /\ MaxParallel \in Nat
    OBVIOUS
  <2>6. QED
    BY <2>1, <2>3, <2>4, <2>5
<1>7. VarsOK'
  BY DEF IInv, VarsOK, RequestTools, runVars, history
<1>8. ModelLimit'
  BY DEF IInv, VarsOK, ModelLimit, RequestTools
<1>9. ToolLimit'
  BY <1>6 DEF IInv, VarsOK, ToolLimit, RequestTools, history
<1>10. Admitted'
  BY <1>1, <1>2, <1>4 DEF IInv, Admitted, RequestTools, runVars
<1>11. Shown' /\ BudgetKept'
  BY DEF IInv, Shown, BudgetKept, RequestTools, runVars, history
<1>12. QED
  BY <1>5, <1>7, <1>8, <1>9, <1>10, <1>11 DEF IInv

\* A call is counted; a meeting is admitted while there is room for it.
LEMMA ToolStarts ==
  ASSUME IInv, NEW i \in 1 .. Len(calls), StartTool(i)
  PROVE  IInv'
<1> USE AssistantAssumption
<1>1. CallsOK /\ VarsOK
  BY DEF IInv
<1>2. PICK place \in {"waiting", "done"} :
        /\ Goes(i, place)
        /\ IF place = "waiting" /\ tool_calls + 1 =< MAX_TOOL_CALLS
           THEN /\ Admits(calls[i])
                /\ targets' = targets \cup ({calls[i].meeting} \ {NoMeeting})
           ELSE place = "done" /\ targets' = targets
  <2>1. CASE OverLimit(tool_calls + 1)
    BY <2>1 DEF StartTool
  <2>2. CASE ~OverLimit(tool_calls + 1)
    <3>1. tool_calls + 1 =< MAX_TOOL_CALLS
      BY <1>1, <2>2 DEF OverLimit, VarsOK
    <3>2. \/ /\ Goes(i, "waiting") /\ Admits(calls[i])
             /\ targets' = targets \cup ({calls[i].meeting} \ {NoMeeting})
          \/ Goes(i, "done") /\ targets' = targets
      BY <2>2 DEF StartTool
    <3>3. QED
      BY <3>1, <3>2
  <2>3. QED
    BY <2>1, <2>2
<1>3. /\ CallsOK' /\ Len(calls') = Len(calls)
      /\ \A k \in 1 .. Len(calls) : k # i => calls'[k] = calls[k]
      /\ calls'[i].at = place /\ calls'[i].tool = calls[i].tool
      /\ calls'[i].meeting = calls[i].meeting
      /\ Cardinality(Asked') = Cardinality(Asked) - 1
  <2>1. calls[i].at = "asked"
    BY DEF StartTool
  <2>2. QED
    BY <1>1, <1>2, <2>1, RoundGoes
<1>4. calls[i].meeting \in Meetings \cup {NoMeeting}
      /\ (calls[i].tool = "read" => calls[i].meeting \in Meetings)
      /\ (calls[i].tool # "read" => calls[i].meeting = NoMeeting)
  BY <1>1 DEF CallsOK
<1>5. /\ targets \subseteq targets' /\ targets' \subseteq Meetings
      /\ calls'[i].at = "waiting" /\ calls[i].tool = "read"
           => calls[i].meeting \in targets'
  BY <1>1, <1>2, <1>3, <1>4 DEF VarsOK, NoMeeting
<1>6. IsFiniteSet(targets') /\ Cardinality(targets') =< MAX_MEETINGS
  <2>1. IsFiniteSet(targets) /\ Cardinality(targets) =< MAX_MEETINGS
        /\ Cardinality(targets) \in Nat
    BY FS_CardinalityType DEF IInv, Admitted
  <2>2. targets' = targets
        \/ (targets' = targets \cup {calls[i].meeting}
            /\ Cardinality(targets) < MAX_MEETINGS)
    BY <1>2, <1>4 DEF Admits, HasRoom, NoMeeting
  <2>3. MAX_MEETINGS \in Nat
    OBVIOUS
  <2>4. /\ IsFiniteSet(targets \cup {calls[i].meeting})
        /\ Cardinality(targets \cup {calls[i].meeting}) \in
             {Cardinality(targets), Cardinality(targets) + 1}
    BY <2>1, FS_AddElement
  <2>5. CASE targets' = targets
    BY <2>1, <2>5
  <2>6. CASE /\ targets' = targets \cup {calls[i].meeting}
             /\ Cardinality(targets) < MAX_MEETINGS
    <3>1. Cardinality(targets \cup {calls[i].meeting}) =< MAX_MEETINGS
      BY <2>1, <2>3, <2>4, <2>6
    <3>2. QED
      BY <2>4, <2>6, <3>1
  <2>7. QED
    BY <2>2, <2>5, <2>6
<1>7. Admitted'
  BY <1>3, <1>5, <1>6 DEF IInv, Admitted
<1>8. VarsOK'
  <2>1. tool_calls' \in Nat /\ handled' \in Nat
    <3>1. tool_calls' = tool_calls + 1 /\ handled' \in {handled, handled + 1}
      BY DEF StartTool
    <3>2. tool_calls \in Nat /\ handled \in Nat
      BY <1>1 DEF VarsOK
    <3>3. QED
      BY <3>1, <3>2
  <2>2. /\ phase' = phase /\ outcome' = outcome /\ model_calls' = model_calls
        /\ tools' = tools /\ input_bytes' = input_bytes /\ prompt' = prompt
        /\ found' = found /\ given' = given /\ meeting_draft' = meeting_draft
        /\ answer' = answer
    BY DEF StartTool
  <2>3. QED
    BY <1>1, <1>5, <2>1, <2>2 DEF VarsOK
<1>9. ToolLimit'
  <2>1. Cardinality(Asked) \in Nat
    BY <1>1, AskedFinite
  <2>2. handled' = IF tool_calls + 1 > MAX_TOOL_CALLS THEN handled ELSE handled + 1
    BY DEF StartTool, OverLimit
  <2>3. phase = "tools" /\ phase' = "tools" /\ tool_calls' = tool_calls + 1
    BY DEF StartTool
  <2>4. Cardinality(Asked)' = Cardinality(Asked) - 1
    BY <1>3
  <2>5. handled =< tool_calls /\ handled =< MAX_TOOL_CALLS
        /\ tool_calls + Cardinality(Asked) < MAX_TOOL_CALLS + MaxParallel
    BY <2>3 DEF IInv, ToolLimit
  <2>6. Cardinality(Asked) >= 1
    <3>1. i \in Asked
      BY DEF Asked, StartTool
    <3>2. QED
      BY <1>1, <2>1, <3>1, AskedFinite, FS_EmptySet
  <2>7. QED
    BY <1>1, <2>1, <2>2, <2>3, <2>4, <2>5, <2>6 DEF ToolLimit, VarsOK
<1>10. ModelLimit'
  BY DEF IInv, ModelLimit, StartTool
<1>11. Shown' /\ BudgetKept'
  BY <1>5 DEF IInv, Shown, BudgetKept, StartTool
<1>12. QED
  BY <1>3, <1>7, <1>8, <1>9, <1>10, <1>11 DEF IInv

\* What a step of a waiting call keeps of the limits.
LEMMA WaitingKeeps ==
  ASSUME IInv, NEW i \in 1 .. Len(calls), Waiting(i),
         Goes(i, "done") \/ calls' = calls
                         \/ calls' = [calls EXCEPT ![i].attempt = 2],
         phase' \in {phase, "ended"},
         UNCHANGED <<model_calls, tool_calls, tools, targets, handled>>
  PROVE  CallsOK' /\ ModelLimit' /\ ToolLimit' /\ Admitted'
<1>1. CallsOK
  BY DEF IInv
<1>2. /\ CallsOK' /\ Len(calls') = Len(calls)
      /\ Cardinality(Asked') = Cardinality(Asked)
      /\ \A k \in 1 .. Len(calls) :
           calls'[k].at = "waiting" /\ calls'[k].tool = "read"
             => calls[k].at = "waiting" /\ calls[k].tool = "read"
                /\ calls'[k].meeting = calls[k].meeting
  <2>1. CASE Goes(i, "done")
    BY <1>1, <2>1, RoundGoes DEF Waiting
  <2>2. CASE calls' = calls
    BY <1>1, <2>2 DEF CallsOK, Asked
  <2>3. CASE calls' = [calls EXCEPT ![i].attempt = 2]
    BY <1>1, <2>3, RoundRetries
  <2>4. QED
    BY <2>1, <2>2, <2>3
<1>3. ModelLimit'
  BY DEF IInv, ModelLimit, Waiting
<1>4. ToolLimit'
  BY <1>2 DEF IInv, ToolLimit, Waiting
<1>5. Admitted'
  BY <1>2 DEF IInv, Admitted
<1>6. QED
  BY <1>2, <1>3, <1>4, <1>5

\* Nothing comes back, or nothing that counts.
LEMMA ToolEndsEmpty ==
  ASSUME IInv, NEW i \in 1 .. Len(calls),
         Retry(i) \/ ToolError(i) \/ RetrievalFails(i) \/ Answered(i)
  PROVE  IInv'
<1>1. CallsOK' /\ ModelLimit' /\ ToolLimit' /\ Admitted'
  BY WaitingKeeps
     DEF Retry, ToolError, RetrievalFails, Answered, Waiting, Fail, runVars, history
<1>2. VarsOK'
  BY DEF IInv, VarsOK, Retry, ToolError, RetrievalFails, Answered, Fail, runVars,
         history
<1>3. Shown' /\ BudgetKept'
  BY DEF IInv, Shown, BudgetKept, Retry, ToolError, RetrievalFails, Answered, runVars,
         history
<1>4. QED
  BY <1>1, <1>2, <1>3 DEF IInv

\* Search results are counted, whatever room there is for them.
LEMMA ToolFinds ==
  ASSUME IInv, NEW i \in 1 .. Len(calls), Found(i)
  PROVE  IInv'
<1>1. CallsOK' /\ ModelLimit' /\ ToolLimit' /\ Admitted'
  BY WaitingKeeps DEF Found, Waiting
<1>2. PICK size \in Sizes : input_bytes' = input_bytes + size /\ found' = found + size
  BY DEF Found
<1>3. size \in Nat
  BY AssistantAssumption
<1>4. VarsOK'
  BY <1>2, <1>3 DEF IInv, VarsOK, Found
<1>5. Shown' /\ BudgetKept'
  BY <1>2, <1>3 DEF IInv, VarsOK, Shown, BudgetKept, Found
<1>6. QED
  BY <1>1, <1>4, <1>5 DEF IInv

\* The payload of an admitted meeting is given to the model if it fits.
LEMMA ToolAccepts ==
  ASSUME IInv, NEW i \in 1 .. Len(calls), Accept(i)
  PROVE  IInv'
<1>1. CallsOK' /\ ModelLimit' /\ ToolLimit' /\ Admitted'
  BY WaitingKeeps DEF Accept, Waiting
<1>2. PICK size \in Sizes, content \in {"some", "none"} :
        /\ input_bytes' = input_bytes + Counted(size)
        /\ IF Fits(size)
           THEN /\ given' = given + size
                /\ shown' = IF content = "some" THEN shown \cup {calls[i].meeting}
                            ELSE shown
                /\ referenced_meeting_ids' =
                     IF Referred(content)
                     THEN referenced_meeting_ids \cup {calls[i].meeting}
                     ELSE referenced_meeting_ids
           ELSE UNCHANGED <<given, shown, referenced_meeting_ids>>
  BY DEF Accept
<1>3. size \in Nat /\ MAX_INPUT_BYTES \in Nat
  BY AssistantAssumption
<1>4. VarsOK'
  BY <1>2, <1>3 DEF IInv, VarsOK, Accept, Counted
<1>5. calls[i].meeting \in targets /\ targets' = targets
  BY DEF IInv, Admitted, Accept, Waiting
<1>6. Shown'
  BY <1>2, <1>5 DEF IInv, Shown, Referred
<1>7. BudgetKept'
  BY <1>2, <1>3 DEF IInv, VarsOK, BudgetKept, Accept, Counted, Fits
<1>8. QED
  BY <1>1, <1>4, <1>6, <1>7 DEF IInv

LEMMA InvStep == IInv /\ [Next]_vars => IInv'
<1> SUFFICES ASSUME IInv, [Next]_vars PROVE IInv'
  OBVIOUS
<1>1. DOMAIN calls = 1 .. Len(calls)
  BY LenProperties DEF IInv, CallsOK
<1>2. CASE CallModel \/ Chunk \/ AnswerEnds \/ ModelFails \/ Deadline \/ RoundEnds
  BY <1>2, GraphStep
<1>3. CASE RequestTools
  BY <1>3, RoundStarts
<1>4. ASSUME NEW i \in 1 .. Len(calls),
             \/ StartTool(i) \/ Retry(i) \/ ToolError(i) \/ RetrievalFails(i)
             \/ Found(i) \/ Accept(i) \/ Answered(i)
      PROVE  IInv'
  BY <1>4, ToolStarts, ToolEndsEmpty, ToolFinds, ToolAccepts
<1>5. CASE UNCHANGED vars
  BY <1>5 DEF vars, runVars, history, IInv, VarsOK, CallsOK, ModelLimit, ToolLimit,
              Admitted, Shown, BudgetKept, Asked
<1>6. QED
  BY <1>1, <1>2, <1>3, <1>4, <1>5 DEF Next

-----------------------------------------------------------------------------
\* What holds of every request.

\* The inductive invariant holds throughout a request.
THEOREM Invariance == Spec => []IInv
  BY InvInit, InvStep, PTL DEF Spec

\* Whatever the tools of a round do and in whatever order they end, the shared
\* record keeps its type, and a round passes the limit of tool calls by less
\* than its own length.
THEOREM TypeCorrect == Spec => []TypeOK
<1>1. IInv => TypeOK
  <2> SUFFICES ASSUME IInv PROVE TypeOK
    OBVIOUS
  <2> USE AssistantAssumption
  <2>1. DOMAIN calls = 1 .. Len(calls)
    BY LenProperties DEF IInv, CallsOK
  <2>2. ASSUME NEW i \in DOMAIN calls
        PROVE  /\ [calls[i] EXCEPT !.at = "asked", !.attempt = 1] \in Call
               /\ calls[i].at \in {"asked", "waiting", "done"}
               /\ calls[i].attempt \in {1, 2}
    <3>1. calls[i] \in CallState
      BY <2>1, ElementOfSeq DEF IInv, CallsOK
    <3>2. IF calls[i].tool = "read" THEN calls[i].meeting \in Meetings
          ELSE calls[i].meeting = NoMeeting
      BY <2>1 DEF IInv, CallsOK
    <3>3. QED
      BY <3>1, <3>2 DEF CallState, Call
  <2>3. tool_calls \in 0 .. MAX_TOOL_CALLS + MaxParallel - 1
    BY DEF IInv, VarsOK, ToolLimit
  <2>4. targets \subseteq Meetings /\ referenced_meeting_ids \subseteq Meetings
        /\ shown \subseteq Meetings
    BY DEF IInv, VarsOK, Shown
  <2>5. QED
    BY <2>2, <2>3, <2>4 DEF IInv, VarsOK, CallsOK, TypeOK
<1>2. QED
  BY <1>1, Invariance, PTL

\* For every limit and every order in which the tools of a round end, the bytes
\* of the request are those the model has been given, and what is read of
\* meetings never takes them over the limit (accept).
THEOREM BudgetAlwaysKept == Spec => []BudgetKept
<1>1. IInv => BudgetKept
  BY DEF IInv
<1>2. QED
  BY <1>1, Invariance, PTL

\* For every value of the limits and rounds of any length, no request calls the
\* model, its tools or the meetings oftener than it may, and nothing is shown
\* or referred to that was not admitted (limit_model_calls, limit_tool_calls,
\* admit).
THEOREM LimitsAlwaysKept == Spec => []LimitsKept
<1>1. IInv => LimitsKept
  BY DEF IInv, ModelLimit, ToolLimit, Admitted, Shown, LimitsKept
<1>2. QED
  BY <1>1, Invariance, PTL

\* However a request ends, its references are the meetings of which the model
\* has been shown something (accept, and the completed event of agent.py).
THEOREM ReferencedAlwaysShown == Spec => []ReferencedShown
<1>1. IInv => ReferencedShown
  BY DEF IInv, Shown, ReferencedShown
<1>2. QED
  BY <1>1, Invariance, PTL

-----------------------------------------------------------------------------
\* The chat: the members of a sequence, each where it occurs first.

\* g holds the members of each beginning of the sequence.
AreKept(g, q) ==
  g = [n \in 0 .. Len(q) |->
         IF n = 0 THEN << >>
         ELSE IF Chat!Contains(g[n - 1], q[n]) THEN g[n - 1] ELSE Append(g[n - 1], q[n])]

\* There is such a g.
LEMMA KeptExist ==
  ASSUME NEW S, NEW q \in Seq(S)
  PROVE  \E g : AreKept(g, q)
<1> DEFINE Value(h, n) == IF n = 0 THEN << >>
                          ELSE IF Chat!Contains(h[n - 1], q[n]) THEN h[n - 1]
                          ELSE Append(h[n - 1], q[n])
           Good(m, h) == /\ h = [n \in 0 .. m |-> h[n]]
                         /\ \A n \in 0 .. m : h[n] = Value(h, n)
           N == {m \in Nat : \E h : Good(m, h)}
<1>1. 0 \in N
  <2> DEFINE h == [n \in 0 .. 0 |-> << >>]
  <2>1. h = [n \in 0 .. 0 |-> h[n]] /\ \A n \in 0 .. 0 : h[n] = << >> /\ n = 0
    OBVIOUS
  <2> HIDE DEF h
  <2>2. Good(0, h)
    BY <2>1
  <2>3. QED
    BY <2>2
<1>2. ASSUME NEW m \in Nat, m \in N PROVE m + 1 \in N
  <2>1. PICK h : Good(m, h)
    BY <1>2
  <2> DEFINE k == [n \in 0 .. m + 1 |-> IF n \in 0 .. m THEN h[n] ELSE Value(h, n)]
  <2>2. ASSUME NEW n \in 0 .. m + 1 PROVE k[n] = Value(k, n)
    <3>1. k[n] = Value(h, n)
      BY <2>1
    <3>2. CASE n = 0
      BY <3>1, <3>2
    <3>3. CASE n # 0
      <4>1. n - 1 \in 0 .. m /\ n - 1 \in 0 .. m + 1
        BY <3>3
      <4>2. k[n - 1] = h[n - 1]
        BY <4>1
      <4>3. QED
        BY <3>1, <3>3, <4>2
    <3>4. QED
      BY <3>2, <3>3
  <2>3. k = [n \in 0 .. m + 1 |-> k[n]]
    OBVIOUS
  <2> HIDE DEF k
  <2>4. Good(m + 1, k)
    BY <2>2, <2>3
  <2> HIDE DEF Good
  <2>5. QED
    BY <2>4
<1>3. \A m \in Nat : m \in N
  <2> HIDE DEF N
  <2>1. QED
    BY <1>1, <1>2, SetOfNatInduction
<1>4. PICK h : Good(Len(q), h)
  BY <1>3, LenProperties
<1>5. h = [n \in 0 .. Len(q) |-> Value(h, n)]
  BY <1>4
<1>6. AreKept(h, q)
  BY <1>5 DEF AreKept
<1>7. QED
  BY <1>6

\* The members are those of the beginning, and none is there twice.
Members(s, q, n) ==
  /\ \A i \in 1 .. Len(s) : \E j \in 1 .. n : s[i] = q[j]
  /\ \A j \in 1 .. n : \E i \in 1 .. Len(s) : s[i] = q[j]
  /\ \A i, j \in 1 .. Len(s) : s[i] = s[j] => i = j

\* One more element of the sequence.
LEMMA OneMoreMember ==
  ASSUME NEW S, NEW q \in Seq(S), NEW n \in Nat, n + 1 =< Len(q),
         NEW s \in Seq(S), Members(s, q, n)
  PROVE  LET r == IF Chat!Contains(s, q[n + 1]) THEN s ELSE Append(s, q[n + 1])
         IN r \in Seq(S) /\ Members(r, q, n + 1)
<1> DEFINE e == q[n + 1]
<1>1. Len(q) \in Nat /\ Len(s) \in Nat /\ e \in S
  BY LenProperties, ElementOfSeq
<1>2. n + 1 \in 1 .. n + 1 /\ \A j \in 1 .. n + 1 : j \in 1 .. n \/ j = n + 1
  OBVIOUS
<1>3. \A j \in 1 .. n : j \in 1 .. n + 1
  OBVIOUS
<1>4. CASE Chat!Contains(s, e)
  <2>1. \E i \in 1 .. Len(s) : s[i] = e
    BY <1>4 DEF Chat!Contains
  <2>2. Members(s, q, n + 1)
    BY <1>2, <1>3, <2>1 DEF Members
  <2>3. QED
    BY <1>4, <2>2
<1>5. CASE ~Chat!Contains(s, e)
  <2> DEFINE r == Append(s, e)
             len == Len(s)
  <2>1. /\ r \in Seq(S) /\ Len(r) = len + 1 /\ r[len + 1] = e
        /\ \A i \in 1 .. len : r[i] = s[i]
    BY <1>1, AppendProperties
  <2>2. \A i \in 1 .. len : s[i] # e
    BY <1>5 DEF Chat!Contains
  <2>3. /\ len + 1 \in 1 .. len + 1
        /\ \A i \in 1 .. len + 1 : i \in 1 .. len \/ i = len + 1
        /\ \A i \in 1 .. len : i \in 1 .. len + 1
    BY <1>1
  <2> HIDE DEF r, len
  <2>4. \A i \in 1 .. len + 1 : \E j \in 1 .. n + 1 : r[i] = q[j]
    <3>1. \A i \in 1 .. len : \E j \in 1 .. n : s[i] = q[j]
      BY DEF Members, len
    <3>2. \A i \in 1 .. len : \E j \in 1 .. n + 1 : r[i] = q[j]
      BY <1>2, <2>1, <3>1
    <3>3. n + 1 \in 1 .. n + 1 /\ r[len + 1] = q[n + 1]
      BY <1>2, <1>3, <2>1
    <3>4. QED
      BY <2>3, <3>2, <3>3
  <2>5. \A j \in 1 .. n + 1 : \E i \in 1 .. len + 1 : r[i] = q[j]
    <3>1. \A j \in 1 .. n : \E i \in 1 .. len : s[i] = q[j]
      BY DEF Members, len
    <3>2. \A j \in 1 .. n : \E i \in 1 .. len + 1 : r[i] = q[j]
      BY <2>1, <2>3, <3>1
    <3>3. r[len + 1] = q[n + 1]
      BY <1>2, <2>1
    <3>4. QED
      BY <1>2, <2>3, <3>2, <3>3
  <2>6. \A i, j \in 1 .. len + 1 : r[i] = r[j] => i = j
    <3>1. \A i, j \in 1 .. len : s[i] = s[j] => i = j
      BY DEF Members, len
    <3>2. \A i, j \in 1 .. len : r[i] = r[j] => i = j
      BY <2>1, <3>1
    <3>3. \A i \in 1 .. len : r[i] # r[len + 1]
      BY <2>1, <2>2
    <3>4. QED
      BY <2>3, <3>2, <3>3
  <2>7. Members(r, q, n + 1)
    BY <2>1, <2>4, <2>5, <2>6 DEF Members
  <2>8. QED
    BY <1>5, <2>1, <2>7 DEF r
<1>6. QED
  BY <1>4, <1>5

\* The chat counts like the library.
LEMMA SameCardinality == \A S : Chat!Cardinality(S) = Cardinality(S)
BY DEF Chat!Cardinality, Cardinality

\* Distinct keeps all members of a sequence, each once.
LEMMA DistinctKeepsMembers ==
  ASSUME NEW S, NEW q \in Seq(S)
  PROVE  /\ Chat!ToSet(Chat!Distinct(q)) = Chat!ToSet(q)
         /\ Len(Chat!Distinct(q)) = Cardinality(Chat!ToSet(q))
<1> DEFINE g == CHOOSE g : AreKept(g, q)
           len == Len(q)
           N == {n \in Nat : n =< len => g[n] \in Seq(S) /\ Members(g[n], q, n)}
<1>1. AreKept(g, q)
  BY KeptExist
<1>2. Chat!Distinct(q) = g[len]
  BY DEF Chat!Distinct, AreKept
<1>3. len \in Nat
  BY LenProperties
<1>4. \A n \in 0 .. len :
        g[n] = IF n = 0 THEN << >>
               ELSE IF Chat!Contains(g[n - 1], q[n]) THEN g[n - 1] ELSE Append(g[n - 1], q[n])
  BY <1>1 DEF AreKept
<1> HIDE DEF g, len
<1>5. 0 \in N
  <2>1. 0 \in 0 .. len
    BY <1>3
  <2>2. g[0] = << >>
    BY <1>4, <2>1
  <2>3. << >> \in Seq(S) /\ Len(<< >>) = 0
    BY EmptySeq
  <2>4. Members(<< >>, q, 0)
    BY <2>3 DEF Members
  <2>5. QED
    BY <2>2, <2>3, <2>4
<1>6. ASSUME NEW n \in Nat, n \in N PROVE n + 1 \in N
  <2> SUFFICES ASSUME n + 1 =< len PROVE g[n + 1] \in Seq(S) /\ Members(g[n + 1], q, n + 1)
    OBVIOUS
  <2>1. n + 1 \in 0 .. len /\ n + 1 # 0 /\ (n + 1) - 1 = n /\ n =< len
    BY <1>3
  <2>2. g[n] \in Seq(S) /\ Members(g[n], q, n)
    BY <1>6, <2>1
  <2>3. g[n + 1] = IF Chat!Contains(g[n], q[n + 1]) THEN g[n] ELSE Append(g[n], q[n + 1])
    BY <1>4, <2>1
  <2> DEFINE s == g[n]
  <2>4. n + 1 =< Len(q) /\ s \in Seq(S) /\ Members(s, q, n)
    BY <2>2 DEF len
  <2> HIDE DEF s
  <2>5. LET r == IF Chat!Contains(s, q[n + 1]) THEN s ELSE Append(s, q[n + 1])
        IN r \in Seq(S) /\ Members(r, q, n + 1)
    BY <2>4, OneMoreMember
  <2>6. QED
    BY <2>3, <2>5 DEF s
<1>7. \A n \in Nat : n \in N
  <2> HIDE DEF N
  <2>1. QED
    BY <1>5, <1>6, SetOfNatInduction
<1> DEFINE s == Chat!Distinct(q)
<1>8. s \in Seq(S) /\ Members(s, q, Len(q))
  <2>1. len =< len
    BY <1>3
  <2>2. QED
    BY <1>2, <1>3, <1>7, <2>1 DEF len
<1> HIDE DEF s
<1>9. /\ DOMAIN s = 1 .. Len(s) /\ Len(s) \in Nat
      /\ DOMAIN q = 1 .. Len(q) /\ Len(q) \in Nat
  BY <1>8, LenProperties
<1>10. Chat!ToSet(s) = Chat!ToSet(q)
  <2>1. \A x \in Chat!ToSet(s) : x \in Chat!ToSet(q)
    <3>1. \A i \in 1 .. Len(s) : \E j \in 1 .. Len(q) : s[i] = q[j]
      BY <1>8 DEF Members
    <3>2. QED
      BY <1>9, <3>1 DEF Chat!ToSet
  <2>2. \A x \in Chat!ToSet(q) : x \in Chat!ToSet(s)
    <3>1. \A j \in 1 .. Len(q) : \E i \in 1 .. Len(s) : s[i] = q[j]
      BY <1>8 DEF Members
    <3>2. QED
      BY <1>9, <3>1 DEF Chat!ToSet
  <2>3. QED
    BY <2>1, <2>2
<1>11. Cardinality(Chat!ToSet(s)) = Len(s)
  <2>1. s \in Bijection(1 .. Len(s), Chat!ToSet(s))
    <3>1. s = [i \in 1 .. Len(s) |-> s[i]]
      BY <1>8, <1>9
    <3>2. s \in [1 .. Len(s) -> Chat!ToSet(s)]
      BY <1>9, <3>1 DEF Chat!ToSet
    <3>3. \A x \in Chat!ToSet(s) : \E i \in 1 .. Len(s) : s[i] = x
      BY <1>9 DEF Chat!ToSet
    <3>4. \A i, j \in 1 .. Len(s) : s[i] = s[j] => i = j
      BY <1>8 DEF Members
    <3>5. /\ s \in Injection(1 .. Len(s), Chat!ToSet(s))
          /\ s \in Surjection(1 .. Len(s), Chat!ToSet(s))
      BY <3>2, <3>3, <3>4 DEF Injection, Surjection, IsInjective
    <3>6. QED
      BY <3>5 DEF Bijection
  <2>2. ExistsBijection(1 .. Len(s), Chat!ToSet(s))
    BY <2>1 DEF ExistsBijection
  <2>3. QED
    BY <1>9, <2>2, FS_CountingElements
<1>12. QED
  BY <1>10, <1>11 DEF s

-----------------------------------------------------------------------------
\* The inductive invariant.

ChatCallState ==
  [tool : Chat!Tool, meeting : ChatMeetings, at : {"asked", "waiting", "done"}, attempt : {1, 2}]

\* The request ends once, with its outcome; a call of the model begins before there
\* is an answer.
ChatPhaseOK ==
  /\ chat_phase \in {"idle", "model", "tools", "ended"}
  /\ chat_outcome = "none" <=> chat_phase # "ended"
  /\ chat_phase = "model" => reply = Chat!NoReply

\* The calls of a round; what waits for the Backend may be read.
ChatCallsOK ==
  \A i \in DOMAIN chat_calls :
    /\ chat_calls[i] \in ChatCallState
    /\ chat_calls[i].at = "waiting" => Chat!Readable(chat_calls[i])

ReplyOK == reply = Chat!NoReply \/ \E cited \in Seq(Chat!Source) : reply = {cited}

\* What may be cited is what has been provided at every moment, and of the meeting
\* asked about that is what came with the question.
SourcesOK ==
  /\ sources = provided
  /\ \A source \in provided : source[2] = Current => source \in request

ChatIInv == ChatPhaseOK /\ ChatCallsOK /\ ReplyOK /\ SourcesOK /\ Chat!CitationsProvided

\* Until the request has ended nothing is said of its answer.
LEMMA NotAnswered ==
  ASSUME chat_outcome' \notin {"answered", "generation_failed"}
  PROVE  Chat!CitationsProvided'
BY DEF Chat!CitationsProvided

\* What a step that reads nothing keeps.
LEMMA NothingRead ==
  ASSUME SourcesOK, UNCHANGED <<sources, provided, request>>
  PROVE  SourcesOK'
BY DEF SourcesOK

LEMMA ChatInit == Chat!Init => ChatIInv
<1> SUFFICES ASSUME Chat!Init PROVE ChatIInv
  OBVIOUS
<1>1. ChatPhaseOK /\ ReplyOK
  BY DEF Chat!Init, ChatPhaseOK, ReplyOK, Chat!NoReply
<1>2. ChatCallsOK
  BY DEF Chat!Init, ChatCallsOK
<1>3. SourcesOK
  BY DEF Chat!Init, SourcesOK
<1>4. Chat!CitationsProvided
  BY DEF Chat!Init, Chat!CitationsProvided
<1>5. QED
  BY <1>1, <1>2, <1>3, <1>4 DEF ChatIInv

-----------------------------------------------------------------------------
\* Every step keeps the invariant.

LEMMA ChatModelSteps ==
  ASSUME ChatIInv, Chat!CallModel \/ Chat!Respond \/ Chat!ModelFails \/ Chat!GivesUp
  PROVE  ChatIInv'
<1> USE DEF ChatIInv
<1>1. CASE Chat!CallModel
  <2>1. ChatPhaseOK'
    BY <1>1 DEF Chat!CallModel, Chat!Fail, ChatPhaseOK, Chat!NoReply
  <2>2. ChatCallsOK' /\ ReplyOK'
    BY <1>1 DEF Chat!CallModel, ChatCallsOK, ReplyOK, Chat!Readable
  <2>3. SourcesOK'
    BY <1>1, NothingRead DEF Chat!CallModel
  <2>4. Chat!CitationsProvided'
    BY <1>1, NotAnswered DEF Chat!CallModel, Chat!Fail, ChatPhaseOK
  <2>5. QED
    BY <2>1, <2>2, <2>3, <2>4
<1>2. CASE Chat!Respond
  <2>1. ChatPhaseOK'
    BY <1>2 DEF Chat!Respond, ChatPhaseOK
  <2>2. ChatCallsOK'
    <3>1. PICK n : chat_calls' \in [1 .. n -> Chat!Call]
      BY <1>2 DEF Chat!Respond
    <3>2. \A i \in DOMAIN chat_calls' : chat_calls'[i] \in Chat!Call
      BY <3>1
    <3>3. \A call \in Chat!Call : call \in ChatCallState /\ call.at = "asked"
      BY DEF Chat!Call, ChatCallState
    <3>4. QED
      BY <3>2, <3>3 DEF ChatCallsOK
  <2>3. ReplyOK'
    <3>1. CASE UNCHANGED reply
      BY <3>1 DEF ReplyOK
    <3>2. CASE \E n \in 0 .. MAX_CITATIONS : \E cited \in [1 .. n -> Chat!Source] : reply' = {cited}
      <4>1. PICK n \in 0 .. MAX_CITATIONS : \E cited \in [1 .. n -> Chat!Source] : reply' = {cited}
        BY <3>2
      <4>2. PICK cited \in [1 .. n -> Chat!Source] : reply' = {cited}
        BY <4>1
      <4>3. cited \in Seq(Chat!Source)
        <5>1. n \in Nat
          OBVIOUS
        <5>2. QED
          BY <5>1, SeqDef
      <4>4. QED
        BY <4>2, <4>3 DEF ReplyOK
    <3>3. QED
      BY <1>2, <3>1, <3>2 DEF Chat!Respond
  <2>4. SourcesOK'
    BY <1>2, NothingRead DEF Chat!Respond, Chat!record
  <2>5. Chat!CitationsProvided'
    BY <1>2, NotAnswered DEF Chat!Respond, ChatPhaseOK
  <2>6. QED
    BY <2>1, <2>2, <2>3, <2>4, <2>5
<1>3. CASE Chat!ModelFails
  <2>1. ChatPhaseOK'
    BY <1>3 DEF Chat!ModelFails, Chat!Fail, ChatPhaseOK
  <2>2. ChatCallsOK' /\ ReplyOK'
    BY <1>3 DEF Chat!ModelFails, ChatCallsOK, ReplyOK, Chat!Readable
  <2>3. SourcesOK'
    BY <1>3, NothingRead DEF Chat!ModelFails, Chat!record
  <2>4. Chat!CitationsProvided'
    <3>1. reply' = {} /\ chat_outcome' # "answered"
      BY <1>3 DEF Chat!ModelFails, Chat!Fail, ChatPhaseOK, Chat!NoReply
    <3>2. QED
      BY <3>1 DEF Chat!CitationsProvided
  <2>5. QED
    BY <2>1, <2>2, <2>3, <2>4
<1>4. CASE Chat!GivesUp
  <2>1. ChatPhaseOK'
    BY <1>4 DEF Chat!GivesUp, Chat!Fail, ChatPhaseOK
  <2>2. ChatCallsOK' /\ ReplyOK'
    BY <1>4 DEF Chat!GivesUp, ChatCallsOK, ReplyOK, Chat!Readable
  <2>3. SourcesOK'
    BY <1>4, NothingRead DEF Chat!GivesUp, Chat!record
  <2>4. Chat!CitationsProvided'
    BY <1>4, NotAnswered DEF Chat!GivesUp, Chat!Fail
  <2>5. QED
    BY <2>1, <2>2, <2>3, <2>4
<1>5. QED
  BY <1>1, <1>2, <1>3, <1>4

\* A call that changes its place or attempt, and waits only for what may be read.
LEMMA ChatCallMoves ==
  ASSUME ChatCallsOK, NEW i \in DOMAIN chat_calls, NEW call \in ChatCallState,
         chat_calls' = [chat_calls EXCEPT ![i] = call],
         call.at = "waiting" => Chat!Readable(call)
  PROVE  ChatCallsOK'
BY DEF ChatCallsOK, Chat!Readable

LEMMA ChatToolSteps ==
  ASSUME ChatIInv, NEW i \in DOMAIN chat_calls,
         Chat!StartTool(i) \/ Chat!Retry(i) \/ Chat!ToolFails(i) \/ Chat!Answered(i)
  PROVE  ChatIInv'
<1> USE DEF ChatIInv
<1> DEFINE done == [chat_calls[i] EXCEPT !.at = "done"]
           waiting == [chat_calls[i] EXCEPT !.at = "waiting"]
           again == [chat_calls[i] EXCEPT !.attempt = 2]
<1>1. /\ done \in ChatCallState /\ done.at = "done"
      /\ waiting \in ChatCallState /\ again \in ChatCallState
      /\ waiting.tool = chat_calls[i].tool /\ waiting.meeting = chat_calls[i].meeting
      /\ again.tool = chat_calls[i].tool /\ again.meeting = chat_calls[i].meeting
      /\ again.at = chat_calls[i].at
  BY DEF ChatCallsOK, ChatCallState
<1>2. /\ [chat_calls EXCEPT ![i].at = "done"] = [chat_calls EXCEPT ![i] = done]
      /\ [chat_calls EXCEPT ![i].at = "waiting"] = [chat_calls EXCEPT ![i] = waiting]
      /\ [chat_calls EXCEPT ![i].attempt = 2] = [chat_calls EXCEPT ![i] = again]
  OBVIOUS
<1> HIDE DEF done, waiting, again
<1>3. ReplyOK' /\ reply' = reply
  BY DEF Chat!StartTool, Chat!Retry, Chat!ToolFails, Chat!Answered, ReplyOK
<1>4. chat_phase = "tools" /\ chat_outcome = "none"
  BY DEF Chat!StartTool, Chat!Retry, Chat!ToolFails, Chat!Answered, Chat!Waiting, ChatPhaseOK
<1>5. CASE Chat!StartTool(i)
  <2>1. ChatPhaseOK' /\ Chat!CitationsProvided'
    BY <1>3, <1>4, <1>5, NotAnswered DEF Chat!StartTool, Chat!Fail, ChatPhaseOK
  <2>2. ChatCallsOK'
    <3>1. CASE UNCHANGED chat_calls
      BY <3>1 DEF ChatCallsOK, Chat!Readable
    <3>2. CASE chat_calls' = [chat_calls EXCEPT ![i].at = "done"]
      BY <1>1, <1>2, <3>2, ChatCallMoves
    <3>3. CASE Chat!Readable(chat_calls[i]) /\ chat_calls' = [chat_calls EXCEPT ![i].at = "waiting"]
      <4>1. Chat!Readable(waiting)
        BY <1>1, <3>3 DEF Chat!Readable
      <4>2. QED
        BY <1>1, <1>2, <3>3, <4>1, ChatCallMoves
    <3>4. QED
      BY <1>5, <3>1, <3>2, <3>3 DEF Chat!StartTool
  <2>3. SourcesOK'
    BY <1>5, NothingRead DEF Chat!StartTool
  <2>4. QED
    BY <1>3, <2>1, <2>2, <2>3
<1>6. CASE Chat!Retry(i)
  <2>1. ChatPhaseOK' /\ Chat!CitationsProvided'
    BY <1>3, <1>4, <1>6, NotAnswered DEF Chat!Retry, ChatPhaseOK
  <2>2. ChatCallsOK'
    <3>1. Chat!Readable(again)
      BY <1>1, <1>6 DEF Chat!Retry, Chat!Waiting, ChatCallsOK, Chat!Readable
    <3>2. QED
      BY <1>1, <1>2, <1>6, <3>1, ChatCallMoves DEF Chat!Retry
  <2>3. SourcesOK'
    BY <1>6, NothingRead DEF Chat!Retry, Chat!record
  <2>4. QED
    BY <1>3, <2>1, <2>2, <2>3
<1>7. CASE Chat!ToolFails(i)
  <2>1. ChatPhaseOK' /\ Chat!CitationsProvided'
    BY <1>3, <1>4, <1>7, NotAnswered DEF Chat!ToolFails, Chat!Fail, ChatPhaseOK
  <2>2. ChatCallsOK'
    <3>1. CASE UNCHANGED chat_calls
      BY <3>1 DEF ChatCallsOK, Chat!Readable
    <3>2. CASE chat_calls' = [chat_calls EXCEPT ![i].at = "done"]
      BY <1>1, <1>2, <3>2, ChatCallMoves
    <3>3. QED
      BY <1>7, <3>1, <3>2 DEF Chat!ToolFails
  <2>3. SourcesOK'
    BY <1>7, NothingRead DEF Chat!ToolFails, Chat!record
  <2>4. QED
    BY <1>3, <2>1, <2>2, <2>3
<1>8. CASE Chat!Answered(i)
  <2>1. ChatPhaseOK' /\ Chat!CitationsProvided'
    BY <1>3, <1>4, <1>8, NotAnswered DEF Chat!Answered, ChatPhaseOK
  <2>2. ChatCallsOK'
    BY <1>1, <1>2, <1>8, ChatCallMoves DEF Chat!Answered
  <2>3. SourcesOK'
    <3>1. PICK ids \in SUBSET Ids, content \in {"some", "none"} :
            /\ chat_calls[i].tool = "search" => ids = {}
            /\ chat_calls[i].tool = "transcript" => content = "some"
            /\ sources' = sources \cup Chat!Tracked(chat_calls[i], ids, content)
            /\ provided' = provided \cup Chat!Read(chat_calls[i], ids, content)
      BY <1>8 DEF Chat!Answered
    <3>2. Chat!Tracked(chat_calls[i], ids, content) = Chat!Read(chat_calls[i], ids, content)
      BY <3>1 DEF Chat!Tracked, Chat!Read
    <3>3. Chat!Readable(chat_calls[i])
      BY <1>8 DEF Chat!Answered, Chat!Waiting, ChatCallsOK
    <3>4. \A source \in Chat!Read(chat_calls[i], ids, content) : source[2] # Current
      <4>1. CASE chat_calls[i].tool = "search"
        BY <3>1, <4>1 DEF Chat!Read
      <4>2. CASE chat_calls[i].tool # "search"
        BY <3>3, <4>2 DEF Chat!Read, Chat!Readable
      <4>3. QED
        BY <4>1, <4>2
    <3>5. request' = request
      BY <1>8 DEF Chat!Answered
    <3>6. QED
      BY <3>1, <3>2, <3>4, <3>5 DEF SourcesOK
  <2>4. QED
    BY <1>3, <2>1, <2>2, <2>3
<1>9. QED
  BY <1>5, <1>6, <1>7, <1>8

LEMMA ChatRoundEnds ==
  ASSUME ChatIInv, Chat!RoundEnds
  PROVE  ChatIInv'
<1>1. ChatPhaseOK' /\ Chat!CitationsProvided'
  BY NotAnswered DEF ChatIInv, Chat!RoundEnds, ChatPhaseOK
<1>2. ChatCallsOK' /\ ReplyOK'
  BY DEF ChatIInv, Chat!RoundEnds, ChatCallsOK, ReplyOK
<1>3. SourcesOK'
  BY NothingRead DEF ChatIInv, Chat!RoundEnds, Chat!record
<1>4. QED
  BY <1>1, <1>2, <1>3 DEF ChatIInv

LEMMA ChatValidates ==
  ASSUME ChatIInv, Chat!ValidateCitations
  PROVE  ChatIInv'
<1> USE DEF ChatIInv
<1>1. PICK cited \in reply :
        IF \A n \in DOMAIN cited : cited[n] \in sources
        THEN chat_outcome' = "answered" /\ answer_citations' = Chat!Distinct(cited)
        ELSE chat_outcome' = "generation_failed" /\ UNCHANGED answer_citations
  BY DEF Chat!ValidateCitations
<1>2. /\ chat_phase = "idle" /\ chat_phase' = "ended"
      /\ UNCHANGED <<sources, provided, request, chat_calls, reply>>
  BY DEF Chat!ValidateCitations, Chat!record
<1>3. ChatPhaseOK'
  BY <1>1, <1>2 DEF ChatPhaseOK
<1>4. ChatCallsOK' /\ ReplyOK'
  BY <1>2 DEF ChatCallsOK, ReplyOK, Chat!Readable
<1>5. SourcesOK'
  BY <1>2, NothingRead
<1>6. (\A n \in DOMAIN cited : cited[n] \in sources) <=> Chat!ToSet(cited) \subseteq provided
  BY DEF SourcesOK, Chat!ToSet
<1>7. Chat!CitationsProvided'
  <2>1. CASE Chat!ToSet(cited) \subseteq provided
    <3>1. chat_outcome' = "answered" /\ answer_citations' = Chat!Distinct(cited)
      BY <1>1, <1>6, <2>1
    <3>2. cited \in Seq(Chat!Source)
      BY DEF ReplyOK, Chat!NoReply
    <3>3. /\ Chat!ToSet(answer_citations') = Chat!ToSet(cited)
          /\ Len(answer_citations') = Cardinality(Chat!ToSet(cited))
      BY <3>1, <3>2, DistinctKeepsMembers
    <3>4. \A source \in Chat!ToSet(cited) : source[2] = Current => source \in request
      BY <2>1 DEF SourcesOK
    <3>5. QED
      BY <1>2, <2>1, <3>1, <3>3, <3>4, SameCardinality DEF Chat!CitationsProvided
  <2>2. CASE ~(Chat!ToSet(cited) \subseteq provided)
    <3>1. chat_outcome' = "generation_failed"
      BY <1>1, <1>6, <2>2
    <3>2. \A other \in reply : other = cited
      BY DEF ReplyOK, Chat!NoReply
    <3>3. QED
      BY <1>2, <2>2, <3>1, <3>2 DEF Chat!CitationsProvided
  <2>3. QED
    BY <2>1, <2>2
<1>8. QED
  BY <1>3, <1>4, <1>5, <1>7

LEMMA ChatNext == ChatIInv /\ (Chat!Next \/ UNCHANGED chatVars) => ChatIInv'
<1> SUFFICES ASSUME ChatIInv, Chat!Next \/ UNCHANGED chatVars PROVE ChatIInv'
  OBVIOUS
<1>1. CASE UNCHANGED chatVars
  BY <1>1 DEF chatVars, ChatIInv, ChatPhaseOK, ChatCallsOK, ReplyOK, SourcesOK,
              Chat!CitationsProvided, Chat!Readable
<1>2. CASE Chat!Next
  BY <1>2, ChatModelSteps, ChatToolSteps, ChatRoundEnds, ChatValidates DEF Chat!Next
<1>3. QED
  BY <1>1, <1>2

-----------------------------------------------------------------------------
\* The service.

\* A step of the service is a step of one agent, and the other stays.
LEMMA StepOfService ==
  ASSUME [AssistantStep \/ ChatStep]_<<agent, vars, chatVars>>
  PROVE  [Next]_vars /\ (Chat!Next \/ UNCHANGED chatVars)
BY DEF AssistantStep, ChatStep

\* The inductive invariant: at every moment, not only when it answers, what a
\* request may cite is what it was given and has read.
THEOREM SourcesAlwaysProvided == SpecRequests => []ChatIInv
<1>1. InitRequests => ChatIInv
  BY ChatInit DEF InitRequests
<1>2. ChatIInv /\ [AssistantStep \/ ChatStep]_<<agent, vars, chatVars>> => ChatIInv'
  BY StepOfService, ChatNext
<1>3. QED
  BY <1>1, <1>2, PTL DEF SpecRequests

\* For any meetings, rounds and citations of any number: an answer cites each of
\* the model's sources once, and only what the request or a tool really held, of the
\* meeting asked about what came with the question; none that does is refused for
\* its citations (validate_citations, track_sources).
THEOREM CitationsAlwaysProvided == SpecRequests => []CitationsProvided
<1>1. ChatIInv => CitationsProvided
  BY DEF ChatIInv, CitationsProvided
<1>2. QED
  BY <1>1, SourcesAlwaysProvided, PTL

\* The assistant is the same whether or not the chat is served next to it: what is
\* proved of its requests holds of the service.
THEOREM AssistantServed == SpecRequests => Spec
<1>1. InitRequests => Init
  BY DEF InitRequests
<1>2. [AssistantStep \/ ChatStep]_<<agent, vars, chatVars>> => [Next]_vars
  BY StepOfService
<1>3. QED
  BY <1>1, <1>2, PTL DEF SpecRequests, Spec

=============================================================================
