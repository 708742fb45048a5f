----------------------------- MODULE AssistantRun -----------------------------
(***************************************************************************)
(* One request of the assistant: the agent alternates between calls of the *)
(* model and rounds of tool calls that run concurrently and share one      *)
(* record of the request, AssistantRun: the bytes given to the model, the  *)
(* meetings read, and those the answer may refer to.                       *)
(* (src/meety_ai/assistant/agent.py and tools.py; get_data of              *)
(* chat/tools.py)                                                          *)
(*                                                                         *)
(* The model and the graph that runs the agent are external: a model that  *)
(* is offered tools may call some, one that is offered none answers.  The  *)
(* graph's own limit of 2 * max_model_calls + 2 steps lies above what the  *)
(* limit of model calls allows and is left out, as are the status events   *)
(* and the wording of messages.                                            *)
(***************************************************************************)
EXTENDS Integers, Sequences, FiniteSets

CONSTANTS
  Meetings,
  Sizes,             \* of a payload, in bytes
  MAX_MODEL_CALLS,   \* max_model_calls (12)
  MAX_TOOL_CALLS,    \* max_tool_calls (30)
  MAX_MEETINGS,      \* max_meetings (10)
  MAX_INPUT_BYTES,   \* max_input_bytes (1 MiB)
  MaxParallel        \* bound of the model: tool calls of one round

ASSUME AssistantAssumption ==
  /\ Sizes \subseteq Nat
  /\ {MAX_TOOL_CALLS, MAX_MEETINGS, MAX_INPUT_BYTES} \subseteq Nat
  /\ {MAX_MODEL_CALLS, MaxParallel} \subseteq Nat \ {0}
  /\ "none" \notin Meetings

VARIABLES
  phase,       \* what the graph is doing
  outcome,     \* how the request ended
  model_calls, tool_calls,
  tools,       \* whether the model is offered tools
  calls,       \* the tool calls of this round
  input_bytes, targets, referenced_meeting_ids, meeting_draft, \* AssistantRun
  answer,      \* whether the text sent so far is "blank" or "text"
  prompt,      \* history: bytes of the question and the messages before it
  found,       \* history: bytes of search results given to the model
  given,       \* history: bytes of meetings given to the model
  shown,       \* history: the meetings of which the model was given something
  handled      \* history: tool calls that were carried out

runVars  == <<input_bytes, targets, referenced_meeting_ids, meeting_draft>>
history  == <<prompt, found, given, shown, handled>>
vars == <<phase, outcome, model_calls, tool_calls, tools, calls, runVars, answer,
          history>>

NoMeeting == "none"

\* The tools, by what they share: "read" is a transcript, summary or metrics.
Call == [tool : {"search", "members", "draft"}, meeting : {NoMeeting},
         at : {"asked"}, attempt : {1}]
        \cup [tool : {"read"}, meeting : Meetings, at : {"asked"}, attempt : {1}]

\* stream_answer refuses a request that is too large before it starts.
Init ==
  /\ prompt \in Sizes /\ input_bytes = prompt
  /\ \/ prompt =< MAX_INPUT_BYTES /\ phase = "idle" /\ outcome = "none"
     \/ prompt > MAX_INPUT_BYTES /\ phase = "ended" /\ outcome = "invalid_request"
  /\ model_calls = 0 /\ tool_calls = 0 /\ tools = "none" /\ calls = << >>
  /\ targets = {} /\ referenced_meeting_ids = {} /\ meeting_draft = "none"
  /\ answer = "blank"
  /\ found = 0 /\ given = 0 /\ shown = {} /\ handled = 0

Fail(code) == phase' = "ended" /\ outcome' = code

-----------------------------------------------------------------------------
\* The model.

\* Slips: one call too many; calls of tools do not count.
OneMoreCall(n) == n > MAX_MODEL_CALLS \/ tool_calls >= MAX_TOOL_CALLS
ModelCallsOnly(n) == n >= MAX_MODEL_CALLS

\* limit_model_calls takes the tools away.
LastCall(n) == n >= MAX_MODEL_CALLS \/ tool_calls >= MAX_TOOL_CALLS

\* A round of the graph is over when all its tools are.
CallModel ==
  /\ phase = "idle"
  /\ phase' = "model"
  /\ model_calls' = model_calls + 1
  /\ tools' = IF LastCall(model_calls + 1) THEN "none" ELSE "offered"
  /\ UNCHANGED <<outcome, tool_calls, calls, runVars, answer, history>>

\* A chunk of text goes to the client.  (Those of another call of the model
\* start a new paragraph.)
Chunk ==
  /\ phase = "model" /\ answer = "blank"
  /\ answer' = "text"
  /\ UNCHANGED <<phase, outcome, model_calls, tool_calls, tools, calls, runVars,
                 history>>

RequestTools ==
  /\ phase = "model" /\ tools = "offered"
  /\ \E n \in 1 .. MaxParallel : calls' \in [1 .. n -> Call]
  /\ phase' = "tools"
  /\ UNCHANGED <<outcome, model_calls, tool_calls, tools, runVars, answer,
                 history>>

\* No tool call: the stream ends, and the answer is completed unless it is blank.
AnswerEnds ==
  /\ phase = "model"
  /\ phase' = "ended"
  /\ outcome' = IF answer = "text" THEN "completed" ELSE "generation_failed"
  /\ UNCHANGED <<model_calls, tool_calls, tools, calls, runVars, answer, history>>

ModelFails ==
  /\ phase = "model"
  /\ \E code \in {"timeout", "invalid_request", "generation_failed"} : Fail(code)
  /\ UNCHANGED <<model_calls, tool_calls, tools, calls, runVars, answer, history>>

\* The deadline falls while the generator waits for the next item.
Deadline ==
  /\ phase # "ended"
  /\ Fail("timeout")
  /\ UNCHANGED <<model_calls, tool_calls, tools, calls, runVars, answer, history>>

-----------------------------------------------------------------------------
\* The tools.

Goes(i, at) == calls' = [calls EXCEPT ![i].at = at]

\* limit_tool_calls
OverLimit(n) == n > MAX_TOOL_CALLS

\* A slip: one meeting too many.
Room == Cardinality(targets) =< MAX_MEETINGS

HasRoom == Cardinality(targets) < MAX_MEETINGS

\* admit
Admits(call) == call.tool # "read" \/ call.meeting \in targets \/ HasRoom

\* A call is counted, and then refused, or carried out up to its request: a
\* meeting is admitted, the arguments and the time of a draft are looked at.
StartTool(i) ==
  /\ phase = "tools" /\ calls[i].at = "asked"
  /\ tool_calls' = tool_calls + 1
  /\ IF OverLimit(tool_calls + 1)
     THEN Goes(i, "done") /\ UNCHANGED <<targets, handled>>
     ELSE /\ handled' = handled + 1
          /\ \/ Admits(calls[i]) /\ Goes(i, "waiting")
                /\ targets' = targets \cup ({calls[i].meeting} \ {NoMeeting})
             \/ Goes(i, "done") /\ UNCHANGED targets
  /\ UNCHANGED <<phase, outcome, model_calls, tools, input_bytes,
                 referenced_meeting_ids, meeting_draft, answer, prompt, found,
                 given, shown>>

Waiting(i) == phase = "tools" /\ calls[i].at = "waiting"

\* get_data tries again once after a transport or server error.
Retry(i) ==
  /\ Waiting(i) /\ calls[i].attempt = 1
  /\ calls' = [calls EXCEPT ![i].attempt = 2]
  /\ UNCHANGED <<phase, outcome, model_calls, tool_calls, tools, runVars, answer,
                 history>>

\* A tool error goes to the model: refused by the backend, or, when a meeting
\* is read, unavailable.
ToolError(i) ==
  /\ Waiting(i)
  /\ Goes(i, "done")
  /\ UNCHANGED <<phase, outcome, model_calls, tool_calls, tools, runVars, answer,
                 history>>

\* A retrieval error ends the request; of a meeting, only a forbidden one does.
RetrievalFails(i) ==
  /\ Waiting(i)
  /\ \E code \in IF calls[i].tool = "read" THEN {"forbidden"}
                 ELSE {"forbidden", "retrieval_failed", "timeout"} : Fail(code)
  /\ UNCHANGED <<model_calls, tool_calls, tools, calls, runVars, answer, history>>

Found(i) ==
  /\ Waiting(i) /\ calls[i].tool = "search"
  /\ \E size \in Sizes : /\ input_bytes' = input_bytes + size
                         /\ found' = found + size
  /\ Goes(i, "done")
  /\ UNCHANGED <<phase, outcome, model_calls, tool_calls, tools, targets,
                 referenced_meeting_ids, meeting_draft, answer, prompt, given,
                 shown, handled>>

\* Slips: the payload alone is compared; a meeting without content is referred to.
FitsAlone(size) == size =< MAX_INPUT_BYTES
ReferredAnyway(content) == TRUE

Fits(size) == input_bytes + size =< MAX_INPUT_BYTES
Counted(size) == IF Fits(size) THEN size ELSE 0
Referred(content) == content = "some"

\* accept: a payload that does not fit is left out, as a tool error.
Accept(i) ==
  /\ Waiting(i) /\ calls[i].tool = "read"
  /\ \E size \in Sizes, content \in {"some", "none"} :
       /\ input_bytes' = input_bytes + Counted(size)
       /\ IF Fits(size)
          THEN /\ given' = given + size
               /\ shown' = IF content = "some" THEN shown \cup {calls[i].meeting}
                           ELSE shown
               /\ referenced_meeting_ids' =
                    IF Referred(content)
                    THEN referenced_meeting_ids \cup {calls[i].meeting}
                    ELSE referenced_meeting_ids
          ELSE UNCHANGED <<given, shown, referenced_meeting_ids>>
  /\ Goes(i, "done")
  /\ UNCHANGED <<phase, outcome, model_calls, tool_calls, tools, targets,
                 meeting_draft, answer, prompt, found, handled>>

\* A summary that does not exist is answered without being counted, and so are
\* the members; a draft is registered if its attendees are members.
Answered(i) ==
  /\ Waiting(i) /\ calls[i].tool # "search"
  /\ \/ calls[i].tool = "draft" /\ meeting_draft' = "registered"
     \/ UNCHANGED meeting_draft
  /\ Goes(i, "done")
  /\ UNCHANGED <<phase, outcome, model_calls, tool_calls, tools, input_bytes,
                 targets, referenced_meeting_ids, answer, history>>

RoundEnds ==
  /\ phase = "tools" /\ \A i \in DOMAIN calls : calls[i].at = "done"
  /\ phase' = "idle" /\ calls' = << >>
  /\ UNCHANGED <<outcome, model_calls, tool_calls, tools, runVars, answer, history>>

-----------------------------------------------------------------------------

Next ==
  \/ CallModel \/ Chunk \/ RequestTools \/ AnswerEnds \/ ModelFails \/ Deadline
  \/ \E i \in DOMAIN calls :
       \/ StartTool(i) \/ Retry(i) \/ ToolError(i) \/ RetrievalFails(i)
       \/ Found(i) \/ Accept(i) \/ Answered(i)
  \/ RoundEnds

Spec == Init /\ [][Next]_vars
-----------------------------------------------------------------------------
\* Properties

\* Type correctness; a round in which the limit of tool calls is passed is the
\* last one, since the model is offered no tools after it.
TypeOK ==
  /\ phase \in {"idle", "model", "tools", "ended"}
  /\ outcome \in {"none", "completed", "timeout", "invalid_request", "forbidden",
                  "retrieval_failed", "generation_failed"}
  /\ model_calls \in Nat /\ tools \in {"none", "offered"}
  /\ tool_calls \in 0 .. MAX_TOOL_CALLS + MaxParallel - 1
  /\ Len(calls) =< MaxParallel
  /\ \A i \in DOMAIN calls :
       /\ [calls[i] EXCEPT !.at = "asked", !.attempt = 1] \in Call
       /\ calls[i].at \in {"asked", "waiting", "done"} /\ calls[i].attempt \in {1, 2}
  /\ {input_bytes, prompt, found, given, handled} \subseteq Nat
  /\ targets \subseteq Meetings /\ referenced_meeting_ids \subseteq Meetings
  /\ shown \subseteq Meetings /\ meeting_draft \in {"none", "registered"}
  /\ answer \in {"blank", "text"}

\* However the tools of a round interleave, input_bytes is what the model has
\* been given: every search result and every payload of a meeting once, and
\* nothing that was left out, refused or lost on the way; and what is read of
\* meetings never takes the request over its limit, also when several payloads
\* arrive for the last free bytes (only searches may).
BudgetKept ==
  /\ input_bytes = prompt + found + given
  /\ given > 0 => prompt + given =< MAX_INPUT_BYTES

\* The three limits hold however the calls of a round are ordered: of calls of
\* the model and of tools, and of meetings, also where each concurrent read
\* looks for room of its own; whatever the model is shown or may refer to has
\* been admitted.
LimitsKept ==
  /\ model_calls =< MAX_MODEL_CALLS /\ handled =< MAX_TOOL_CALLS
  /\ Cardinality(targets) =< MAX_MEETINGS
  /\ shown \cup referenced_meeting_ids \subseteq targets

\* A completed answer names exactly the meetings of which the model has been
\* shown something: no meeting that was only asked for, empty, or left out.
ReferencedShown == outcome = "completed" => referenced_meeting_ids = shown
==============================================================================
