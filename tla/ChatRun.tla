------------------------------- MODULE ChatRun -------------------------------
(***************************************************************************)
(* One question to the chat about a meeting (generate_answer): the agent   *)
(* alternates between calls of the model and rounds of concurrent reads of *)
(* past meetings.  Every successful read adds what it showed to a set of   *)
(* sources, and the citations of the answer are checked against that set   *)
(* when the agent has ended.  (src/meety_ai/chat/agent.py and tools.py)    *)
(*                                                                         *)
(* The model and the graph that runs the agent are external: a response    *)
(* calls tools, answers, or does both, and the agent ends once the tools   *)
(* called next to an answer are done.  Sizes of inputs are not modelled: a *)
(* call of the model may always find its input too large.                  *)
(***************************************************************************)
EXTENDS Integers, SequencesExt

CONSTANTS
  Meetings, Current,   \* the meeting asked about is one of Meetings
  Ids,                 \* of the segments and the summaries of a meeting
  MAX_ITERATIONS,      \* max_iterations (8)
  MAX_TOOL_CALLS,      \* max_tool_calls (8)
  MAX_CITATIONS,       \* of ChatAnswer (3)
  MaxParallel          \* bound of the model: tool calls of one response

VARIABLES
  phase, outcome,
  model_calls, tool_calls,   \* of the middleware
  calls,                     \* the tool calls of this round
  sources,                   \* what may be cited
  reply,                     \* the citations of the model, once there is an answer
  answer_citations,          \* those of the answer that is returned
  request,                   \* the segments that came with the question
  provided                   \* history: the material the request and the tools gave

vars == <<phase, outcome, model_calls, tool_calls, calls, sources, reply,
          answer_citations, request, provided>>

\* What was counted, read and provided so far.
record == <<model_calls, tool_calls, sources, provided>>

Tool == {"search", "transcript", "summary"}
Source == {"transcript", "summary"} \X Meetings \X Ids
Call == [tool : Tool, meeting : Meetings, at : {"asked"}, attempt : {1}]

\* None, or one sequence of citations.
NoReply == {}

Init ==
  /\ request \in SUBSET ({"transcript"} \X {Current} \X Ids)
  /\ sources = request /\ provided = request
  /\ phase = "idle" /\ outcome = "none"
  /\ model_calls = 0 /\ tool_calls = 0
  /\ calls = << >> /\ reply = NoReply /\ answer_citations = << >>

Fail(code) == phase' = "ended" /\ outcome' = code

-----------------------------------------------------------------------------
\* The model.

\* check_input counts the call, and may refuse it.
CallModel ==
  /\ phase = "idle" /\ reply = NoReply
  /\ model_calls' = model_calls + 1
  /\ IF model_calls + 1 > MAX_ITERATIONS THEN Fail("execution_limit_exceeded")
     ELSE \/ phase' = "model" /\ UNCHANGED outcome
          \/ Fail("invalid_request")
  /\ UNCHANGED <<tool_calls, calls, sources, reply, answer_citations, request,
                 provided>>

\* The model calls tools, or answers, or both.
Respond ==
  /\ phase = "model" /\ phase' = "tools"
  /\ \E n \in 0 .. MaxParallel : calls' \in [1 .. n -> Call]
  /\ \/ calls' # << >> /\ UNCHANGED reply
     \/ \E n \in 0 .. MAX_CITATIONS : \E cited \in [1 .. n -> Source] : reply' = {cited}
  /\ UNCHANGED <<outcome, record, answer_citations, request>>

ModelFails ==
  /\ phase = "model"
  /\ \E code \in {"invalid_request", "generation_failed"} : Fail(code)
  /\ UNCHANGED <<record, calls, reply, answer_citations, request>>

\* The deadline of the request, or the limit of the graph.
GivesUp ==
  /\ phase # "ended"
  /\ \E code \in {"timeout", "execution_limit_exceeded"} : Fail(code)
  /\ UNCHANGED <<record, calls, reply, answer_citations, request>>

-----------------------------------------------------------------------------
\* The tools.

\* Of the meeting asked about there is only what came with the question.
Readable(call) == call.tool # "search" => call.meeting # Current

\* A call beyond the limit ends the request, and those running with it; another
\* is refused for its arguments or asks the Backend.
StartTool(i) ==
  /\ phase = "tools" /\ calls[i].at = "asked"
  /\ tool_calls' = tool_calls + 1
  /\ IF tool_calls + 1 > MAX_TOOL_CALLS
     THEN Fail("execution_limit_exceeded") /\ UNCHANGED calls
     ELSE /\ \/ Readable(calls[i]) /\ calls' = [calls EXCEPT ![i].at = "waiting"]
             \/ calls' = [calls EXCEPT ![i].at = "done"]
          /\ UNCHANGED <<phase, outcome>>
  /\ UNCHANGED <<model_calls, sources, reply, answer_citations, request, provided>>

Waiting(i) == phase = "tools" /\ calls[i].at = "waiting"

\* get_data tries again once after a transport or server error.
Retry(i) ==
  /\ Waiting(i) /\ calls[i].attempt = 1
  /\ calls' = [calls EXCEPT ![i].attempt = 2]
  /\ UNCHANGED <<phase, outcome, record, reply, answer_citations, request>>

\* An error of the tool goes to the model; one of the retrieval ends the request.
ToolFails(i) ==
  /\ Waiting(i)
  /\ \/ calls' = [calls EXCEPT ![i].at = "done"] /\ UNCHANGED <<phase, outcome>>
     \/ /\ \E code \in {"forbidden", "retrieval_failed", "timeout"} : Fail(code)
        /\ UNCHANGED calls
  /\ UNCHANGED <<record, reply, answer_citations, request>>

\* What an answer of the Backend holds: segments of a transcript, the summary if
\* it is completed and has content, and nothing to be cited in a search.
Read(call, ids, content) ==
  IF content = "some" THEN {call.tool} \X {call.meeting} \X ids ELSE {}

\* A slip: a summary counts before it is completed.
TrackedEarly(call, ids, content) == {call.tool} \X {call.meeting} \X ids

\* track_sources
Tracked(call, ids, content) ==
  IF call.tool = "transcript" \/ content = "some"
  THEN {call.tool} \X {call.meeting} \X ids ELSE {}

Answered(i) ==
  /\ Waiting(i)
  /\ calls' = [calls EXCEPT ![i].at = "done"]
  /\ \E ids \in SUBSET Ids, content \in {"some", "none"} :
       /\ calls[i].tool = "search" => ids = {}
       /\ calls[i].tool = "transcript" => content = "some"
       /\ calls[i].tool = "summary" => Cardinality(ids) = 1
       /\ sources' = sources \cup Tracked(calls[i], ids, content)
       /\ provided' = provided \cup Read(calls[i], ids, content)
  /\ UNCHANGED <<phase, outcome, model_calls, tool_calls, reply, answer_citations,
                 request>>

RoundEnds ==
  /\ phase = "tools" /\ \A i \in DOMAIN calls : calls[i].at = "done"
  /\ phase' = "idle" /\ calls' = << >>
  /\ UNCHANGED <<outcome, record, reply, answer_citations, request>>

-----------------------------------------------------------------------------
\* The answer.

\* The members of a sequence, each where it occurs first.
Distinct(cited) ==
  LET kept[n \in 0 .. Len(cited)] ==
        IF n = 0 THEN << >>
        ELSE IF Contains(kept[n - 1], cited[n]) THEN kept[n - 1]
        ELSE Append(kept[n - 1], cited[n])
  IN kept[Len(cited)]

\* validate_citations: one citation that has no source refuses the answer.
ValidateCitations ==
  /\ phase = "idle" /\ phase' = "ended"
  /\ \E cited \in reply :
       IF \A i \in DOMAIN cited : cited[i] \in sources
       THEN outcome' = "answered" /\ answer_citations' = Distinct(cited)
       ELSE outcome' = "generation_failed" /\ UNCHANGED answer_citations
  /\ UNCHANGED <<record, calls, reply, request>>

Next ==
  \/ CallModel \/ Respond \/ ModelFails \/ GivesUp
  \/ \E i \in DOMAIN calls : StartTool(i) \/ Retry(i) \/ ToolFails(i) \/ Answered(i)
  \/ RoundEnds \/ ValidateCitations

Spec == Init /\ [][Next]_vars
-----------------------------------------------------------------------------
\* Properties

\* However the reads of a request interleave, fail or are tried again, an answer
\* cites each source once, all that the model cited and nothing but material that
\* the request or a tool really held, and of the meeting asked about only the
\* segments that came with the question; and an answer that cites only provided
\* material is never refused for its citations, also when it was read next to
\* the answer.
CitationsProvided ==
  /\ outcome = "answered" =>
       \E cited \in reply :
         /\ ToSet(answer_citations) = ToSet(cited)
         /\ Len(answer_citations) = Cardinality(ToSet(cited))
         /\ ToSet(cited) \subseteq provided
         /\ \A source \in ToSet(cited) : source[2] = Current => source \in request
  /\ outcome = "generation_failed" =>
       \A cited \in reply : ~(ToSet(cited) \subseteq provided)
==============================================================================
