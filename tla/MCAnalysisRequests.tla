-------------------------- MODULE MCAnalysisRequests --------------------------
(***************************************************************************)
(* The two agents of the analysis service on small instances: a behaviour  *)
(* is one request of the assistant or one question to the chat, which      *)
(* share nothing.                                                          *)
(***************************************************************************)
EXTENDS AssistantRun, TLC

CONSTANTS Current, Ids, MAX_ITERATIONS, MAX_CITATIONS, ChatMeetings, MAX_CHAT_CALLS

VARIABLES
  agent,
  chat_phase, chat_outcome, chat_model_calls, chat_tool_calls, chat_calls, sources,
  reply, answer_citations, request, provided

chatVars == <<chat_phase, chat_outcome, chat_model_calls, chat_tool_calls, chat_calls,
              sources, reply, answer_citations, request, provided>>

Chat == INSTANCE ChatRun WITH
  Meetings <- ChatMeetings, MAX_TOOL_CALLS <- MAX_CHAT_CALLS, phase <- chat_phase,
  outcome <- chat_outcome, model_calls <- chat_model_calls,
  tool_calls <- chat_tool_calls, calls <- chat_calls

\* The agent that does not run is given one of its requests.
InitRequests ==
  /\ agent \in {"assistant", "chat"}
  /\ IF agent = "assistant" THEN request = {} ELSE prompt = CHOOSE size \in Sizes : TRUE
  /\ Init /\ Chat!Init

AssistantStep == agent = "assistant" /\ Next /\ UNCHANGED <<agent, chatVars>>
ChatStep == agent = "chat" /\ Chat!Next /\ UNCHANGED <<agent, vars>>

SpecRequests == InitRequests /\ [][AssistantStep \/ ChatStep]_<<agent, vars, chatVars>>

\* Every meeting is like another to the assistant, and so are the segments and
\* the summaries of a meeting to the chat.
Symmetry == Permutations(Meetings) \cup Permutations(Ids)
-----------------------------------------------------------------------------
\* Property

\* The citations of an answer of the chat: see ChatRun.
CitationsProvided == agent = "chat" => Chat!CitationsProvided
===============================================================================
