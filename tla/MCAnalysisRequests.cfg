\* The assistant: rounds of two calls at a time, a meeting and a call too many, and
\* payloads that do not all fit.  The chat: a past meeting, rounds of two calls, a
\* call and a call of the model too many.  A run ends with its answer.
CONSTANTS
  Meetings = {m1, m2, m3}
  Sizes = {1, 2}
  MAX_MODEL_CALLS = 4
  MAX_TOOL_CALLS = 4
  MAX_MEETINGS = 2
  MAX_INPUT_BYTES = 4
  MaxParallel = 2
  ChatMeetings = {asked, past}
  Current = asked
  Ids = {i1, i2}
  MAX_ITERATIONS = 2
  MAX_CHAT_CALLS = 2
  MAX_CITATIONS = 2
CHECK_DEADLOCK FALSE
SYMMETRY Symmetry
SPECIFICATION SpecRequests
INVARIANTS
  TypeOK
  BudgetKept
  LimitsKept
  ReferencedShown
  CitationsProvided
