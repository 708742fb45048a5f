\* Every table of gains; every answer of a diarization and every segment; every
\* page of meetings and selection; every split of a few results over messages; every
\* batch of two segments and what the model makes of them.
\* A computation ends when it returns.
CONSTANTS
  MemberCount = 3
  SlotCount = 3
  Cosines = {3, 5, 7}
  THRESHOLD = 4
  Speakers = {0, 1}
  Instants = {0, 1, 2, 3, 4}
  MaxIntervals = 3
  Moments = {0, 1, 2, 3}
  MaxSegments = 3
  Meetings = {1, 2, 3}
  Current = 1
  MAX_MEETING_PAGES = 2
  MAX_SELECTED_MEETINGS = 2
  MAX_CONTEXT_LENGTH = 4
  Voices = {"S1", "S2"}
  Durations = {1, 2}
  MAX_DURATION = 3
  MaxResults = 4
  MaxPerMessage = 2
  BATCH_SIZE = 2
  Lengths = {1, 4}
  LetterCounts = {0, 2, 3, 9}
  CONTEXT_ECHO_MIN_CHARS = 3
  MAX_CHARS_PER_SECOND = 2
CHECK_DEADLOCK FALSE
SPECIFICATION Spec
INVARIANTS
  AssignmentOptimal
  AttributedToLongest
  MetricsCountOnce
  ContextSources
  ContextLines
  WordsKept
  JudgedAlone
