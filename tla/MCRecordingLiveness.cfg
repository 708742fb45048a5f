\* Every way in which run() can end, under its fairness, with one chunk and up
\* to two results, in a fresh and in a resumed session.
CONSTANTS
  MAX_AUDIO_CHUNK_SIZE = 2
  MAX_PENDING_AUDIO_BYTES = 2
  StartSequences = {0}
  TranscriptStarts = {0, 2}
  ChunkSizes = {2}
  MaxSequence = 0
  MaxResults = 2
SPECIFICATION FairSpec
INVARIANTS
  ResultsInOrder
PROPERTIES
  EndsOnceLeft
