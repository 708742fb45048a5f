\* A session that starts at 0 and one that continues at 1, up to three chunks,
\* a buffer that the third can overflow, every kind of illegal binary.
CONSTANTS
  MAX_AUDIO_CHUNK_SIZE = 4
  MAX_PENDING_AUDIO_BYTES = 6
  StartSequences = {0, 1}
  TranscriptStarts = {0}
  ChunkSizes = {0, 2, 3, 4, 6}
  MaxSequence = 1
  MaxResults = 1
SPECIFICATION Spec
INVARIANTS
  TypeOK
  AudioConserved
  PendingBytes
  DeadlineMatchesSession
  NothingLeft
PROPERTIES
  NoContextAfterStop
  RelaySpec
