\* The docstring of _finish_transcription, against a sender whose send fails.
CONSTANTS
  MAX_AUDIO_CHUNK_SIZE = 2
  MAX_PENDING_AUDIO_BYTES = 2
  StartSequences = {0}
  TranscriptStarts = {0}
  ChunkSizes = {2}
  MaxSequence = 0
  MaxResults = 1
SPECIFICATION Spec
INVARIANT
  EndedAfterTranscripts
