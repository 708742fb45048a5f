\* Three speakers that may pause, return and talk at once, chunks of two frames,
\* answers that lag behind the audio or have a row too many, a session longer than
\* the buffer.
SPECIFICATION Spec
CONSTANTS
  Slots = 3
  HALF = 2
  SEC = 2
  MAX_TURN = 4
  FIRST = 3
  CHUNK = 2
  BUFFER = 9
  MAX_FEED = 1
  MaxFrames = 10
  Surplus = 1
INVARIANTS TypeOK NoInternalError
PROPERTIES SpeechKept OnlyShortAbsorbed StreamSpec
