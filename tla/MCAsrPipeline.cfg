\* Two connections, of one or of two recordings, that share a batch of two, a
\* queue of two jobs, and have room for one result.
CONSTANTS
  Connections = {c1, c2}
  Recordings = {r1, r2}
  MAX_SESSIONS = 2
  JOBS = 2
  BATCH_SIZE = 2
  RESULTS = 1
  Outcomes = {"committed", "failed", "fatal"}
  MaxSegments <- Turns
  Talkative = {c1, c2}
SYMMETRY Symmetry
SPECIFICATION Spec
INVARIANTS
  TypeOK
  PendingJobs
  ClientAccepts
PROPERTIES
  NoWorkAfterRelease
