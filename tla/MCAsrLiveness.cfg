\* Two sessions under fairness, of one turn and of two, whose second result finds
\* its queue full when the client is slow.
CONSTANTS
  Connections = {c1, c2}
  Recordings = {r1, r2}
  MAX_SESSIONS = 2
  JOBS = 1
  BATCH_SIZE = 2
  RESULTS = 1
  Outcomes = {"committed", "fatal"}
  MaxSegments <- Turns
  Talkative = {c1}
SPECIFICATION FairSpecOneNaming
PROPERTIES
  StopEnds
  LoopGoesOn
