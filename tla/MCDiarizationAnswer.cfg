\* The comment of _call_worker, against a handler's cancellation followed by
\* the drain timer's.
CONSTANTS
  Connections = {c1, c2}
  MaxChunks = 1
SPECIFICATION Spec
INVARIANT
  OwnAnswer
