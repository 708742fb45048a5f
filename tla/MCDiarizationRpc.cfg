\* Two connections of two chunks each: one that is cancelled, one that waits
\* behind it, and the calls each makes afterwards.
CONSTANTS
  Connections = {c1, c2}
  MaxChunks = 2
SPECIFICATION FairSpec
INVARIANTS
  TypeOK
  OneCallAtATime
PROPERTIES
  NoCallAfterFailure
  EveryoneLeaves
