\* Three segments of two slots, of which a slot may need two to be connected: a
\* mapping may be made, moved to another slot and withdrawn.  A session ends
\* when its segments are delivered.
CONSTANTS
  Members <- MCMembers
  ProfileSets = {{}, {1, 2}}
  Slots = {s0, s1}
  Voices <- MCVoices
  Durations = {3, 5}
  MIN_SECONDS = 5
  MaxSegments = 3
CHECK_DEADLOCK FALSE
SYMMETRY Symmetry
SPECIFICATION Spec
INVARIANTS
  SnapshotCurrent
  NameMatchesVoice
  EvidenceOfTranscripts
  WaitEnds
