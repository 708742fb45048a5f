------------------------ MODULE MCSegmentAttribution -------------------------
EXTENDS SegmentAttribution, TLC

\* A voice like the first of two members, and one in between, nearer to the
\* second: unit vectors in tenths.
MCMembers == {1, 2}
MCVoices  == {<<10, 0>>, <<6, 8>>}

\* Slots are told apart only by what is said in them.
Symmetry == Permutations(Slots)
==============================================================================
