--------------------------- MODULE SpeakerMatching ---------------------------
(***************************************************************************)
(* The promise of SpeakerMapper._assign, as its docstring states it: of    *)
(* all partial one-to-one mappings of slots to members that use no pair    *)
(* below the threshold, one whose sum of (cosine - threshold) is greatest. *)
(* gain[m][s] is that difference, as an integer.                           *)
(* (src/meety_ai/modal_app/stt/speaker_mapping.py)                         *)
(***************************************************************************)
EXTENDS Integers, FiniteSets, Functions

\* The mappings that give each slot of used a member of its own, without a
\* pair of a negative gain.
Matchings(members, used, gain) ==
  {f \in Injection(used, members) : \A s \in used : gain[f[s]][s] >= 0}

Total(f, gain) == SumFunction([s \in DOMAIN f |-> gain[f[s]][s]])

\* The best of all that leave any slots they like without a member.
BestMatchings(members, slots, gain) ==
  LET all == UNION {Matchings(members, used, gain) : used \in SUBSET slots}
  IN  {f \in all : \A g \in all : Total(g, gain) =< Total(f, gain)}
==============================================================================
