--------------------------- MODULE MCAsrPipeline ---------------------------
(***************************************************************************)
(* AsrPipeline on small instances; connections and recordings are          *)
(* interchangeable.                                                        *)
(***************************************************************************)
EXTENDS AsrPipeline, TLC

CONSTANT Talkative  \* the connections with two turns; the others have one

Turns == [c \in Connections |-> IF c \in Talkative THEN 2 ELSE 1]

Symmetry == Permutations(Connections) \cup Permutations(Recordings)

\* For liveness, where symmetry is not sound: one naming of the recordings, each
\* connection its own.
InitOneNaming ==
  /\ Init
  /\ recording = CHOOSE r \in [Connections -> Recordings] :
                   \A c, d \in Connections : r[c] = r[d] => c = d

FairSpecOneNaming == InitOneNaming /\ [][Next]_vars /\ Fairness

==============================================================================
