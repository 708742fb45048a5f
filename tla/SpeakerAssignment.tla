-------------------------- MODULE SpeakerAssignment --------------------------
(***************************************************************************)
(* SpeakerMapper._assign: members are assigned one after another, keeping  *)
(* for every set of used slots the best mapping found so far.              *)
(* (src/meety_ai/modal_app/stt/speaker_mapping.py, lines 73-90)            *)
(*                                                                         *)
(* A Python dict keeps its keys in the order of insertion, and ties go to  *)
(* the key that was inserted first: best and following are sequences.  The *)
(* bits of a key are a set of slots.                                       *)
(***************************************************************************)
EXTENDS Sequences, SpeakerMatching

CONSTANTS
  MemberCount,  \* members with a profile, in the order of self.profiles
  SlotCount,    \* slots with evidence of MIN_SECONDS or more
  Cosines,      \* of the evidence of a slot with a profile, as integers
  THRESHOLD     \* the least cosine that may connect them

VARIABLES
  gain,       \* the gain of each pair
  member,     \* the member being assigned
  best,       \* the dict that is read
  following,  \* the copy that is written
  entry,      \* the loop over best.items()
  index,      \* the loop over enumerate(gains)
  result      \* the mapping returned

vars == <<gain, member, best, following, entry, index, result>>

Members == 1 .. MemberCount
Slots   == 1 .. SlotCount

Pending == [used |-> {0}, score |-> 0, mapping |-> << >>]

Init ==
  /\ gain \in [Members -> [Slots -> {c - THRESHOLD : c \in Cosines}]]
  /\ member = 1 /\ entry = 1 /\ index = 1
  /\ best = <<[used |-> {}, score |-> 0, mapping |-> << >>]>>
  /\ following = best
  /\ result = Pending

\* A slip: the copy itself is read, so that a member takes several slots.
ReadFollowing == following

\* The entries whose extension is tried.
Read == best

Looping == member =< MemberCount /\ entry =< Len(Read) /\ index =< SlotCount

\* The two loops go on to the next slot, or to the next entry.
Advance ==
  /\ index' = IF index < SlotCount THEN index + 1 ELSE 1
  /\ entry' = IF index < SlotCount THEN entry ELSE entry + 1
  /\ UNCHANGED <<gain, member, best, result>>

Usable == index \notin Read[entry].used /\ gain[member][index] >= 0

Extended ==
  LET old == Read[entry]
  IN  [used    |-> old.used \cup {index},
       score   |-> old.score + gain[member][index],
       mapping |-> [s \in old.used \cup {index} |->
                     IF s = index THEN member ELSE old.mapping[s]]]

\* Where following holds a mapping of the same slots.
Places == {p \in 1 .. Len(following) : following[p].used = Extended.used}

Improves == \A p \in Places : Extended.score > following[p].score

Pass ==
  /\ Looping
  /\ Usable => ~Improves
  /\ Advance
  /\ UNCHANGED following

Insert ==
  /\ Looping /\ Usable
  /\ Places = {}
  /\ following' = Append(following, Extended)
  /\ Advance

Replace ==
  /\ Looping /\ Usable /\ Improves
  /\ \E p \in Places : following' = [following EXCEPT ![p] = Extended]
  /\ Advance

NextMember ==
  /\ member =< MemberCount
  /\ SlotCount = 0 \/ entry > Len(Read)
  /\ best' = following
  /\ member' = member + 1
  /\ entry' = 1 /\ index' = 1
  /\ UNCHANGED <<gain, following, result>>

\* max(best.values(), key=...): the first of the greatest.
Return ==
  /\ member > MemberCount /\ result = Pending
  /\ \E p \in 1 .. Len(best) :
       /\ \A q \in 1 .. Len(best) :
            IF q < p THEN best[q].score < best[p].score
                     ELSE best[q].score =< best[p].score
       /\ result' = best[p]
  /\ UNCHANGED <<gain, member, best, following, entry, index>>

Next == Pass \/ Insert \/ Replace \/ NextMember \/ Return

Spec == Init /\ [][Next]_vars

------------------------------------------------------------------------------
\* Properties

\* After k members, best holds, for exactly the sets of slots that the first k
\* members can be matched to, one matching of the greatest total, with that total;
\* and the mapping returned is one-to-one, uses no pair under the threshold, and no
\* other such mapping has a greater sum.
AssignmentOptimal ==
  /\ (entry = 1 /\ index = 1) =>
       \A used \in SUBSET Slots :
         LET ms   == Matchings(1 .. member - 1, used, gain)
             held == {p \in 1 .. Len(best) : best[p].used = used}
         IN  /\ Cardinality(held) = (IF ms = {} THEN 0 ELSE 1)
             /\ \A p \in held :
                  /\ best[p].mapping \in ms
                  /\ best[p].score = Total(best[p].mapping, gain)
                  /\ \A f \in ms : Total(f, gain) =< best[p].score
  /\ result # Pending => result.mapping \in BestMatchings(Members, Slots, gain)
==============================================================================
