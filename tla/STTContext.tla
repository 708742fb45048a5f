------------------------------ MODULE STTContext ------------------------------
(***************************************************************************)
(* generate_stt_context: a document for the speech recogniser, written by  *)
(* a model from the meeting being recorded and from summaries of past ones *)
(* that the model selects, and cut to a length.  (stt/context.py)         *)
(*                                                                         *)
(* The Backend and the model are external.  A text is the sequence of the  *)
(* lengths of its lines, of which blank ones have none.                    *)
(***************************************************************************)
EXTENDS Integers, SequencesExt

CONSTANTS
  Meetings, Current,       \* the meeting being recorded is one of Meetings
  Texts,                   \* the model may write, stripped
  MAX_MEETING_PAGES,       \* (3)
  MAX_SELECTED_MEETINGS,   \* (3)
  MAX_CONTEXT_LENGTH       \* (800)

VARIABLES
  at,          \* what the function waits for
  has_info,    \* whether there is a title, a purpose, a note or a participant
  pages,       \* requested so far
  candidates,
  selection,   \* of the model
  meeting_ids, \* accepted, and not read yet
  summaries,   \* the meetings whose summaries go into the document
  written,     \* by the model
  context,     \* what is returned
  listed       \* history: the meetings and their status in the pages

vars == <<at, has_info, pages, candidates, selection, meeting_ids, summaries,
          written, context, listed>>

\* Without a team nothing is looked up.
Init ==
  /\ at \in {"list", "write"} /\ has_info \in BOOLEAN
  /\ pages = 0 /\ candidates = {} /\ listed = {}
  /\ selection = << >> /\ meeting_ids = << >> /\ summaries = << >>
  /\ written = << >> /\ context = << >>

\* _list_completed_meetings: the pages of the team's meetings.
ListPage ==
  /\ at = "list"
  /\ \E page \in SUBSET (Meetings \X {"COMPLETED", "IN_PROGRESS"}), has_next \in BOOLEAN :
       /\ listed' = listed \cup page
       /\ candidates' = candidates \cup
            {m \in Meetings \ {Current} : <<m, "COMPLETED">> \in page}
       /\ at' = CASE has_next /\ pages + 1 < MAX_MEETING_PAGES -> "list"
                  [] candidates' = {} -> "write"
                  [] OTHER -> "select"
  /\ pages' = pages + 1
  /\ UNCHANGED <<has_info, selection, meeting_ids, summaries, written, context>>

\* A slip: what the model selects is read whether it was listed or not.
AcceptedUnseen(seq, set) ==
  FoldLeft(LAMBDA kept, m : IF Contains(kept, m) THEN kept ELSE Append(kept, m),
           << >>, seq)

\* The members of a sequence that are in a set, each where it occurs first.
Accepted(seq, set) ==
  LET kept[n \in 0 .. Len(seq)] ==
        IF n = 0 THEN << >>
        ELSE IF seq[n] \in set /\ ~Contains(kept[n - 1], seq[n])
        THEN Append(kept[n - 1], seq[n])
        ELSE kept[n - 1]
  IN kept[Len(seq)]

Select ==
  /\ at = "select"
  /\ selection' \in BoundedSeq(Meetings, MAX_SELECTED_MEETINGS)
  /\ meeting_ids' = Accepted(selection', candidates)
  /\ at' = IF meeting_ids' = << >> THEN "write" ELSE "read"
  /\ UNCHANGED <<has_info, pages, candidates, summaries, written, context, listed>>

\* Of an accepted meeting, a summary that is completed and has content.
ReadSummary ==
  /\ at = "read"
  /\ \/ summaries' = Append(summaries, Head(meeting_ids))
     \/ UNCHANGED summaries
  /\ meeting_ids' = Tail(meeting_ids)
  /\ at' = IF meeting_ids' = << >> THEN "write" ELSE "read"
  /\ UNCHANGED <<has_info, pages, candidates, selection, written, context, listed>>

-----------------------------------------------------------------------------
\* The length of a text, with the ends of its lines.
Size(text) == SumFunction(text) + Len(text) - 1

\* How many lines have their ends within the first MAX_CONTEXT_LENGTH characters.
Ended(text) ==
  Cardinality({k \in 1 .. Len(text) - 1 :
                 Size(SubSeq(text, 1, k)) < MAX_CONTEXT_LENGTH})

\* rstrip: what is left up to the last line that is not blank.
Stripped(text) == SubSeq(text, 1, SelectLastInSeq(text, LAMBDA length : length > 0))

\* A slip: the last line is cut in its middle.
CutAnywhere(text) ==
  IF Size(text) =< MAX_CONTEXT_LENGTH THEN text
  ELSE Append(SubSeq(text, 1, Ended(text)), 1)

\* What follows the last end of a line within the limit is dropped; a single line
\* is cut.
Cut(text) ==
  IF Size(text) =< MAX_CONTEXT_LENGTH THEN text
  ELSE IF Ended(text) = 0 THEN <<MAX_CONTEXT_LENGTH>>
  ELSE Stripped(SubSeq(text, 1, Ended(text)))

Write ==
  /\ at = "write" /\ at' = "returned"
  /\ IF ~has_info /\ summaries = << >>
     THEN UNCHANGED <<written, context>>
     ELSE /\ written' \in Texts
          /\ context' = Cut(written')
  /\ UNCHANGED <<has_info, pages, candidates, selection, meeting_ids, summaries,
                 listed>>

\* A request to the Backend or to the model fails; the caller learns of it.
Fails ==
  /\ at # "returned" /\ at # "failed"
  /\ at = "write" => has_info \/ summaries # << >>
  /\ at' = "failed"
  /\ UNCHANGED <<has_info, pages, candidates, selection, meeting_ids, summaries,
                 written, context, listed>>

Next == ListPage \/ Select \/ ReadSummary \/ Write \/ Fails

Spec == Init /\ [][Next]_vars
-----------------------------------------------------------------------------
\* Properties

\* The selection names m before it names o for the first time.
NamedBefore(m, o) ==
  \E n \in DOMAIN selection :
    selection[n] = m /\ \A p \in 1 .. n : selection[p] # o

\* Whatever the pages hold and the model selects, repeated and invented meetings
\* included, the document is written from other meetings that a page listed as
\* completed and the model selected, each once and in the order of the
\* selection; and without any material nothing is written.
ContextSources ==
  /\ \A m \in ToSet(summaries) :
       m # Current /\ <<m, "COMPLETED">> \in listed
  /\ \A j \in DOMAIN summaries :
       /\ Contains(selection, summaries[j])
       /\ \A i \in 1 .. j - 1 : NamedBefore(summaries[i], summaries[j])
  /\ written # << >> => has_info \/ summaries # << >>

\* A context fits its limit, and is the whole of what was written or a number of
\* its first lines, none of them cut: as many as there are before the one that
\* reaches the limit.  Only a first line that is too long by itself is cut.
ContextLines ==
  at = "returned" /\ written # << >> =>
    /\ Size(context) =< MAX_CONTEXT_LENGTH
    /\ \/ IsPrefix(context, written)
       \/ context = <<MAX_CONTEXT_LENGTH>> /\ written[1] > MAX_CONTEXT_LENGTH
    /\ \A n \in 1 .. Len(written) :
         LET lines == SubSeq(written, 1, n)
         IN  Size(lines) < MAX_CONTEXT_LENGTH \/ Size(written) =< MAX_CONTEXT_LENGTH
               => IsPrefix(Stripped(lines), context)

\* What the test of the limit says (tests/test_stt_context.py, "800자 안의 마지막
\* 완전한 줄까지만": up to the last complete line within 800 characters): a line
\* that ends exactly at the limit is kept.
LastCompleteLineKept ==
  at = "returned" =>
    \A n \in 1 .. Len(written) :
      LET lines == SubSeq(written, 1, n)
      IN  Size(lines) =< MAX_CONTEXT_LENGTH => IsPrefix(Stripped(lines), context)
==============================================================================
