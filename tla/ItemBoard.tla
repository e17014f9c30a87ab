------------------------------ MODULE ItemBoard ------------------------------
(***************************************************************************)
(* What the marketing queue promises to those who read it, with no file,   *)
(* slot or process in sight: an item goes forward, from its line to its    *)
(* draft to the record of its post.  Nothing is shown to the public that   *)
(* was not drafted, and nothing is recorded that was not shown.            *)
(***************************************************************************)
CONSTANTS Item

VARIABLES
  place,   \* where each item is
  shown    \* the items the public has seen

boardVars == <<place, shown>>

\* A line becomes a draft.
Draft(i) ==
  /\ place[i] = "backlog"
  /\ place' = [place EXCEPT ![i] = "drafted"]
  /\ UNCHANGED shown

\* A draft is shown; somebody may record it before it is shown again.
Show(i) ==
  /\ place[i] \in {"drafted", "posted"}
  /\ shown' = shown \cup {i}
  /\ UNCHANGED place

\* A draft that was shown is recorded.
Record(i) ==
  /\ place[i] = "drafted" /\ i \in shown
  /\ place' = [place EXCEPT ![i] = "posted"]
  /\ UNCHANGED shown

Init ==
  /\ place \in [Item -> {"absent", "backlog", "drafted"}]
  /\ shown = {}

Next == \E i \in Item : Draft(i) \/ Show(i) \/ Record(i)

Spec == Init /\ [][Next]_boardVars

=============================================================================
