------------------------------- MODULE Outbox -------------------------------
(***************************************************************************)
(* What publishing a run promises about the public, with no worker, batch  *)
(* or container in sight: at-least-once delivery by receipts.  A receipt   *)
(* stands for something that is public, what has a receipt is not posted   *)
(* again, and a run that is closed neither posts nor confirms.             *)
(***************************************************************************)
EXTENDS Naturals

CONSTANTS Run, Key

VARIABLES
  posts,      \* how often each run has posted each key; 2 stands for more
  receipts,   \* the keys each run has a receipt of
  closed      \* the runs that have a verdict

outboxVars == <<posts, receipts, closed>>

\* The key is posted: for the first time, or because no receipt tells it was.
Post(r, k) ==
  /\ r \notin closed /\ k \notin receipts[r]
  /\ \E n \in {1, 2} : posts' = [posts EXCEPT ![r][k] = n]
  /\ UNCHANGED <<receipts, closed>>

\* The post is confirmed.
Confirm(r, k) ==
  /\ r \notin closed /\ posts[r][k] > 0
  /\ receipts' = [receipts EXCEPT ![r] = @ \cup {k}]
  /\ UNCHANGED <<posts, closed>>

Close(r) ==
  /\ closed' = closed \cup {r}
  /\ UNCHANGED <<posts, receipts>>

Init ==
  /\ posts = [r \in Run |-> [k \in Key |-> 0]]
  /\ receipts = [r \in Run |-> {}]
  /\ closed = {}

Next ==
  \E r \in Run : Close(r) \/ \E k \in Key : Post(r, k) \/ Confirm(r, k)

Spec == Init /\ [][Next]_outboxVars

=============================================================================
