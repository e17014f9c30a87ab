------------------------------ MODULE RunLease ------------------------------
(***************************************************************************)
(* What claiming a run promises to the workflows that call it, with no     *)
(* database, clock or process in sight.  A run is leased to one attempt    *)
(* after another; the holders are the attempts still at work.  An attempt  *)
(* over an attempt that has not let go makes the run contested, and the    *)
(* promises of a lease (one holder, final verdicts) are those of the runs  *)
(* that are not.                                                           *)
(***************************************************************************)
EXTENDS Naturals

CONSTANTS Run

VARIABLES
  status,      \* status[r]
  attempt,     \* attempt[r]: leases granted so far
  holders,     \* the attempts at work: [run, attempt]
  contested    \* the runs leased over a holder

leaseVars == <<status, attempt, holders, contested>>

FinalStatus == {"completed", "rejected"}
LeaseStatus == {"absent", "running", "waiting", "scheduled", "failed"}
                 \cup FinalStatus

HoldersOf(r) == {h \in holders : h.run = r}
Current(r) == [run |-> r, attempt |-> attempt[r]]

\* A new attempt takes the lease, never of a run with a final verdict.
Grant(r) ==
  /\ status[r] \notin FinalStatus
  /\ status' = [status EXCEPT ![r] = "running"]
  /\ attempt' = [attempt EXCEPT ![r] = @ + 1]
  /\ holders' = holders \cup {[run |-> r, attempt |-> attempt[r] + 1]}
  /\ contested' = IF HoldersOf(r) = {} THEN contested ELSE contested \cup {r}

\* A holder lets go, leaving the status it says.
Release(h, s) ==
  /\ h \in holders
  /\ holders' = holders \ {h}
  /\ status' = [status EXCEPT ![h.run] = s]
  /\ UNCHANGED <<attempt, contested>>

\* Holders are lost without a word.
Lose ==
  /\ holders' \in SUBSET holders
  /\ UNCHANGED <<status, attempt, contested>>

\* Running leases whose holder is lost are failed.
Expire(lost) ==
  /\ \A r \in lost : status[r] = "running" /\ Current(r) \notin holders
  /\ status' = [r \in Run |-> IF r \in lost THEN "failed" ELSE status[r]]
  /\ UNCHANGED <<attempt, holders, contested>>

\* At the start a run is unknown, or running for an attempt nobody holds.
Init ==
  /\ status \in [Run -> {"absent", "running"}]
  /\ attempt = [r \in Run |-> IF status[r] = "running" THEN 1 ELSE 0]
  /\ holders = {}
  /\ contested = {}

Next ==
  \/ \E r \in Run : Grant(r)
  \/ \E h \in holders, s \in LeaseStatus \ {"absent"} : Release(h, s)
  \/ Lose
  \/ \E lost \in SUBSET Run : Expire(lost)

Spec == Init /\ [][Next]_leaseVars

=============================================================================
