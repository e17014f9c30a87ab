----------------------------- MODULE MCPrHandle -----------------------------
(* Instances of PrHandle for TLC.                                           *)
EXTENDS PrHandle, TLC

CONSTANTS t1, t2, t3, e1, e2, e3, e4

ThreeThreads == {t1, t2, t3}
TwoThreads == {t1, t2}
FourEvents == {e1, e2, e3, e4}
ThreeEvents == {e1, e2, e3}

HandleSymmetry == Permutations(Thread) \cup Permutations(Event)
=============================================================================
