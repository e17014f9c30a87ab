----------------------------- MODULE MCRunStore -----------------------------
(* Instances of RunStore for TLC.                                          *)
EXTENDS RunStore

CONSTANTS w1, w2, r1, r2, d1

TwoWorkers == {w1, w2}
TwoRuns == {r1, r2}
OneDelivery == {d1}
=============================================================================
