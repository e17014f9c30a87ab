----------------------------- MODULE MCIssueFixer -----------------------------
(* Instances of IssueFixer for TLC.                                         *)
EXTENDS IssueFixer, TLC

CONSTANTS i1, codex, claude

OneIssue == {i1}
CodexOnly == {codex}
=============================================================================
