CONSTANTS
  i1 = i1  codex = codex  claude = claude
  Issue <- OneIssue
  MaxEdits = 1
  MaxCycle = 1
  MaxCrashes = 1
  MaxActs = 2
  MaxFailures = 2
  MaxConcurrent = 1
  Continuations = 1
  MaxRevisions = 1
  Primary = codex
  Fallback = claude
  NoProvider = NoProvider
  Codex <- CodexOnly
  Planning = TRUE
  Handoff = TRUE
  PrePr = TRUE
SPECIFICATION Spec
PROPERTIES PrIsVerified
CHECK_DEADLOCK FALSE
