\* A descendant that ignores SIGTERM outlives the cleanup.
CONSTANTS
  r1 = r1
  leader = leader
  d1 = d1
  d2 = d2
  Runs <- MCRuns
  Leader = leader
  Descendants <- OneKid
  PipeHolders <- Nobody
  TermIgnorers <- OneKid
  WaitNeedsEof = FALSE
  Answers <- Results
SPECIFICATION Spec
CHECK_DEADLOCK FALSE
INVARIANT GroupGoneAfterCleanup
