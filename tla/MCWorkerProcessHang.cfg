\* A descendant that holds a pipe outlives the leader: the timeout is never answered.
CONSTANTS
  r1 = r1
  leader = leader
  d1 = d1
  d2 = d2
  Runs <- MCRuns
  Leader = leader
  Descendants <- OneKid
  PipeHolders <- OneKid
  TermIgnorers <- Nobody
  WaitNeedsEof = FALSE
  Answers <- Results
SPECIFICATION TimedSpec
CHECK_DEADLOCK FALSE
PROPERTY TimeoutEnforced
