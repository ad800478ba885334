\* The leader and one descendant ignore SIGTERM; the descendant holds a pipe.
CONSTANTS
  r1 = r1
  leader = leader
  d1 = d1
  d2 = d2
  Runs <- MCRuns
  Leader = leader
  Descendants <- Both
  PipeHolders <- PipeKid
  TermIgnorers <- Deaf
  WaitNeedsEof = TRUE
  Answers <- Results
SPECIFICATION FairSpec
CHECK_DEADLOCK FALSE
INVARIANTS TypeOK NoLeaderLeft AnswerMatchesWorker NobodyEscapes KillIsFinal
PROPERTIES CompleteResponseWins RunReturns CancelledRunReturns
