\* Two requests, one slot, a Sage process with a descendant that holds its pipes.
CONSTANTS
  q1 = q1
  q2 = q2
  leader = leader
  d1 = d1
  Requests <- Two
  Concurrency = 1
  Leader = leader
  Descendants <- PipeKid
  PipeHolders <- PipeKid
  TermIgnorers <- LeaderOnly
  WaitNeedsEof = FALSE
  Answers <- TwoAnswers
SPECIFICATION FairSpec
CHECK_DEADLOCK FALSE
INVARIANTS WorkersBounded HonestReply
PROPERTIES NoWorkForTheGone QueueSpec GoneIsCleared EveryRequestAnswered
