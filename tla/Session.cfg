\* One command: every alias graph on two aliases, every combination of the places
\* of options, and up to two services against the clock with their tails.
SPECIFICATION FairSpec
CONSTANTS
  ALL_SERVICES = "(all services)"
  Worlds <- MCWorlds
  Playground <- MCPlayground
  Timeouts = {1, 2, 3, 9}
  Limits = {1}
  CheckTime = 3
  ChangeTime = 1
  Poll = 1
  Horizon = 20
INVARIANT SessionTypeOK
INVARIANT OptionsInv
INVARIANT MergedByPriority
INVARIANT ExpandsToServices
INVARIANT ExpandsToLeaves
INVARIANT EndsInTime
INVARIANT TailsReaped
INVARIANT LoopInv
PROPERTY NotBeforeTime
PROPERTY LoopSpec
PROPERTY SessionEnds
CHECK_DEADLOCK FALSE
