\* One life of pgctl-poll-ready; waits shorter and longer than the timeout.
SPECIFICATION FairSpec
CONSTANTS
  Timeouts = {0, 1, 3}
  PollDowns = {1, 2, 4}
  CheckTime = 2
INVARIANT PollTypeOK
INVARIANT QuitOnlyIfDown
INVARIANT RestartAfterSilence
INVARIANT HeedsDown
INVARIANT PollInv
PROPERTY DownHeeded
PROPERTY ActsOnFailure
CHECK_DEADLOCK FALSE
