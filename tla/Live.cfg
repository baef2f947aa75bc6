\* Commands of any kind, one after the other, forced or not, on a polled service whose s6-supervise may
\* be killed and whose children may escape, under fairness.
SPECIFICATION FairSpec
CONSTANTS
  a = a
  b = b
  NoOne = NoOne
  Services = {a}
  Polled = {a}
  Tracing = TRUE
  Strays = {"closed"}
  Faults = {"supkill", "msg"}
  Commands = {c1}
  Jobs = {"start", "stop", "restart", "debug"}
  Requests <- MCOne
  Forces = {TRUE, FALSE}
  Reuse = TRUE
  InitiallyUp <- MCUpOrDown
PROPERTY CommandEnds
INVARIANT FailedStartIsDown
INVARIANT FailedStartInv
INVARIANT StatusIsRead
CHECK_DEADLOCK FALSE
