\* Two commands of any kind for one service, debug among them, which takes no
\* .pgctl.lock; commands crash, s6-supervise is killed, and the service forks
\* children that close the inherited flock.
SPECIFICATION Spec
CONSTANTS
  a = a
  b = b
  NoOne = NoOne
  Services = {a}
  Polled = {}
  Tracing = TRUE
  Strays = {"closed"}
  Faults = {"crash", "supkill", "nested"}
  Commands = {c1, c2}
  Jobs = {"start", "stop", "restart", "debug"}
  Requests <- MCOne
  Forces = {TRUE}
  Reuse = FALSE
  InitiallyUp <- MCUpOrDown
INVARIANT OneInstance
INVARIANT ExclusiveManagement
INVARIANT StoppedIsDown
INVARIANT SafetyInv
PROPERTY KeepsServiceLock
SYMMETRY MCSymmetry
CHECK_DEADLOCK FALSE
