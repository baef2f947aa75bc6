\* A service with a ready script, which restarts itself by pgctl-poll-ready
\* while it is started and stopped; no environment tracing, failing hooks.
SPECIFICATION Spec
CONSTANTS
  a = a
  b = b
  NoOne = NoOne
  Services = {a}
  Polled = {a}
  Tracing = FALSE
  Strays = {"sub", "closed"}
  Faults = {"poll", "hook"}
  Commands = {c1, c2}
  Jobs = {"start", "stop"}
  Requests <- MCOne
  Forces = {TRUE}
  Reuse = FALSE
  InitiallyUp <- MCUp
INVARIANT SafetyInv
INVARIANT StoppedIsDown
PROPERTY StartsUnderTestedFlock
SYMMETRY MCSymmetry
CHECK_DEADLOCK FALSE
