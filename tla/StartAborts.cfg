\* A start whose s6-supervise is slow to open its control FIFO.
SPECIFICATION Spec
CONSTANTS
  a = a
  b = b
  NoOne = NoOne
  Services = {a}
  Polled = {}
  Tracing = TRUE
  Strays = {}
  Faults = {}
  Commands = {c1}
  Jobs = {"start"}
  Requests <- MCOne
  Forces = {TRUE}
  Reuse = FALSE
  InitiallyUp <- MCDown
INVARIANT RunawayOnlyWithNoForce
CHECK_DEADLOCK FALSE
