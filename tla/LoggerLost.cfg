\* A start between the two halves of a stop.
SPECIFICATION Spec
CONSTANTS
  a = a
  b = b
  NoOne = NoOne
  Services = {a}
  Polled = {}
  Tracing = TRUE
  Strays = {}
  Faults = {}
  Commands = {c1, c2}
  Jobs = {"start", "stop"}
  Requests <- MCOne
  Forces = {TRUE}
  Reuse = FALSE
  InitiallyUp <- MCUp
INVARIANT UpIsLogged
CHECK_DEADLOCK FALSE
