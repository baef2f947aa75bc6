\* A start of a polled service while it is being stopped.
SPECIFICATION Spec
CONSTANTS
  a = a
  b = b
  NoOne = NoOne
  Services = {a}
  Polled = {a}
  Tracing = TRUE
  Strays = {}
  Faults = {"crash"}
  Commands = {c1, c2}
  Jobs = {"start", "stop"}
  Requests <- MCOne
  Forces = {TRUE}
  Reuse = FALSE
  InitiallyUp <- MCUp
PROPERTY AcceptedIsNotStopping
CHECK_DEADLOCK FALSE
