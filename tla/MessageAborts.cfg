\* A start of two services: one is up and never ready, the message script of the other fails.
SPECIFICATION Spec
CONSTANTS
  a = a
  b = b
  NoOne = NoOne
  Services = {a, b}
  Polled = {a}
  Tracing = TRUE
  Strays = {}
  Faults = {"msg"}
  Commands = {c1}
  Jobs = {"start"}
  Requests <- MCBoth
  Forces = {TRUE}
  Reuse = FALSE
  InitiallyUp <- MCDown
PROPERTY FailedAreNotUp
CHECK_DEADLOCK FALSE
