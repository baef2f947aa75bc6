\* start a b while a is ready and b is down.
SPECIFICATION Spec
CONSTANTS
  a = a
  b = b
  NoOne = NoOne
  Services = {a, b}
  Polled = {}
  Tracing = TRUE
  Strays = {}
  Faults = {}
  Commands = {c1}
  Jobs = {"start"}
  Requests <- MCBoth
  Forces = {TRUE}
  Reuse = FALSE
  InitiallyUp <- MCFirstUp
PROPERTY StartSparesReady
CHECK_DEADLOCK FALSE
