\* stop b while a is between two runs of its run script.
SPECIFICATION Spec
CONSTANTS
  a = a
  b = b
  NoOne = NoOne
  Services = {a, b}
  Polled = {}
  Tracing = TRUE
  Strays = {}
  Faults = {}
  Commands = {c1}
  Jobs = {"stop"}
  Requests <- MCEach
  Forces = {TRUE}
  Reuse = FALSE
  InitiallyUp <- MCUp
INVARIANT HookOnlyWhenStopped
CHECK_DEADLOCK FALSE
