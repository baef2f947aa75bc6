\* Overlapping stops of one or both services of a playground that is up, from a
\* shell or by a process of one of the services.
SPECIFICATION Spec
CONSTANTS
  a = a
  b = b
  NoOne = NoOne
  Services = {a, b}
  Polled = {}
  Tracing = TRUE
  Strays = {}
  Faults = {"nested"}
  Commands = {c1, c2}
  Jobs = {"stop"}
  Requests <- MCSorted
  Forces = {TRUE}
  Reuse = FALSE
  InitiallyUp <- MCUp
INVARIANT HookNotLost
INVARIANT HookInv
INVARIANT SomeoneProceeds
INVARIANT NoCircle
INVARIANT StatusIsRead
SYMMETRY MCSymmetry
CHECK_DEADLOCK FALSE
