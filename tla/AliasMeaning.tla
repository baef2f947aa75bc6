---------------------------- MODULE AliasMeaning -----------------------------
(***************************************************************************)
(* What aliases stand for, by a definition that is recursive and needs no  *)
(* stack; and that the expansion of module Aliases comes to just that.     *)
(***************************************************************************)
EXTENDS Aliases

Members(name) ==
  IF IsMap(aliases) /\ name \in DOMAIN aliases.map /\ name # ALL_SERVICES
  THEN aliases.map[name] ELSE <<>>

\* No path to a service is longer, unless it passes a name twice.
Depth == IF IsMap(aliases) THEN Cardinality(DOMAIN aliases.map) ELSE 0

\* The services that `name` simply expands to.
RECURSIVE Leaves(_, _)
Leaves(name, depth) ==
  IF name = ALL_SERVICES THEN Playground
  ELSE IF Members(name) = <<>>
       THEN IF name \in DOMAIN aliases.map THEN <<>> ELSE <<name>>
  ELSE IF depth = 0 THEN <<>>
  ELSE FlattenSeq([i \in DOMAIN Members(name) |-> Leaves(Members(name)[i], depth - 1)])

\* The order in which things occur first.
FirstAt(seq, x) == CHOOSE i \in DOMAIN seq : seq[i] = x /\ \A j \in 1..(i - 1) : seq[j] # x

\* Whatever the aliases, a command gets the services that its request stands for
\* in the order of their first mention, each once ("it simply expands to the list
\* of configured services", quickstart.rst:101), which is the order in which the
\* locks are taken.
ExpandsToServices ==
  progress = "expanded" =>
    LET all == FlattenSeq([i \in DOMAIN request |-> Leaves(request[i], Depth)])
    IN  /\ ToSet(Services) = ToSet(all)
        /\ \A i, j \in DOMAIN Services :
             i < j => FirstAt(all, Services[i]) < FirstAt(all, Services[j])
=============================================================================
