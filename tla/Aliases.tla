------------------------------ MODULE Aliases -------------------------------
(***************************************************************************)
(* The services of a command (pgctl/cli.py: services, _expand_aliases,     *)
(* all_services; pgctl/functions.py: unique).  Each name of the request is *)
(* expanded with a stack of its own; a name that the stack yields twice    *)
(* counts as circular, whether it contains itself or not.                  *)
(***************************************************************************)
EXTENDS Config, FiniteSets

CONSTANT
  Playground      \* the directories of the playground, sorted

VARIABLES
  progress,   \* "expand", "expanded", "circular" or "crashed"
  aliases,    \* pgconf['aliases'], a function from names to lists of names
  request,    \* pgconf['services']
  pending,    \* what of it is left to expand
  stack,      \* the locals of _expand_aliases
  visited,
  found       \* the services so far, with repetitions

aliasVars == <<progress, aliases, request, pending, stack, visited, found>>

\* Mutant: a service that is named twice is changed twice.
UniqueNot(names) == names

\* unique(): the first one wins.
Firsts(names) == {i \in DOMAIN names : \A j \in 1..(i - 1) : names[j] # names[i]}
FirstsUpTo(names, i) == {j \in Firsts(names) : j <= i}
Unique(names) ==
  [n \in 1..Cardinality(Firsts(names)) |->
     names[CHOOSE i \in Firsts(names) : Cardinality(FirstsUpTo(names, i)) = n]]

\* self.services, once they are expanded.
Services == Unique(found)

\* The next name of the request.
BeginName ==
  /\ progress = "expand" /\ stack = <<>> /\ pending # <<>>
  /\ stack' = <<Head(pending)>> /\ pending' = Tail(pending) /\ visited' = {}
  /\ UNCHANGED <<progress, aliases, request, found>>

\* The name that the stack yields; what it leaves.
Name == Last(stack)
Rest == Front(stack)
Popping == progress = "expand" /\ stack # <<>>

PopAll ==
  /\ Popping /\ Name = ALL_SERVICES
  /\ found' = found \o Playground /\ stack' = Rest
  /\ UNCHANGED <<progress, aliases, request, pending, visited>>

\* Mutant: a name that was visited is passed over.
PopVisitedSkipped ==
  /\ Popping /\ Name # ALL_SERVICES /\ Name \in visited
  /\ stack' = Rest
  /\ UNCHANGED <<progress, aliases, request, pending, visited, found>>

\* CircularAliases.
PopVisited ==
  /\ Popping /\ Name # ALL_SERVICES /\ Name \in visited
  /\ progress' = "circular"
  /\ UNCHANGED <<aliases, request, pending, stack, visited, found>>

\* Mutant: the stack is given the names in their own order.
PopAliasUnreversed ==
  /\ Popping /\ Name # ALL_SERVICES /\ Name \notin visited
  /\ IsMap(aliases) /\ Name \in DOMAIN aliases.map
  /\ visited' = visited \cup {Name}
  /\ stack' = Rest \o aliases.map[Name]
  /\ UNCHANGED <<progress, aliases, request, pending, found>>

PopAlias ==
  /\ Popping /\ Name # ALL_SERVICES /\ Name \notin visited
  /\ IsMap(aliases) /\ Name \in DOMAIN aliases.map
  /\ visited' = visited \cup {Name}
  /\ stack' = Rest \o Reverse(aliases.map[Name])
  /\ UNCHANGED <<progress, aliases, request, pending, found>>

PopService ==
  /\ Popping /\ Name # ALL_SERVICES /\ Name \notin visited
  /\ IsMap(aliases) /\ Name \notin DOMAIN aliases.map
  /\ visited' = visited \cup {Name}
  /\ found' = Append(found, Name) /\ stack' = Rest
  /\ UNCHANGED <<progress, aliases, request, pending>>

\* `aliases:` with nothing behind it is None: TypeError.
PopUnreadable ==
  /\ Popping /\ Name # ALL_SERVICES /\ Name \notin visited
  /\ ~IsMap(aliases)
  /\ progress' = "crashed"
  /\ UNCHANGED <<aliases, request, pending, stack, visited, found>>

Expanded ==
  /\ progress = "expand" /\ stack = <<>> /\ pending = <<>>
  /\ progress' = "expanded"
  /\ UNCHANGED <<aliases, request, pending, stack, visited, found>>

Expanding ==
  \/ BeginName \/ Expanded
  \/ PopAll \/ PopVisited \/ PopAlias \/ PopService \/ PopUnreadable

\* The expansion of `names` begins.
Expand(names, as) ==
  /\ progress' = "expand" /\ aliases' = as /\ request' = names /\ pending' = names
  /\ stack' = <<>> /\ visited' = {} /\ found' = <<>>

NoAliases == [is |-> "none"]
AliasInit ==
  /\ progress = "expand" /\ aliases = NoAliases /\ request = <<>> /\ pending = <<>>
  /\ stack = <<>> /\ visited = {} /\ found = <<>>

(***************************************************************************)
(* Property.                                                               *)
(***************************************************************************)
AliasNames == (IF IsMap(aliases) THEN DOMAIN aliases.map ELSE {}) \ {ALL_SERVICES}
ListedNames == UNION {ToSet(aliases.map[n]) : n \in AliasNames}

\* The names that a name leads to: the least set that has it and, with an alias,
\* all that the alias lists.
HasAllListed(C) == \A n \in C \cap AliasNames : ToSet(aliases.map[n]) \subseteq C
LeadsTo(name) ==
  LET all == ListedNames \cup {name}
  IN  {t \in all : \A C \in SUBSET all : name \in C /\ HasAllListed(C) => t \in C}

\* Somewhere on its ways a name is met again: a circle, but also a diamond, or a
\* name that an alias lists twice.
Repeats(name) ==
  LET ways == LeadsTo(name) \cap AliasNames
  IN  \/ \E n \in ways : name \in ToSet(aliases.map[n])
      \/ \E n, m \in ways : \E i \in DOMAIN aliases.map[n], j \in DOMAIN aliases.map[m] :
           /\ <<n, i>> # <<m, j>>
           /\ aliases.map[n][i] = aliases.map[m][j] /\ aliases.map[n][i] # ALL_SERVICES

\* The services that it stands for.
Yields(name) ==
  (LeadsTo(name) \ (AliasNames \cup {ALL_SERVICES}))
    \cup (IF ALL_SERVICES \in LeadsTo(name) THEN ToSet(Playground) ELSE {})

\* A request is refused if and only if one of its names meets a name again
\* ("Circular aliases! Visited twice during alias expansion", cli.py:695); else
\* the command gets all services that its names stand for, and no other.
ExpandsToLeaves ==
  /\ progress = "circular" => \E n \in ToSet(request) : Repeats(n)
  /\ progress = "expanded" =>
       /\ \A n \in ToSet(request) : ~Repeats(n)
       /\ ToSet(Services) = UNION {Yields(n) : n \in ToSet(request)}

(***************************************************************************)
(* Why ExpandsToLeaves holds: an inductive invariant.                      *)
(***************************************************************************)
\* Where a name may come from on the ways of r: the request, or a place in the
\* list of an alias that was visited.
Origins(r, V) ==
  {<<r, 0>>} \cup UNION {{<<n, i>> : i \in DOMAIN aliases.map[n]} : n \in V \cap AliasNames}
Origin(r, o) == IF o[2] = 0 THEN r ELSE aliases.map[o[1]][o[2]]

\* Every visited name and every name in the stack has an origin of its own, and
\* all origins are taken, but for those of ALL_SERVICES that were popped.
Tracks(r, V, S, first, from) ==
  /\ \A n \in V : Origin(r, first[n]) = n
  /\ \A i \in DOMAIN S : Origin(r, from[i]) = S[i]
  /\ \A i, j \in DOMAIN S : from[i] = from[j] => i = j
  /\ \A i \in DOMAIN S, n \in V : from[i] # first[n]
  /\ \A o \in Origins(r, V) :
       \/ \E n \in V : o = first[n]
       \/ \E i \in DOMAIN S : o = from[i]
       \/ Origin(r, o) = ALL_SERVICES /\ ToSet(Playground) \subseteq ToSet(found)

\* Name r is being expanded.
ExpandingName(r) ==
  /\ IsList(stack) /\ ALL_SERVICES \notin visited
  /\ visited \cup ToSet(stack) \subseteq LeadsTo(r)
  /\ visited \ AliasNames \subseteq ToSet(found)
  /\ \E first \in [visited -> Origins(r, visited)],
        from \in [DOMAIN stack -> Origins(r, visited)] :
       Tracks(r, visited, stack, first, from)

Settled(r) == ~Repeats(r) /\ Yields(r) \subseteq ToSet(found)

\* The k-th name of the request is being expanded, those before it are settled.
AtName(k) ==
  /\ pending = SubSeq(request, k + 1, Len(request))
  /\ \A i \in 1..(k - 1) : Settled(request[i])
  /\ IF k = 0 THEN stack = <<>> ELSE ExpandingName(request[k])

Listing == \A n \in AliasNames : IsList(aliases.map[n])
FoundIsMeant == \A x \in ToSet(found) : \E n \in ToSet(request) : x \in Yields(n)

ExpansionInv ==
  /\ IsList(request) /\ Listing /\ FoundIsMeant
  /\ \E k \in 0..Len(request) : AtName(k)
  /\ progress = "circular" => \E n \in ToSet(request) : Repeats(n)
  /\ progress = "expanded" => stack = <<>> /\ pending = <<>>
=============================================================================
