---------------------------- MODULE SessionProofs ----------------------------
(***************************************************************************)
(* A command that finds its options, expands its aliases and then changes  *)
(* its services implements the specification of module ChangeLoop, in      *)
(* which a loop just begins with some list: so all that is proved of loops *)
(* holds of commands.  And the stack by which it expands its aliases finds *)
(* the services that they lead to, and no other.                           *)
(***************************************************************************)
EXTENDS ConfigProofs, ChangeLoopProofs

(***************************************************************************)
(* unique()                                                                *)
(***************************************************************************)
\* The places of first occurrences are finitely many, and a place that comes
\* later has more of them up to it.
LEMMA Ranks ==
  ASSUME NEW S, NEW names \in Seq(S)
  PROVE  /\ IsFiniteSet(Firsts(names)) /\ Cardinality(Firsts(names)) \in Nat
         /\ Firsts(names) \subseteq 1..Len(names)
         /\ \A i \in Firsts(names) :
              Cardinality(FirstsUpTo(names, i)) \in 1..Cardinality(Firsts(names))
         /\ \A i, j \in Firsts(names) :
              i < j => Cardinality(FirstsUpTo(names, i)) < Cardinality(FirstsUpTo(names, j))
<1> DEFINE F == Firsts(names)
           U(i) == FirstsUpTo(names, i)
<1>1. Len(names) \in Nat /\ DOMAIN names = 1..Len(names)
  BY LenProperties
<1>2. F \subseteq 1..Len(names)
  BY <1>1 DEF Firsts
<1>3. IsFiniteSet(F)
  <2>1. IsFiniteSet(1..Len(names)) /\ F \in SUBSET (1..Len(names))
    BY <1>1, <1>2, FS_Interval
  <2> HIDE DEF F
  <2> QED
    BY <2>1, FS_Subset
<1>4. Cardinality(F) \in Nat
  BY <1>3, FS_CardinalityType
<1>5. \A i : U(i) \in SUBSET F
  BY DEF FirstsUpTo
<1>6. \A i : IsFiniteSet(U(i)) /\ Cardinality(U(i)) \in Nat /\ Cardinality(U(i)) <= Cardinality(F)
  <2> SUFFICES ASSUME NEW i
               PROVE  /\ IsFiniteSet(U(i)) /\ Cardinality(U(i)) \in Nat
                      /\ Cardinality(U(i)) <= Cardinality(F)
    OBVIOUS
  <2>1. U(i) \in SUBSET F
    BY <1>5
  <2> HIDE DEF F, U
  <2>2. IsFiniteSet(U(i)) /\ Cardinality(U(i)) <= Cardinality(F)
    BY <1>3, <2>1, FS_Subset
  <2> QED
    BY <2>2, FS_CardinalityType
<1>7. ASSUME NEW i \in F PROVE Cardinality(U(i)) # 0
  <2>1. i \in U(i)
    BY <1>1, <1>2, <1>7 DEF FirstsUpTo
  <2> HIDE DEF F, U
  <2> QED
    BY <1>6, <2>1, FS_EmptySet
<1>8. ASSUME NEW i \in F, NEW j \in F, i < j
      PROVE  Cardinality(U(i)) < Cardinality(U(j))
  <2>1. U(i) \in SUBSET U(j) /\ j \in U(j) /\ j \notin U(i)
    BY <1>1, <1>2, <1>8 DEF FirstsUpTo
  <2> HIDE DEF F, U
  <2>2. /\ Cardinality(U(i)) <= Cardinality(U(j))
        /\ Cardinality(U(j)) = Cardinality(U(i)) => U(j) = U(i)
    BY <1>6, <2>1, FS_Subset
  <2> QED
    BY <1>6, <2>1, <2>2
<1> QED
  BY <1>2, <1>3, <1>4, <1>6, <1>7, <1>8

\* unique() returns a list of the same elements, none of them twice.
LEMMA UniqueProperties ==
  ASSUME NEW S, NEW names \in Seq(S)
  PROVE  /\ Unique(names) \in Seq(ToSet(Unique(names)))
         /\ IsInjective(Unique(names))
         /\ ToSet(Unique(names)) = ToSet(names)
<1> DEFINE F == Firsts(names)
           n == Cardinality(F)
           rank == [i \in F |-> Cardinality(FirstsUpTo(names, i))]
           at(r) == CHOOSE i \in F : Cardinality(FirstsUpTo(names, i)) = r
<1>1. /\ IsFiniteSet(F) /\ n \in Nat /\ F \subseteq 1..Len(names) /\ rank \in [F -> 1..n]
      /\ \A i, j \in F : i < j => rank[i] < rank[j]
  BY Ranks
<1>2. Len(names) \in Nat /\ DOMAIN names = 1..Len(names)
  BY LenProperties
<1>3. rank \in Surjection(F, 1..n)
  <2> HIDE DEF F, n, rank
  <2>1. \A i, j \in F : i # j => rank[i] # rank[j]
    <3>1. SUFFICES ASSUME NEW i \in F, NEW j \in F, i # j PROVE rank[i] # rank[j]
      OBVIOUS
    <3>2. i \in Nat /\ j \in Nat /\ rank[i] \in Nat /\ rank[j] \in Nat
      BY <1>1, <1>2
    <3>3. i < j \/ j < i
      BY <3>1, <3>2
    <3> QED
      BY <1>1, <3>2, <3>3
  <2>2. rank \in Injection(F, 1..n)
    BY <1>1, <2>1 DEF Injection, IsInjective
  <2>3. IsFiniteSet(1..n) /\ Cardinality(1..n) = n
    BY <1>1, FS_Interval
  <2> QED
    BY <2>2, <2>3, FS_Injection DEF n
<1>4. \A r \in 1..n : at(r) \in F /\ rank[at(r)] = r
  <2> SUFFICES ASSUME NEW r \in 1..n PROVE at(r) \in F /\ rank[at(r)] = r
    OBVIOUS
  <2>1. \E i \in F : rank[i] = r
    <3> HIDE DEF F, n, rank
    <3> QED
      BY <1>3 DEF Surjection
  <2> QED
    BY <2>1
<1>5. \A i \in F : rank[i] \in 1..n /\ at(rank[i]) = i
  <2> SUFFICES ASSUME NEW i \in F PROVE rank[i] \in 1..n /\ at(rank[i]) = i
    OBVIOUS
  <2>1. rank[i] \in 1..n
    BY <1>1
  <2>2. at(rank[i]) \in F /\ rank[at(rank[i])] = rank[i]
    BY <1>4, <2>1
  <2> HIDE DEF F, n, rank, at
  <2>3. i \in Nat /\ at(rank[i]) \in Nat
    <3>1. F \subseteq Nat
      BY <1>1, <1>2
    <3> QED
      BY <2>2, <3>1
  <2>4. ~(at(rank[i]) < i) /\ ~(i < at(rank[i]))
    BY <1>1, <2>1, <2>2
  <2> QED
    BY <2>1, <2>3, <2>4
<1>6. PICK u : u = Unique(names)
  OBVIOUS
<1>7. DOMAIN u = 1..n /\ (\A r \in 1..n : u[r] = names[at(r)]) /\ u = [r \in 1..n |-> u[r]]
  BY <1>6 DEF Unique
<1>8. \A i \in F : i \in DOMAIN names /\ \A j \in 1..(i - 1) : names[j] # names[i]
  BY DEF Firsts
<1>9. u \in Seq(ToSet(u))
  <2> HIDE DEF F, n, at
  <2>1. u \in [1..n -> ToSet(u)]
    BY <1>7 DEF ToSet
  <2> QED
    BY <1>1, <2>1
<1>10. IsInjective(u)
  <2> HIDE DEF F, n, rank, at
  <2>1. SUFFICES ASSUME NEW p \in 1..n, NEW q \in 1..n, u[p] = u[q] PROVE p = q
    BY <1>7 DEF IsInjective
  <2>2. PICK i, j : i = at(p) /\ j = at(q)
    OBVIOUS
  <2>3. i \in F /\ j \in F /\ rank[i] = p /\ rank[j] = q /\ names[i] = names[j]
    BY <1>4, <1>7, <2>1, <2>2
  <2>4. i \in Nat \ {0} /\ j \in Nat \ {0}
    BY <1>1, <1>2, <2>3
  <2>5. ~(i < j) /\ ~(j < i)
    <3>1. i < j => i \in 1..(j - 1)
      BY <2>4
    <3>2. j < i => j \in 1..(i - 1)
      BY <2>4
    <3> QED
      BY <1>8, <2>3, <3>1, <3>2
  <2> QED
    BY <2>3, <2>4, <2>5
<1>11. ToSet(u) = ToSet(names)
  <2>1. ASSUME NEW x \in ToSet(u) PROVE x \in ToSet(names)
    <3> HIDE DEF F, n, rank, at
    <3>1. PICK r \in 1..n : x = u[r]
      BY <1>7, <2>1 DEF ToSet
    <3> QED
      BY <1>4, <1>7, <1>8, <3>1 DEF ToSet
  <2>2. ASSUME NEW x \in ToSet(names) PROVE x \in ToSet(u)
    <3> DEFINE I == {i \in 1..Len(names) : names[i] = x}
    <3>1. I \subseteq Nat /\ I # {}
      BY <1>2, <2>2 DEF ToSet
    <3>2. PICK i : i = Min(I)
      OBVIOUS
    <3>3. i \in I /\ \A k \in I : i <= k
      BY <3>1, <3>2, LeastNat
    <3>4. \A j \in 1..(i - 1) : names[j] # names[i]
      BY <1>2, <3>3
    <3>5. i \in F
      BY <1>2, <3>3, <3>4 DEF Firsts
    <3>6. rank[i] \in 1..n /\ u[rank[i]] = names[i]
      <4> HIDE DEF F, n, rank, at
      <4> QED
        BY <1>5, <1>7, <3>5
    <3> HIDE DEF F, n, rank, at
    <3> QED
      BY <1>7, <3>3, <3>6 DEF ToSet
  <2> QED
    BY <2>1, <2>2
<1> QED
  BY <1>6, <1>9, <1>10, <1>11

(***************************************************************************)
(* What one part of a command hands over to the next.                      *)
(***************************************************************************)
\* What the options say of the timeout, the services and the aliases is what some
\* place says.
LEMMA OptionsFound ==
  ASSUME OptionsInv, step = "combined"
  PROVE  /\ Result.timeout.one \in Timeouts /\ IsList(Result.services.one)
         /\ IsMap(Result.aliases) =>
              \A x \in DOMAIN Result.aliases.map : IsList(Result.aliases.map[x])
<1>1. world \in Worlds
  BY DEF OptionsInv
<1>2. PICK A, C, L : A = AppLayers /\ C = CliLayers /\ L = Layers(Merged(A), Merged(C))
  OBVIOUS
<1>3. AreDicts(L)
  BY <1>1, <1>2, AppAreDicts, CliAreDicts, MergedIsDict, LayersAreDicts
<1>4. Result = Merged(L)
  <2>1. merged = <<Merged(A), Merged(C)>> /\ Result = Merged(Layers(merged[1], merged[2]))
    BY <1>2, Combined DEF MergedByPriority
  <2> QED
    BY <1>2, <2>1
<1>5. {"timeout", "services", "aliases"} \subseteq DOMAIN Merged(L)
  <2>1. L[1] = Defaults /\ 1 \in 1..Len(L)
    BY <1>2 DEF Layers
  <2>2. {"timeout", "services", "aliases"} \subseteq DOMAIN Defaults
    BY DEF Defaults
  <2>3. {"timeout", "services", "aliases"} \subseteq SetBy(L, Len(L))
    BY <2>1, <2>2 DEF SetBy
  <2> QED
    BY <2>3 DEF Merged
<1>6. IsDict(Result)
  BY <1>3, <1>4, MergedIsDict
<1>7. {"timeout", "services", "aliases"} \subseteq DOMAIN Result
  BY <1>4, <1>5
<1>8. PICK d : d = Result
  OBVIOUS
<1>9. IsDict(d) /\ {"timeout", "services", "aliases"} \subseteq DOMAIN d
  BY <1>6, <1>7, <1>8
<1>10. /\ d.timeout.one \in Timeouts /\ IsList(d.services.one)
       /\ IsMap(d.aliases) => \A x \in DOMAIN d.aliases.map : IsList(d.aliases.map[x])
  BY <1>9 DEF IsDict, IsMap
<1> QED
  BY <1>8, <1>10

\* A queue of merge() has indices of the heap only, and so has its result.
LEMMA MergingTyped ==
  ASSUME NEW L, Merging(L)
  PROVE  /\ \A i \in DOMAIN queue : queue[i].into \in 0..Len(heap)
         /\ \A k \in DOMAIN result : result[k].is = "ref" => result[k].ref \in DOMAIN heap
<1>1. PICK m \in 0..Len(L) : MergedFirst(L, m)
  BY DEF Merging
<1>2. heap \in Seq(Range(heap)) /\ Len(heap) \in Nat /\ DOMAIN heap = 1..Len(heap)
  BY <1>1 DEF MergedFirst
<1>3. ASSUME NEW i \in DOMAIN queue PROVE queue[i].into \in 0..Len(heap)
  <2>1. CASE queue[i] = [into |-> 0, new |-> L[m + i]]
    BY <1>2, <2>1
  <2>2. CASE queue[i].into \in DOMAIN heap
    BY <1>2, <2>2
  <2> QED
    BY <1>1, <2>1, <2>2 DEF MergedFirst
<1> QED
  BY <1>1, <1>3 DEF MergedFirst

\* What the typing of a command comes to beside OptionsInv.
HandedOver ==
  /\ stage \in {"config", "aliases", "loop", "over"}
  /\ step \in {"files", "ambiguous", "app", "cli", "all", "combined"}
  /\ step \in {"files", "ambiguous"} => queue = <<>> /\ result = Empty
  /\ stage = "aliases" => options.timeout \in Timeouts
  /\ AliasTypeOK

\* It is kept by combined().
LEMMA CombiningTyped ==
  ASSUME HandedOver, ConfigStep
  PROVE  HandedOver'
<1>1. /\ stage = "config" /\ Combining
      /\ UNCHANGED <<stage, options>> /\ UNCHANGED <<progress, found>>
  BY DEF ConfigStep, sessionVars, aliasVars
<1>2. /\ step' \in {"files", "ambiguous", "app", "cli", "all", "combined"}
      /\ step' \in {"files", "ambiguous"} => queue' = <<>> /\ result' = Empty
  <2>1. CASE ReadFiles
    BY <2>1 DEF HandedOver, ReadFiles
  <2>2. CASE MergeStep
    BY <2>2 DEF HandedOver, MergeStep
  <2>3. CASE MergedApp \/ MergedCli \/ MergedAll
    BY <2>3 DEF MergedApp, MergedCli, MergedAll
  <2> QED
    BY <1>1, <2>1, <2>2, <2>3 DEF Combining
<1> QED
  BY <1>1, <1>2 DEF HandedOver, AliasTypeOK

\* A list is one of its own elements.
LEMMA OwnElements ==
  ASSUME NEW S, NEW q \in Seq(S)
  PROVE  q \in Seq(ToSet(q))
<1>1. Len(q) \in Nat /\ DOMAIN q = 1..Len(q) /\ q = [i \in 1..Len(q) |-> q[i]]
  BY LenProperties
<1>2. q \in [1..Len(q) -> ToSet(q)]
  BY <1>1 DEF ToSet
<1> QED
  BY <1>1, <1>2

\* It is kept by the expansion of aliases, whatever they say.
LEMMA ExpandingTyped ==
  ASSUME AliasTypeOK, Expanding
  PROVE  AliasTypeOK'
<1>1. found \in Seq(ToSet(found)) /\ Playground \in Seq(ToSet(Playground))
  BY SessionAssumption DEF AliasTypeOK
<1>2. CASE found' = found
  <2>1. progress' \in {"expand", "expanded", "circular", "crashed"}
    BY DEF AliasTypeOK, Expanding, BeginName, Expanded, PopAll, PopVisited, PopAlias,
           PopService, PopUnreadable
  <2> QED
    BY <1>2, <2>1 DEF AliasTypeOK
<1>3. CASE PopAll
  <2>1. found' = found \o Playground /\ progress' = progress
    BY <1>3 DEF PopAll
  <2>2. PICK S : S = ToSet(found) \cup ToSet(Playground)
    OBVIOUS
  <2>3. found \in Seq(S) /\ Playground \in Seq(S)
    BY <1>1, <2>2
  <2>4. found' \in Seq(S)
    BY <2>1, <2>3
  <2> QED
    BY <2>1, <2>4, OwnElements DEF AliasTypeOK
<1>4. CASE PopService
  <2>1. found' = Append(found, Name) /\ progress' = progress
    BY <1>4 DEF PopService
  <2>2. PICK S : S = ToSet(found) \cup {Name}
    OBVIOUS
  <2>3. found \in Seq(S) /\ Name \in S
    BY <1>1, <2>2
  <2>4. found' \in Seq(S)
    BY <2>1, <2>3
  <2> QED
    BY <2>1, <2>4, OwnElements DEF AliasTypeOK
<1> QED
  BY <1>2, <1>3, <1>4
     DEF Expanding, BeginName, Expanded, PopVisited, PopAlias, PopUnreadable

\* It is kept by every step of a command.
LEMMA StepTyped ==
  ASSUME OptionsInv, HandedOver, [Next]_vars
  PROVE  HandedOver'
<1>1. AliasTypeOK
  BY DEF HandedOver
<1>2. ASSUME UNCHANGED aliasVars PROVE AliasTypeOK'
  BY <1>1, <1>2 DEF AliasTypeOK, aliasVars
<1>3. ASSUME NEW names, NEW as, Expand(names, as) PROVE AliasTypeOK'
  <2>1. found' = <<>> /\ progress' = "expand"
    BY <1>3 DEF Expand
  <2> QED
    BY <2>1, OwnElements DEF AliasTypeOK
<1>4. ASSUME ForgetConfig
      PROVE  step' = "files" /\ queue' = <<>> /\ result' = Empty
  BY <1>4 DEF ForgetConfig
<1>5. CASE ConfigStep
  BY <1>5, CombiningTyped
<1>6. CASE RaiseAmbiguous
  <2>1. stage' = "over" /\ ForgetConfig /\ UNCHANGED aliasVars
    BY <1>6 DEF RaiseAmbiguous, End
  <2> QED
    BY <1>2, <1>4, <2>1 DEF HandedOver
<1>7. CASE BeginAliases
  <2>1. /\ step = "combined" /\ stage' = "aliases" /\ ForgetConfig
        /\ options' = [timeout |-> Result.timeout.one, no_force |-> Result.no_force.one]
        /\ Expand(Result.services.one, Result.aliases)
    BY <1>7 DEF BeginAliases
  <2>2. options'.timeout \in Timeouts
    BY <2>1, OptionsFound
  <2> QED
    BY <1>3, <1>4, <2>1, <2>2 DEF HandedOver
<1>8. CASE AliasStep
  <2>1. UNCHANGED <<sessionVars, configVars>> /\ AliasTypeOK'
    BY <1>1, <1>8, ExpandingTyped DEF AliasStep
  <2> QED
    BY <2>1 DEF HandedOver, sessionVars, configVars
<1>9. CASE RaiseAlias \/ DoNothing \/ BeginChange
  <2>1. stage' \in {"over", "loop"} /\ ForgetAliases /\ UNCHANGED configVars
    BY <1>9 DEF RaiseAlias, DoNothing, BeginChange, End
  <2>2. AliasTypeOK'
    BY <1>3, <2>1 DEF ForgetAliases
  <2> QED
    BY <2>1, <2>2 DEF HandedOver, configVars
<1>10. CASE LoopStep \/ EndChange \/ Disturb \/ UNCHANGED vars
  <2>1. /\ UNCHANGED aliasVars /\ UNCHANGED configVars
        /\ UNCHANGED sessionVars \/ stage' = "over"
    BY <1>10 DEF LoopStep, EndChange, Disturb, End, vars
  <2>2. AliasTypeOK'
    BY <1>2, <2>1
  <2> QED
    BY <2>1, <2>2 DEF HandedOver, sessionVars, configVars
<1> QED
  BY <1>5, <1>6, <1>7, <1>8, <1>9, <1>10 DEF Next, Advance

\* So it always holds.
LEMMA HandsOver == Spec => []HandedOver
<1>1. Init => HandedOver
  <2> SUFFICES ASSUME Init PROVE HandedOver
    OBVIOUS
  <2>1. /\ stage = "config" /\ step = "files" /\ queue = <<>> /\ result = Empty
        /\ progress = "expand" /\ found = <<>>
    BY DEF Init, ConfigInit, AliasInit
  <2>2. AliasTypeOK
    BY <2>1, OwnElements DEF AliasTypeOK
  <2> QED
    BY <2>1, <2>2 DEF HandedOver
<1>2. OptionsInv /\ HandedOver /\ [Next]_vars => HandedOver'
  BY StepTyped
<1> QED
  BY <1>1, <1>2, OptionsOnce, PTL DEF Spec

(***************************************************************************)
(* The expansion of aliases.                                               *)
(***************************************************************************)
\* The names that a name leads to have the name, have all that their aliases
\* list, and are in every other set that does.
LEMMA LeastSet ==
  ASSUME NEW r
  PROVE  /\ r \in LeadsTo(r) /\ HasAllListed(LeadsTo(r))
         /\ \A C : r \in C /\ HasAllListed(C) => LeadsTo(r) \subseteq C
<1> DEFINE all == ListedNames \cup {r}
           Kept(t) == \A C \in SUBSET all : r \in C /\ HasAllListed(C) => t \in C
<1>1. LeadsTo(r) = {t \in all : Kept(t)}
  BY DEF LeadsTo
<1>2. \A n \in AliasNames : ToSet(aliases.map[n]) \subseteq all
  BY DEF ListedNames
<1>3. r \in LeadsTo(r)
  BY <1>1
<1>4. HasAllListed(LeadsTo(r))
  <2>1. SUFFICES ASSUME NEW n \in LeadsTo(r) \cap AliasNames, NEW t \in ToSet(aliases.map[n])
                 PROVE  t \in LeadsTo(r)
    BY DEF HasAllListed
  <2>2. t \in all
    BY <1>2, <2>1
  <2>3. Kept(n)
    BY <1>1, <2>1
  <2>4. Kept(t)
    BY <2>1, <2>3 DEF HasAllListed
  <2> QED
    BY <1>1, <2>2, <2>4
<1>5. ASSUME NEW C, r \in C, HasAllListed(C) PROVE LeadsTo(r) \subseteq C
  <2>1. C \cap all \in SUBSET all /\ r \in C \cap all
    BY <1>5
  <2>2. HasAllListed(C \cap all)
    BY <1>2, <1>5 DEF HasAllListed
  <2> HIDE DEF all
  <2> QED
    BY <1>1, <2>1, <2>2
<1> QED
  BY <1>3, <1>4, <1>5

\* What aliases mean does not change with the expansion.
LEMMA SameAliases ==
  ASSUME aliases' = aliases
  PROVE  /\ AliasNames' = AliasNames
         /\ \A r : LeadsTo(r)' = LeadsTo(r) /\ Yields(r)' = Yields(r)
         /\ \A r : Repeats(r)' = Repeats(r)
         /\ \A r, V : Origins(r, V)' = Origins(r, V)
         /\ \A r, o : Origin(r, o)' = Origin(r, o)
<1>1. AliasNames' = AliasNames
  BY DEF AliasNames
<1>2. ListedNames' = ListedNames
  BY <1>1 DEF ListedNames
<1>3. \A C : HasAllListed(C)' <=> HasAllListed(C)
  BY <1>1 DEF HasAllListed
<1>4. \A r : LeadsTo(r)' = LeadsTo(r)
  BY <1>2, <1>3 DEF LeadsTo
<1>5. \A r : Yields(r)' = Yields(r)
  BY <1>1, <1>4 DEF Yields
<1>6. \A r : Repeats(r)' = Repeats(r)
  BY <1>1, <1>4 DEF Repeats
<1>7. \A r, V : Origins(r, V)' = Origins(r, V)
  BY <1>1 DEF Origins
<1>8. \A r, o : Origin(r, o)' = Origin(r, o)
  BY DEF Origin
<1> QED
  BY <1>1, <1>4, <1>5, <1>6, <1>7, <1>8

\* An origin is the request, or a place in the list of a visited alias.
LEMMA OriginsAre ==
  ASSUME Listing, NEW r, NEW V
  PROVE  /\ <<r, 0>> \in Origins(r, V) /\ Origin(r, <<r, 0>>) = r
         /\ \A n \in V \cap AliasNames : \A i \in DOMAIN aliases.map[n] :
              /\ <<n, i>> \in Origins(r, V) /\ Origin(r, <<n, i>>) = aliases.map[n][i]
              /\ i \in Nat \ {0}
         /\ \A o \in Origins(r, V) :
              \/ o = <<r, 0>>
              \/ \E n \in V \cap AliasNames : \E i \in DOMAIN aliases.map[n] : o = <<n, i>>
<1>1. ASSUME NEW n \in AliasNames, NEW i \in DOMAIN aliases.map[n]
      PROVE  i \in Nat \ {0} /\ Origin(r, <<n, i>>) = aliases.map[n][i]
  <2>1. PICK l : l = aliases.map[n]
    OBVIOUS
  <2>2. l \in Seq(Range(l)) /\ i \in DOMAIN l
    BY <1>1, <2>1 DEF Listing, IsList
  <2>3. i \in Nat \ {0}
    BY <2>2
  <2> QED
    BY <2>3 DEF Origin
<1>2. Origin(r, <<r, 0>>) = r
  BY DEF Origin
<1> QED
  BY <1>1, <1>2 DEF Origins

\* One such place.
LEMMA PlaceIs ==
  ASSUME Listing, NEW r, NEW V, NEW n \in V, n \in AliasNames, NEW i \in DOMAIN aliases.map[n]
  PROVE  /\ <<n, i>> \in Origins(r, V) /\ Origin(r, <<n, i>>) = aliases.map[n][i]
         /\ i \in Nat \ {0}
<1>1. n \in V \cap AliasNames
  OBVIOUS
<1> QED
  BY <1>1, OriginsAre, Zenon

\* There are no others.
LEMMA OriginIs ==
  ASSUME NEW r, NEW V, NEW o \in Origins(r, V)
  PROVE  \/ o = <<r, 0>>
         \/ \E n \in V \cap AliasNames : \E i \in DOMAIN aliases.map[n] : o = <<n, i>>
BY DEF Origins

\* A visited alias brings as many origins as it lists names, another name none.
LEMMA OriginsMore ==
  ASSUME NEW r, NEW V, NEW x
  PROVE  /\ x \in AliasNames =>
              Origins(r, V \cup {x}) = Origins(r, V) \cup {<<x, i>> : i \in DOMAIN aliases.map[x]}
         /\ x \notin AliasNames => Origins(r, V \cup {x}) = Origins(r, V)
BY DEF Origins

\* When the stack is empty, all that the name leads to was visited, each once.
LEMMA StackEmpty ==
  ASSUME Listing, NEW r, ExpandingName(r), stack = <<>>
  PROVE  Settled(r)
<1> DEFINE O == Origins(r, visited)
           C == {Origin(r, o) : o \in O}
           W == LeadsTo(r) \cap AliasNames
<1>1. PICK first \in [visited -> O], from \in [DOMAIN stack -> O] :
        Tracks(r, visited, stack, first, from)
  BY DEF ExpandingName
<1>2. DOMAIN stack = {}
  OBVIOUS
<1>3. ASSUME NEW o \in O
      PROVE  \/ /\ Origin(r, o) \in visited /\ Origin(r, o) # ALL_SERVICES
                /\ o = first[Origin(r, o)]
             \/ Origin(r, o) = ALL_SERVICES /\ ToSet(Playground) \subseteq ToSet(found)
  BY <1>1, <1>2 DEF Tracks, ExpandingName
<1>4. r \in C
  BY OriginsAre
<1>5. \A n \in C \cap AliasNames : n \in visited
  BY <1>3 DEF AliasNames
<1>6. HasAllListed(C)
  <2>1. SUFFICES ASSUME NEW n \in C \cap AliasNames, NEW t \in ToSet(aliases.map[n])
                 PROVE  t \in C
    BY DEF HasAllListed
  <2>2. PICK i \in DOMAIN aliases.map[n] : t = aliases.map[n][i]
    BY <2>1 DEF ToSet
  <2>3. n \in visited \cap AliasNames
    BY <1>5, <2>1
  <2>4. <<n, i>> \in O /\ Origin(r, <<n, i>>) = t
    BY <2>2, <2>3, PlaceIs
  <2> QED
    BY <2>4
<1>7. LeadsTo(r) \subseteq C
  <2> HIDE DEF C
  <2> QED
    BY <1>4, <1>6, LeastSet
<1>8. Yields(r) \subseteq ToSet(found)
  <2>1. ASSUME NEW t \in LeadsTo(r), t \notin AliasNames, t # ALL_SERVICES
        PROVE  t \in ToSet(found)
    BY <1>3, <1>7, <2>1 DEF ExpandingName
  <2>2. ASSUME ALL_SERVICES \in LeadsTo(r) PROVE ToSet(Playground) \subseteq ToSet(found)
    BY <1>3, <1>7, <2>2
  <2> QED
    BY <2>1, <2>2 DEF Yields
<1>9. W \subseteq visited /\ W \subseteq AliasNames
  <2>1. \A n \in W : n \in C \cap AliasNames
    BY <1>7
  <2> HIDE DEF C, W
  <2> QED
    BY <1>5, <2>1 DEF W
<1>10. \A n \in W : \A i \in DOMAIN aliases.map[n] :
         <<n, i>> \in O /\ Origin(r, <<n, i>>) = aliases.map[n][i] /\ i # 0
  <2>1. \A n \in W : n \in visited \cap AliasNames
    BY <1>9
  <2> HIDE DEF W
  <2>2. ASSUME NEW n \in W, NEW i \in DOMAIN aliases.map[n]
        PROVE  <<n, i>> \in O /\ Origin(r, <<n, i>>) = aliases.map[n][i] /\ i # 0
    <3>1. n \in visited \cap AliasNames
      BY <2>1, <2>2
    <3> QED
      BY <2>2, <3>1, PlaceIs
  <2> QED
    BY <2>2
<1>11. ASSUME NEW n \in W PROVE r \notin ToSet(aliases.map[n])
  <2>1. SUFFICES ASSUME NEW i \in DOMAIN aliases.map[n], aliases.map[n][i] = r PROVE FALSE
    BY DEF ToSet
  <2>2. CASE r = ALL_SERVICES
    <3>1. HasAllListed({r})
      BY <2>2 DEF HasAllListed, AliasNames
    <3>2. n = r /\ n \in AliasNames
      BY <1>11, <3>1, LeastSet
    <3> QED
      BY <2>2, <3>2 DEF AliasNames
  <2>3. CASE r # ALL_SERVICES
    <3>1. <<n, i>> \in O /\ Origin(r, <<n, i>>) = r /\ i # 0
      BY <1>10, <1>11, <2>1
    <3>2. <<r, 0>> \in O /\ Origin(r, <<r, 0>>) = r
      BY OriginsAre
    <3>3. <<n, i>> = first[r] /\ <<r, 0>> = first[r]
      BY <1>3, <2>3, <3>1, <3>2
    <3> QED
      BY <3>1, <3>3
  <2> QED
    BY <2>2, <2>3
<1>12. ASSUME NEW n \in W, NEW m \in W,
              NEW i \in DOMAIN aliases.map[n], NEW j \in DOMAIN aliases.map[m],
              <<n, i>> # <<m, j>>, aliases.map[n][i] = aliases.map[m][j],
              aliases.map[n][i] # ALL_SERVICES
       PROVE  FALSE
  <2>1. /\ <<n, i>> \in O /\ Origin(r, <<n, i>>) = aliases.map[n][i]
        /\ <<m, j>> \in O /\ Origin(r, <<m, j>>) = aliases.map[m][j]
    BY <1>10, <1>12
  <2> HIDE DEF O, W, C
  <2> QED
    BY <1>3, <1>12, <2>1
<1>13. ~Repeats(r)
  <2> HIDE DEF O, C
  <2> QED
    BY <1>11, <1>12 DEF Repeats
<1> QED
  BY <1>8, <1>13 DEF Settled

\* A stack without its last element.
LEMMA LastOff ==
  ASSUME NEW s, IsList(s), s # <<>>
  PROVE  /\ Len(s) \in Nat \ {0} /\ DOMAIN s = 1..Len(s)
         /\ Len(s) \in DOMAIN s /\ Last(s) = s[Len(s)]
         /\ IsList(Front(s)) /\ Len(Front(s)) = Len(s) - 1
         /\ DOMAIN Front(s) = 1..(Len(s) - 1)
         /\ \A i \in 1..(Len(s) - 1) : Front(s)[i] = s[i] /\ i \in DOMAIN s
         /\ ToSet(Front(s)) \subseteq ToSet(s) /\ Last(s) \in ToSet(s)
<1>1. PICK S : s \in Seq(S) /\ S = Range(s)
  BY DEF IsList
<1>2. Len(s) \in Nat \ {0} /\ DOMAIN s = 1..Len(s) /\ Len(s) \in DOMAIN s
  BY <1>1
<1>3. PICK f : f = Front(s)
  OBVIOUS
<1>4. /\ f \in Seq(S) /\ Len(f) = Len(s) - 1 /\ DOMAIN f = 1..(Len(s) - 1)
      /\ \A i \in 1..(Len(s) - 1) : f[i] = s[i] /\ i \in DOMAIN s
  BY <1>1, <1>2, <1>3, SubSeqProperties DEF Front
<1>5. f \in Seq(Range(f))
  BY <1>4, SelfRange
<1>6. Last(s) = s[Len(s)]
  BY DEF Last
<1>7. ToSet(f) \subseteq ToSet(s) /\ Last(s) \in ToSet(s)
  BY <1>2, <1>4, <1>6 DEF ToSet
<1> QED
  BY <1>2, <1>3, <1>4, <1>5, <1>6, <1>7 DEF IsList

\* A name that was visited and comes again is met on two ways.
LEMMA MetAgain ==
  ASSUME Listing, NEW r, ExpandingName(r), stack # <<>>, Name \in visited
  PROVE  Repeats(r)
<1> DEFINE O == Origins(r, visited)
           W == LeadsTo(r) \cap AliasNames
<1>1. PICK first \in [visited -> O], from \in [DOMAIN stack -> O] :
        Tracks(r, visited, stack, first, from)
  BY DEF ExpandingName
<1>2. PICK n : n = Len(stack)
  OBVIOUS
<1>3. n \in DOMAIN stack /\ Name = stack[n]
  BY <1>2, LastOff DEF Name, ExpandingName
<1>4. PICK o, p : o = first[Name] /\ p = from[n]
  OBVIOUS
<1>5. o \in O /\ p \in O /\ o # p
  BY <1>1, <1>3, <1>4 DEF Tracks
<1>6. Origin(r, o) = Name /\ Origin(r, p) = Name
  BY <1>1, <1>3, <1>4 DEF Tracks
<1>7. visited \cap AliasNames \subseteq W /\ Name # ALL_SERVICES
  BY DEF ExpandingName
<1>8. ASSUME NEW q \in O, Origin(r, q) = Name, q # <<r, 0>>
      PROVE  \E m \in W : \E i \in DOMAIN aliases.map[m] : q = <<m, i>> /\ aliases.map[m][i] = Name
  <2>1. PICK m \in visited \cap AliasNames : \E i \in DOMAIN aliases.map[m] : q = <<m, i>>
    BY <1>8, OriginIs
  <2>2. PICK i \in DOMAIN aliases.map[m] : q = <<m, i>>
    BY <2>1
  <2>3. aliases.map[m][i] = Name
    BY <1>8, <2>1, <2>2, PlaceIs
  <2> HIDE DEF W, O
  <2> QED
    BY <1>7, <2>1, <2>2, <2>3
<1>9. Origin(r, <<r, 0>>) = r
  BY OriginsAre
<1> HIDE DEF O
<1>10. CASE o = <<r, 0>> \/ p = <<r, 0>>
  <2>1. Name = r
    BY <1>6, <1>9, <1>10
  <2>2. \E m \in W : \E i \in DOMAIN aliases.map[m] : aliases.map[m][i] = r
    <3> HIDE DEF W
    <3> QED
      BY <1>5, <1>6, <1>8, <1>10, <2>1
  <2>3. \E m \in W : r \in ToSet(aliases.map[m])
    BY <2>2 DEF ToSet
  <2> QED
    BY <2>3 DEF Repeats
<1>11. CASE o # <<r, 0>> /\ p # <<r, 0>>
  <2>1. PICK a \in W : \E i \in DOMAIN aliases.map[a] :
          o = <<a, i>> /\ aliases.map[a][i] = Name
    <3> HIDE DEF W
    <3> QED
      BY <1>5, <1>6, <1>8, <1>11
  <2>2. PICK b \in W : \E j \in DOMAIN aliases.map[b] :
          p = <<b, j>> /\ aliases.map[b][j] = Name
    <3> HIDE DEF W
    <3> QED
      BY <1>5, <1>6, <1>8, <1>11
  <2> QED
    BY <1>5, <1>7, <2>1, <2>2 DEF Repeats
<1> QED
  BY <1>10, <1>11

\* Two lists put together have the elements of both.
LEMMA BothElements ==
  ASSUME NEW X, NEW s \in Seq(X), NEW t \in Seq(X)
  PROVE  ToSet(s \o t) = ToSet(s) \cup ToSet(t)
<1>1. PICK u : u = s \o t
  OBVIOUS
<1>2. Joins(u, s, t)
  BY <1>1, Concat
<1>3. ToSet(u) = ToSet(s) \cup ToSet(t)
  BY <1>2 DEF Joins, ToSet
<1> QED
  BY <1>1, <1>3

\* A name of the request is put on the empty stack.
LEMMA NameBegun ==
  ASSUME Listing, NEW r, aliases' = aliases, stack' = <<r>>, visited' = {}
  PROVE  ExpandingName(r)'
<1>1. PICK s : s = stack'
  OBVIOUS
<1>2. DOMAIN s = {1} /\ s[1] = r /\ ToSet(s) = {r} /\ s \in Seq({r})
  BY <1>1 DEF ToSet
<1>3. IsList(s)
  BY <1>2, SelfRange DEF IsList
<1>4. PICK O : O = Origins(r, {})
  OBVIOUS
<1>5. O = {<<r, 0>>}
  BY <1>4 DEF Origins
<1>6. Origin(r, <<r, 0>>) = r
  BY DEF Origin
<1>7. PICK e, f : e = [x \in {} |-> <<r, 0>>] /\ f = [i \in {1} |-> <<r, 0>>]
  OBVIOUS
<1>8. e \in [{} -> O] /\ f \in [DOMAIN s -> O]
  BY <1>2, <1>5, <1>7
<1>9. O = Origins(r, {})' /\ \A o : Origin(r, o)' = Origin(r, o)
  BY <1>4, SameAliases
<1>10. Tracks(r, {}, s, e, f)'
  BY <1>2, <1>5, <1>6, <1>7, <1>9 DEF Tracks
<1>11. LeadsTo(r)' = LeadsTo(r) /\ r \in LeadsTo(r)
  BY SameAliases, LeastSet
<1> QED
  BY <1>1, <1>2, <1>3, <1>8, <1>9, <1>10, <1>11 DEF ExpandingName

\* A service is taken off the stack.
LEMMA ServicePopped ==
  ASSUME Listing, AliasTypeOK, NEW r, ExpandingName(r), PopService
  PROVE  /\ ExpandingName(r)' /\ Name \in LeadsTo(r)
         /\ ToSet(found') = ToSet(found) \cup {Name}
<1> DEFINE O == Origins(r, visited)
<1>1. PICK first \in [visited -> O], from \in [DOMAIN stack -> O] :
        Tracks(r, visited, stack, first, from)
  BY DEF ExpandingName
<1>2. PICK n, V, S : n = Len(stack) /\ V = visited \cup {Name} /\ S = Rest
  OBVIOUS
<1>3. /\ Name # ALL_SERVICES /\ Name \notin visited /\ Name \notin AliasNames
      /\ visited' = V /\ stack' = S /\ found' = Append(found, Name) /\ aliases' = aliases
      /\ stack # <<>>
  BY <1>2 DEF PopService, Popping, AliasNames
<1>4. /\ n \in Nat \ {0} /\ DOMAIN stack = 1..n /\ n \in DOMAIN stack /\ Name = stack[n]
      /\ IsList(S) /\ DOMAIN S = 1..(n - 1)
      /\ \A i \in 1..(n - 1) : S[i] = stack[i] /\ i \in DOMAIN stack /\ i # n
      /\ ToSet(S) \subseteq ToSet(stack) /\ Name \in ToSet(stack)
  BY <1>2, <1>3, LastOff DEF Name, Rest, ExpandingName
<1>5. O = Origins(r, V)' /\ \A o : Origin(r, o)' = Origin(r, o)
  BY <1>2, <1>3, SameAliases, OriginsMore
<1>6. PICK e, f : /\ e = [x \in V |-> IF x = Name THEN from[n] ELSE first[x]]
                  /\ f = [i \in DOMAIN S |-> from[i]]
  OBVIOUS
<1>7. e \in [V -> O] /\ f \in [DOMAIN S -> O]
  BY <1>1, <1>2, <1>4, <1>6
<1>8. ToSet(found') = ToSet(found) \cup {Name}
  <2>1. PICK X : X = ToSet(found) \cup {Name}
    OBVIOUS
  <2>2. found \in Seq(X) /\ Name \in X
    BY <2>1 DEF AliasTypeOK
  <2>3. PICK l : l = Append(found, Name)
    OBVIOUS
  <2>4. /\ DOMAIN l = 1..(Len(found) + 1) /\ DOMAIN found = 1..Len(found) /\ Len(found) \in Nat
        /\ l[Len(found) + 1] = Name /\ \A i \in 1..Len(found) : l[i] = found[i]
    BY <2>2, <2>3, AppendProperties
  <2>5. ToSet(l) = ToSet(found) \cup {Name}
    BY <2>4 DEF ToSet
  <2> QED
    BY <1>3, <2>3, <2>5
<1> HIDE DEF O
<1>9. \A x \in V : Origin(r, e[x]) = x
  BY <1>1, <1>2, <1>4, <1>6 DEF Tracks
<1>10. /\ \A i \in DOMAIN S : Origin(r, f[i]) = S[i]
       /\ \A i, j \in DOMAIN S : f[i] = f[j] => i = j
       /\ \A i \in DOMAIN S, x \in V : f[i] # e[x]
  BY <1>1, <1>2, <1>4, <1>6 DEF Tracks
<1>11. \A o \in O :
         \/ \E x \in V : o = e[x]
         \/ \E i \in DOMAIN S : o = f[i]
         \/ Origin(r, o) = ALL_SERVICES /\ ToSet(Playground) \subseteq ToSet(found')
  <2> SUFFICES ASSUME NEW o \in O
               PROVE  \/ \E x \in V : o = e[x]
                      \/ \E i \in DOMAIN S : o = f[i]
                      \/ Origin(r, o) = ALL_SERVICES /\ ToSet(Playground) \subseteq ToSet(found')
    OBVIOUS
  <2>1. \/ \E x \in visited : o = first[x]
        \/ \E i \in DOMAIN stack : o = from[i]
        \/ Origin(r, o) = ALL_SERVICES /\ ToSet(Playground) \subseteq ToSet(found)
    BY <1>1 DEF Tracks, O
  <2>2. ASSUME NEW x \in visited, o = first[x] PROVE x \in V /\ o = e[x]
    BY <1>2, <1>3, <1>6, <2>2
  <2>3. ASSUME NEW i \in DOMAIN stack, o = from[i]
        PROVE  o = e[Name] \/ (i \in DOMAIN S /\ o = f[i])
    BY <1>2, <1>4, <1>6, <2>3
  <2> QED
    BY <1>2, <1>8, <2>1, <2>2, <2>3
<1>12. Tracks(r, V, S, e, f)'
  BY <1>5, <1>9, <1>10, <1>11 DEF Tracks
<1>13. /\ LeadsTo(r)' = LeadsTo(r) /\ AliasNames' = AliasNames /\ Name \in LeadsTo(r)
       /\ V \cup ToSet(S) \subseteq LeadsTo(r) /\ ALL_SERVICES \notin V
       /\ V \ AliasNames \subseteq ToSet(found')
  BY <1>2, <1>3, <1>4, <1>8, SameAliases DEF ExpandingName
<1> QED
  BY <1>3, <1>4, <1>5, <1>7, <1>8, <1>12, <1>13 DEF ExpandingName

\* The name of all services is taken off the stack.
LEMMA AllPopped ==
  ASSUME Listing, AliasTypeOK, NEW r, ExpandingName(r), PopAll
  PROVE  /\ ExpandingName(r)' /\ ALL_SERVICES \in LeadsTo(r)
         /\ ToSet(found') = ToSet(found) \cup ToSet(Playground)
<1> DEFINE O == Origins(r, visited)
<1>1. PICK first \in [visited -> O], from \in [DOMAIN stack -> O] :
        Tracks(r, visited, stack, first, from)
  BY DEF ExpandingName
<1>2. PICK n, V, S : n = Len(stack) /\ V = visited /\ S = Rest
  OBVIOUS
<1>3. /\ Name = ALL_SERVICES
      /\ visited' = V /\ stack' = S /\ found' = found \o Playground /\ aliases' = aliases
      /\ stack # <<>>
  BY <1>2 DEF PopAll, Popping
<1>4. /\ n \in Nat \ {0} /\ DOMAIN stack = 1..n /\ n \in DOMAIN stack /\ Name = stack[n]
      /\ IsList(S) /\ DOMAIN S = 1..(n - 1)
      /\ \A i \in 1..(n - 1) : S[i] = stack[i] /\ i \in DOMAIN stack /\ i # n
      /\ ToSet(S) \subseteq ToSet(stack) /\ Name \in ToSet(stack)
  BY <1>2, <1>3, LastOff DEF Name, Rest, ExpandingName
<1>5. O = Origins(r, V)' /\ \A o : Origin(r, o)' = Origin(r, o)
  BY <1>2, <1>3, SameAliases
<1>6. PICK f : f = [i \in DOMAIN S |-> from[i]]
  OBVIOUS
<1>7. first \in [V -> O] /\ f \in [DOMAIN S -> O]
  BY <1>1, <1>2, <1>4, <1>6
<1>8. ToSet(found') = ToSet(found) \cup ToSet(Playground)
  <2>1. PICK X : X = ToSet(found) \cup ToSet(Playground)
    OBVIOUS
  <2>2. found \in Seq(X) /\ Playground \in Seq(X)
    BY <2>1, SessionAssumption DEF AliasTypeOK
  <2> QED
    BY <1>3, <2>2, BothElements
<1> HIDE DEF O
<1>9. /\ \A x \in V : Origin(r, first[x]) = x
      /\ \A i \in DOMAIN S : Origin(r, f[i]) = S[i]
      /\ \A i, j \in DOMAIN S : f[i] = f[j] => i = j
      /\ \A i \in DOMAIN S, x \in V : f[i] # first[x]
  BY <1>1, <1>2, <1>4, <1>6 DEF Tracks
<1>10. \A o \in O :
         \/ \E x \in V : o = first[x]
         \/ \E i \in DOMAIN S : o = f[i]
         \/ Origin(r, o) = ALL_SERVICES /\ ToSet(Playground) \subseteq ToSet(found')
  <2> SUFFICES ASSUME NEW o \in O
               PROVE  \/ \E x \in V : o = first[x]
                      \/ \E i \in DOMAIN S : o = f[i]
                      \/ /\ Origin(r, o) = ALL_SERVICES
                         /\ ToSet(Playground) \subseteq ToSet(found')
    OBVIOUS
  <2>1. \/ \E x \in visited : o = first[x]
        \/ \E i \in DOMAIN stack : o = from[i]
        \/ Origin(r, o) = ALL_SERVICES /\ ToSet(Playground) \subseteq ToSet(found)
    BY <1>1 DEF Tracks, O
  <2>2. ASSUME NEW i \in DOMAIN stack, o = from[i]
        PROVE  Origin(r, o) = ALL_SERVICES \/ (i \in DOMAIN S /\ o = f[i])
    <3>1. Origin(r, o) = stack[i]
      BY <1>1, <2>2 DEF Tracks
    <3> QED
      BY <1>3, <1>4, <1>6, <2>2, <3>1
  <2> QED
    BY <1>2, <1>8, <2>1, <2>2
<1>11. Tracks(r, V, S, first, f)'
  BY <1>5, <1>9, <1>10 DEF Tracks
<1>12. /\ LeadsTo(r)' = LeadsTo(r) /\ AliasNames' = AliasNames /\ Name \in LeadsTo(r)
       /\ V \cup ToSet(S) \subseteq LeadsTo(r) /\ ALL_SERVICES \notin V
       /\ V \ AliasNames \subseteq ToSet(found')
  BY <1>2, <1>3, <1>4, <1>8, SameAliases DEF ExpandingName
<1> QED
  BY <1>3, <1>4, <1>5, <1>7, <1>8, <1>11, <1>12 DEF ExpandingName

\* An alias is taken off the stack, and what it lists is put there.
LEMMA AliasPopped ==
  ASSUME Listing, NEW r, ExpandingName(r), PopAlias
  PROVE  ExpandingName(r)'
<1> DEFINE O == Origins(r, visited)
<1>1. PICK first \in [visited -> O], from \in [DOMAIN stack -> O] :
        Tracks(r, visited, stack, first, from)
  BY DEF ExpandingName
<1>2. PICK n, V, R, l, S : /\ n = Len(stack) /\ V = visited \cup {Name} /\ R = Rest
                           /\ l = aliases.map[Name] /\ S = R \o Reverse(l)
  OBVIOUS
<1>3. /\ Name # ALL_SERVICES /\ Name \notin visited /\ Name \in AliasNames
      /\ visited' = V /\ stack' = S /\ found' = found /\ aliases' = aliases
      /\ stack # <<>>
  BY <1>2 DEF PopAlias, Popping, AliasNames
<1>4. /\ n \in Nat \ {0} /\ DOMAIN stack = 1..n /\ n \in DOMAIN stack /\ Name = stack[n]
      /\ IsList(R) /\ Len(R) = n - 1
      /\ \A i \in 1..(n - 1) : R[i] = stack[i] /\ i \in DOMAIN stack /\ i # n
      /\ ToSet(R) \subseteq ToSet(stack) /\ Name \in ToSet(stack)
  BY <1>2, <1>3, LastOff DEF Name, Rest, ExpandingName
<1>5. IsList(l) /\ Len(l) \in Nat /\ DOMAIN l = 1..Len(l)
  <2>1. IsList(l)
    BY <1>2, <1>3 DEF Listing
  <2> QED
    BY <2>1 DEF IsList
<1>6. PICK m : m = Len(l)
  OBVIOUS
<1>7. /\ IsList(S) /\ DOMAIN S = 1..(n - 1 + m) /\ m \in Nat
      /\ \A i \in 1..(n - 1) : S[i] = stack[i]
      /\ \A i \in n..(n - 1 + m) : S[i] = l[n + m - i] /\ n + m - i \in DOMAIN l
  <2>1. PICK t : t = Reverse(l)
    OBVIOUS
  <2>2. t = [i \in 1..m |-> l[m - i + 1]]
    BY <1>6, <2>1 DEF Reverse
  <2>3. PICK X : X = Range(R) \cup Range(l)
    OBVIOUS
  <2>4. R \in Seq(X) /\ l \in [1..m -> X] /\ m \in Nat
    BY <1>4, <1>5, <1>6, <2>3 DEF IsList, Range
  <2>5. t \in [1..m -> X]
    BY <2>2, <2>4
  <2>6. t \in Seq(X) /\ Len(t) = m /\ DOMAIN t = 1..m
    BY <2>4, <2>5
  <2>7. /\ S \in Seq(X) /\ Len(S) = n - 1 + m /\ DOMAIN S = 1..(n - 1 + m)
        /\ \A i \in 1..(n - 1 + m) : S[i] = IF i <= n - 1 THEN R[i] ELSE t[i - (n - 1)]
    <3>1. S = R \o t /\ Len(R) + Len(t) = n - 1 + m
      BY <1>2, <1>4, <2>1, <2>6
    <3>2. PICK k : k = Len(R)
      OBVIOUS
    <3>3. /\ R \o t \in Seq(X) /\ Len(R \o t) = k + Len(t)
          /\ \A i \in 1..(k + Len(t)) : (R \o t)[i] = IF i <= k THEN R[i] ELSE t[i - k]
      BY <2>4, <2>6, <3>2, ConcatProperties
    <3>4. k = n - 1 /\ Len(t) = m
      BY <1>4, <2>6, <3>2
    <3> QED
      BY <3>1, <3>3, <3>4
  <2>8. IsList(S)
    BY <2>7, SelfRange DEF IsList
  <2>9. ASSUME NEW i \in n..(n - 1 + m)
        PROVE  S[i] = l[n + m - i] /\ n + m - i \in DOMAIN l
    <3>1. i \in 1..(n - 1 + m) /\ ~(i <= n - 1) /\ i - (n - 1) \in 1..m
      BY <1>4, <2>4, <2>9
    <3>2. m - (i - (n - 1)) + 1 = n + m - i /\ n + m - i \in 1..m
      BY <1>4, <2>4, <2>9
    <3> QED
      BY <1>5, <1>6, <2>2, <2>7, <3>1, <3>2
  <2>10. \A i \in 1..(n - 1) : i \in 1..(n - 1 + m) /\ i <= n - 1
    BY <1>4, <2>4
  <2> QED
    BY <1>4, <2>4, <2>7, <2>8, <2>9, <2>10
<1>8. PICK Q : Q = Origins(r, V)
  OBVIOUS
<1>9. Q = O \cup {<<Name, i>> : i \in 1..m}
  BY <1>2, <1>3, <1>5, <1>6, <1>8, OriginsMore
<1>10. /\ \A i \in 1..m : <<Name, i>> \notin O /\ Origin(r, <<Name, i>>) = l[i]
  <2>1. SUFFICES ASSUME NEW i \in 1..m
                 PROVE  <<Name, i>> \notin O /\ Origin(r, <<Name, i>>) = l[i]
    OBVIOUS
  <2>2. Origin(r, <<Name, i>>) = l[i]
    <3>1. i # 0
      BY <1>7
    <3> QED
      BY <1>2, <3>1 DEF Origin
  <2>3. i # 0
    BY <1>7
  <2>4. <<Name, i>> # <<r, 0>>
    BY <2>3
  <2>5. \A x \in visited : <<Name, i>>[1] # x
    BY <1>3
  <2> QED
    BY <2>2, <2>4, <2>5, OriginIs
<1>11. Q = Origins(r, V)' /\ \A o : Origin(r, o)' = Origin(r, o)
  BY <1>3, <1>8, SameAliases
<1>12. PICK e, f : /\ e = [x \in V |-> IF x = Name THEN from[n] ELSE first[x]]
                   /\ f = [i \in DOMAIN S |-> IF i < n THEN from[i] ELSE <<Name, n + m - i>>]
  OBVIOUS
<1> HIDE DEF O
<1>13. /\ \A i \in DOMAIN S : i < n => f[i] = from[i] /\ i \in DOMAIN stack /\ S[i] = stack[i]
       /\ \A i \in DOMAIN S : ~(i < n) =>
            /\ f[i] = <<Name, n + m - i>> /\ n + m - i \in 1..m /\ S[i] = l[n + m - i]
  <2>1. \A i \in DOMAIN S : i < n => i \in 1..(n - 1)
    BY <1>4, <1>7
  <2>2. \A i \in DOMAIN S : ~(i < n) => i \in n..(n - 1 + m)
    BY <1>4, <1>7
  <2> QED
    BY <1>4, <1>5, <1>6, <1>7, <1>12, <2>1, <2>2
<1>14. \A i \in DOMAIN S : i \in Nat
  BY <1>4, <1>7
<1>15. e \in [V -> Q] /\ f \in [DOMAIN S -> Q]
  <2>1. \A x \in V : e[x] \in O
    BY <1>1, <1>2, <1>4, <1>12
  <2>2. \A i \in DOMAIN S : f[i] \in Q
    BY <1>1, <1>9, <1>13
  <2> QED
    BY <1>9, <1>12, <2>1, <2>2
<1>16. \A x \in V : Origin(r, e[x]) = x /\ e[x] \in O
  BY <1>1, <1>2, <1>4, <1>12 DEF Tracks
<1>17. \A i \in DOMAIN S : Origin(r, f[i]) = S[i]
  <2>1. ASSUME NEW i \in DOMAIN S, i < n PROVE Origin(r, f[i]) = S[i]
    BY <1>1, <1>13, <2>1 DEF Tracks
  <2>2. ASSUME NEW i \in DOMAIN S, ~(i < n) PROVE Origin(r, f[i]) = S[i]
    BY <1>10, <1>13, <2>2
  <2> QED
    BY <2>1, <2>2
<1>18. ASSUME NEW i \in DOMAIN S, NEW j \in DOMAIN S, f[i] = f[j] PROVE i = j
  <2>1. CASE i < n /\ j < n
    BY <1>1, <1>13, <1>18, <2>1 DEF Tracks
  <2>2. CASE ~(i < n) /\ ~(j < n)
    <3>1. n + m - i = n + m - j
      BY <1>13, <1>18, <2>2
    <3> QED
      BY <1>4, <1>7, <1>14, <3>1
  <2>3. CASE (i < n /\ ~(j < n)) \/ (~(i < n) /\ j < n)
    <3>1. from[i] \in O \/ from[j] \in O
      BY <1>1, <1>13, <2>3
    <3> QED
      BY <1>1, <1>10, <1>13, <1>18, <2>3
  <2> QED
    BY <2>1, <2>2, <2>3
<1>19. ASSUME NEW i \in DOMAIN S, NEW x \in V PROVE f[i] # e[x]
  <2>1. CASE i < n
    <3>1. f[i] = from[i] /\ i \in DOMAIN stack /\ i # n
      BY <1>13, <1>14, <1>4, <2>1
    <3>2. CASE x = Name
      BY <1>1, <1>4, <1>12, <1>19, <3>1, <3>2 DEF Tracks
    <3>3. CASE x # Name
      BY <1>1, <1>2, <1>12, <1>19, <3>1, <3>3 DEF Tracks
    <3> QED
      BY <3>2, <3>3
  <2>2. CASE ~(i < n)
    BY <1>10, <1>13, <1>16, <2>2
  <2> QED
    BY <2>1, <2>2
<1>20. \A o \in Q :
         \/ \E x \in V : o = e[x]
         \/ \E i \in DOMAIN S : o = f[i]
         \/ Origin(r, o) = ALL_SERVICES /\ ToSet(Playground) \subseteq ToSet(found)
  <2> SUFFICES ASSUME NEW o \in Q
               PROVE  \/ \E x \in V : o = e[x]
                      \/ \E i \in DOMAIN S : o = f[i]
                      \/ Origin(r, o) = ALL_SERVICES /\ ToSet(Playground) \subseteq ToSet(found)
    OBVIOUS
  <2>1. CASE o \in O
    <3>1. \/ \E x \in visited : o = first[x]
          \/ \E i \in DOMAIN stack : o = from[i]
          \/ Origin(r, o) = ALL_SERVICES /\ ToSet(Playground) \subseteq ToSet(found)
      BY <1>1, <2>1 DEF Tracks, O
    <3>2. ASSUME NEW x \in visited, o = first[x] PROVE x \in V /\ o = e[x]
      BY <1>2, <1>3, <1>12, <3>2
    <3>3. ASSUME NEW i \in DOMAIN stack, o = from[i]
          PROVE  o = e[Name] \/ (i \in DOMAIN S /\ o = f[i])
      <4>1. CASE i = n
        BY <1>2, <1>12, <3>3, <4>1
      <4>2. CASE i # n
        <5>1. i \in DOMAIN S /\ i < n
          BY <1>4, <1>7, <3>3, <4>2
        <5> QED
          BY <1>13, <3>3, <5>1
      <4> QED
        BY <4>1, <4>2
    <3> QED
      BY <1>2, <3>1, <3>2, <3>3
  <2>2. CASE o \notin O
    <3>1. PICK i \in 1..m : o = <<Name, i>>
      BY <1>9, <2>2
    <3>2. PICK j : j = n + m - i
      OBVIOUS
    <3>3. j \in DOMAIN S /\ ~(j < n) /\ n + m - j = i
      BY <1>4, <1>7, <3>2
    <3>4. o = f[j]
      BY <1>13, <3>1, <3>3
    <3> QED
      BY <3>3, <3>4
  <2> QED
    BY <2>1, <2>2
<1>21. Tracks(r, V, S, e, f)'
  BY <1>3, <1>11, <1>16, <1>17, <1>18, <1>19, <1>20 DEF Tracks
<1>22. /\ LeadsTo(r)' = LeadsTo(r) /\ AliasNames' = AliasNames /\ Name \in LeadsTo(r)
       /\ V \subseteq LeadsTo(r) /\ ALL_SERVICES \notin V
       /\ V \ AliasNames \subseteq ToSet(found')
  BY <1>2, <1>3, <1>4, SameAliases DEF ExpandingName
<1>23. ToSet(S) \subseteq LeadsTo(r)
  <2>1. \A i \in 1..m : l[i] \in LeadsTo(r)
    <3>1. ToSet(l) \subseteq LeadsTo(r)
      BY <1>2, <1>3, <1>22, LeastSet DEF HasAllListed
    <3> QED
      BY <1>5, <1>6, <3>1 DEF ToSet
  <2>2. \A i \in DOMAIN stack : stack[i] \in LeadsTo(r)
    BY DEF ExpandingName, ToSet
  <2>3. \A i \in DOMAIN S : S[i] \in LeadsTo(r)
    BY <1>13, <2>1, <2>2
  <2> QED
    BY <2>3 DEF ToSet
<1> QED
  BY <1>3, <1>7, <1>11, <1>15, <1>21, <1>22, <1>23 DEF ExpandingName

\* The name that is expanded next is the one after those that are settled.
LEMMA NameNext ==
  ASSUME ExpansionInv, BeginName
  PROVE  \E k \in 0..Len(request) : AtName(k)'
<1>1. PICK k \in 0..Len(request) : AtName(k)
  BY DEF ExpansionInv
<1>2. PICK q, n : q = request /\ n = Len(request)
  OBVIOUS
<1>3. q \in Seq(Range(q)) /\ n \in Nat /\ n = Len(q) /\ DOMAIN q = 1..n /\ k \in 0..n
  BY <1>1, <1>2 DEF ExpansionInv, IsList
<1>4. /\ stack = <<>> /\ pending # <<>> /\ stack' = <<Head(pending)>>
      /\ pending' = Tail(pending) /\ visited' = {}
      /\ aliases' = aliases /\ request' = request /\ found' = found
  BY DEF BeginName
<1>5. pending = SubSeq(q, k + 1, n)
  BY <1>1, <1>2 DEF AtName
<1>6. k < n
  <2>1. SUFFICES ASSUME k = n PROVE FALSE
    BY <1>3
  <2>2. SubSeq(q, k + 1, n) = <<>>
    BY <1>3, <2>1, SubSeqEmpty
  <2> QED
    BY <1>4, <1>5, <2>2
<1>7. Head(pending) = q[k + 1] /\ Tail(pending) = SubSeq(q, k + 2, n)
  BY <1>3, <1>5, <1>6, HeadTailOfSubSeq
<1>8. ExpandingName(q[k + 1])'
  BY <1>4, <1>7, NameBegun DEF ExpansionInv
<1>9. \A i \in 1..k : Settled(q[i])
  <2>1. \A i \in 1..(k - 1) : Settled(q[i])
    BY <1>1, <1>2 DEF AtName
  <2>2. k # 0 => Settled(q[k])
    BY <1>1, <1>2, <1>4, StackEmpty DEF AtName, ExpansionInv
  <2> QED
    BY <1>3, <2>1, <2>2
<1>10. \A i \in 1..k : Settled(q[i])'
  BY <1>4, <1>9, SameAliases DEF Settled
<1>11. k + 1 \in 0..n /\ k + 1 # 0 /\ k + 1 - 1 = k /\ k + 1 + 1 = k + 2
  BY <1>3, <1>6
<1>12. AtName(k + 1)'
  BY <1>2, <1>4, <1>7, <1>8, <1>10, <1>11 DEF AtName
<1> QED
  BY <1>2, <1>11, <1>12

\* A name that is settled stays so.
LEMMA StaysSettled ==
  ASSUME NEW k, AtName(k), k # 0, aliases' = aliases, request' = request, pending' = pending,
         ToSet(found) \subseteq ToSet(found'), ExpandingName(request[k])'
  PROVE  AtName(k)'
<1>1. \A i \in 1..(k - 1) : Settled(request[i])
  BY DEF AtName
<1>2. \A i \in 1..(k - 1) : Settled(request[i])'
  BY <1>1, SameAliases DEF Settled
<1>3. pending' = SubSeq(request', k + 1, Len(request'))
  BY DEF AtName
<1> QED
  BY <1>2, <1>3 DEF AtName

\* Every step of the expansion keeps the invariant.
LEMMA ExpansionGoesOn ==
  ASSUME ExpansionInv, AliasTypeOK, Expanding
  PROVE  ExpansionInv'
<1>1. /\ progress = "expand" /\ aliases' = aliases /\ request' = request
      /\ progress' = "expand" \/ Expanded \/ PopVisited \/ PopUnreadable
  BY DEF Expanding, BeginName, Expanded, PopAll, PopVisited, PopAlias, PopService,
         PopUnreadable, Popping
<1>2. IsList(request)' /\ Listing'
  BY <1>1, SameAliases DEF ExpansionInv, Listing
<1>3. PICK k \in 0..Len(request) : AtName(k)
  BY DEF ExpansionInv
<1>4. PICK r : r = request[k]
  OBVIOUS
<1>5. ASSUME stack # <<>>
      PROVE  k # 0 /\ ExpandingName(r) /\ r \in ToSet(request)
  <2>1. k # 0 /\ ExpandingName(r)
    BY <1>3, <1>4, <1>5 DEF AtName
  <2>2. k \in DOMAIN request
    BY <1>3, <2>1 DEF ExpansionInv, IsList
  <2> QED
    BY <1>4, <2>1, <2>2 DEF ToSet
<1>6. ASSUME NEW x \in ToSet(found) PROVE \E n \in ToSet(request) : x \in Yields(n)
  BY <1>6 DEF ExpansionInv, FoundIsMeant
<1>7. CASE BeginName
  <2>1. \E i \in 0..Len(request) : AtName(i)'
    BY <1>7, NameNext
  <2>2. found' = found /\ progress' = "expand"
    BY <1>1, <1>7 DEF BeginName
  <2>3. FoundIsMeant'
    BY <1>1, <1>6, <2>2, SameAliases DEF FoundIsMeant
  <2> QED
    BY <1>1, <1>2, <2>1, <2>2, <2>3 DEF ExpansionInv
<1>8. CASE Expanded \/ PopVisited \/ PopUnreadable
  <2>1. UNCHANGED <<aliases, request, pending, stack, visited, found>>
    BY <1>8 DEF Expanded, PopVisited, PopUnreadable
  <2>2. FoundIsMeant'
    BY <1>6, <2>1, SameAliases DEF FoundIsMeant
  <2>3. AtName(k)'
    <3>1. \A n : Settled(n)' = Settled(n)
      BY <2>1, SameAliases DEF Settled
    <3>2. ASSUME ExpandingName(r) PROVE ExpandingName(r)'
      <4>1. PICK V, S, O : V = visited /\ S = stack /\ O = Origins(r, visited)
        OBVIOUS
      <4>2. PICK first \in [V -> O], from \in [DOMAIN S -> O] : Tracks(r, V, S, first, from)
        BY <3>2, <4>1 DEF ExpandingName
      <4>3. Tracks(r, V, S, first, from)'
        BY <2>1, <4>2, SameAliases DEF Tracks
      <4>4. O = Origins(r, visited)' /\ LeadsTo(r)' = LeadsTo(r) /\ AliasNames' = AliasNames
        BY <2>1, <4>1, SameAliases
      <4> QED
        BY <2>1, <3>2, <4>1, <4>2, <4>3, <4>4 DEF ExpandingName
    <3> QED
      BY <1>3, <1>4, <2>1, <3>1, <3>2 DEF AtName
  <2>4. progress' = "circular" => \E n \in ToSet(request) : Repeats(n)
    <3>1. SUFFICES ASSUME progress' = "circular" PROVE \E n \in ToSet(request) : Repeats(n)
      OBVIOUS
    <3>2. PopVisited
      BY <1>8, <3>1 DEF Expanded, PopUnreadable
    <3>3. stack # <<>> /\ Name \in visited
      BY <3>2 DEF PopVisited, Popping
    <3> QED
      BY <1>5, <3>3, MetAgain DEF ExpansionInv
  <2>5. progress' = "expanded" => stack' = <<>> /\ pending' = <<>>
    BY <1>8, <2>1 DEF Expanded, PopVisited, PopUnreadable
  <2> QED
    BY <1>2, <1>3, <2>1, <2>2, <2>3, <2>4, <2>5, SameAliases DEF ExpansionInv
<1>9. ASSUME stack # <<>>, pending' = pending, progress' = "expand",
             ExpandingName(r)', ToSet(found) \subseteq ToSet(found'),
             \A x \in ToSet(found') \ ToSet(found) : x \in Yields(r)
      PROVE  ExpansionInv'
  <2>1. AtName(k)'
    BY <1>1, <1>3, <1>4, <1>5, <1>9, StaysSettled
  <2>2. \A x \in ToSet(found') : \E n \in ToSet(request) : x \in Yields(n)
    BY <1>5, <1>6, <1>9
  <2>3. FoundIsMeant'
    BY <1>1, <2>2, SameAliases DEF FoundIsMeant
  <2> QED
    BY <1>1, <1>2, <1>3, <1>9, <2>1, <2>3 DEF ExpansionInv
<1>10. CASE PopAll
  <2>1. stack # <<>> /\ pending' = pending /\ progress' = "expand"
    BY <1>1, <1>10 DEF PopAll, Popping
  <2>2. /\ ExpandingName(r)' /\ ALL_SERVICES \in LeadsTo(r)
        /\ ToSet(found') = ToSet(found) \cup ToSet(Playground)
    BY <1>5, <1>10, <2>1, AllPopped DEF ExpansionInv
  <2>3. ToSet(Playground) \subseteq Yields(r)
    BY <2>2 DEF Yields
  <2> QED
    BY <1>9, <2>1, <2>2, <2>3
<1>11. CASE PopAlias
  <2>1. stack # <<>> /\ pending' = pending /\ progress' = "expand" /\ found' = found
    BY <1>1, <1>11 DEF PopAlias, Popping
  <2>2. ExpandingName(r)'
    BY <1>5, <1>11, <2>1, AliasPopped DEF ExpansionInv
  <2> QED
    BY <1>9, <2>1, <2>2
<1>12. CASE PopService
  <2>1. /\ stack # <<>> /\ pending' = pending /\ progress' = "expand"
        /\ found' = Append(found, Name) /\ Name \notin AliasNames /\ Name # ALL_SERVICES
    BY <1>1, <1>12 DEF PopService, Popping, AliasNames
  <2>2. /\ ExpandingName(r)' /\ Name \in LeadsTo(r)
        /\ ToSet(found') = ToSet(found) \cup {Name}
    BY <1>5, <1>12, <2>1, ServicePopped DEF ExpansionInv
  <2>3. Name \in Yields(r)
    BY <2>1, <2>2 DEF Yields
  <2> QED
    BY <1>9, <2>1, <2>2, <2>3
<1> QED
  BY <1>7, <1>8, <1>10, <1>11, <1>12 DEF Expanding

\* The expansion of a list of names begins, with aliases that list names.
LEMMA ExpansionBegins ==
  ASSUME NEW names, NEW as, IsList(names),
         IsMap(as) => \A x \in DOMAIN as.map : IsList(as.map[x]),
         Expand(names, as)
  PROVE  ExpansionInv'
<1>1. /\ progress' = "expand" /\ aliases' = as /\ request' = names /\ pending' = names
      /\ stack' = <<>> /\ visited' = {} /\ found' = <<>>
  BY DEF Expand
<1>2. Listing'
  BY <1>1 DEF Listing, AliasNames
<1>3. ToSet(found') = {}
  BY <1>1 DEF ToSet
<1>4. FoundIsMeant'
  BY <1>3 DEF FoundIsMeant
<1>5. names \in Seq(Range(names)) /\ Len(names) \in Nat
  BY DEF IsList
<1>6. names = SubSeq(names, 0 + 1, Len(names))
  BY <1>5, SubSeqFull
<1>7. 1..(0 - 1) = {}
  OBVIOUS
<1>8. AtName(0)'
  BY <1>1, <1>6, <1>7 DEF AtName
<1> QED
  BY <1>1, <1>2, <1>4, <1>5, <1>8 DEF ExpansionInv

(***************************************************************************)
(* What a command is about.                                                *)
(***************************************************************************)
\* What does not touch the expansion keeps its invariant.
LEMMA ExpansionStays ==
  ASSUME ExpansionInv, UNCHANGED aliasVars
  PROVE  ExpansionInv'
<1>1. UNCHANGED <<progress, aliases, request, pending, stack, visited, found>>
  BY DEF aliasVars
<1>2. \A r : Settled(r)' = Settled(r)
  BY <1>1, SameAliases DEF Settled
<1>3. ASSUME NEW r, ExpandingName(r) PROVE ExpandingName(r)'
  <2>1. PICK V, S, O : V = visited /\ S = stack /\ O = Origins(r, visited)
    OBVIOUS
  <2>2. PICK first \in [V -> O], from \in [DOMAIN S -> O] : Tracks(r, V, S, first, from)
    BY <1>3, <2>1 DEF ExpandingName
  <2>3. Tracks(r, V, S, first, from)'
    BY <1>1, <2>2, SameAliases DEF Tracks
  <2>4. O = Origins(r, visited)' /\ LeadsTo(r)' = LeadsTo(r) /\ AliasNames' = AliasNames
    BY <1>1, <2>1, SameAliases
  <2> QED
    BY <1>1, <1>3, <2>1, <2>2, <2>3, <2>4 DEF ExpandingName
<1>4. \A k : AtName(k) => AtName(k)'
  BY <1>1, <1>2, <1>3 DEF AtName
<1>5. Listing' /\ IsList(request)' /\ FoundIsMeant'
  BY <1>1, SameAliases DEF ExpansionInv, Listing, FoundIsMeant
<1> QED
  BY <1>1, <1>4, <1>5, SameAliases DEF ExpansionInv

\* Nor does any other step of a command break it: the lists to begin with are
\* those that the options have.
LEMMA StepExpands ==
  ASSUME OptionsInv, HandedOver, ExpansionInv, [Next]_vars
  PROVE  ExpansionInv'
<1>1. CASE BeginAliases
  <2>1. step = "combined" /\ Expand(Result.services.one, Result.aliases)
    BY <1>1 DEF BeginAliases
  <2> QED
    BY <2>1, OptionsFound, ExpansionBegins
<1>2. CASE AliasStep
  BY <1>2, ExpansionGoesOn DEF AliasStep, HandedOver
<1>3. CASE RaiseAlias \/ DoNothing \/ BeginChange
  <2>1. Expand(<<>>, NoAliases)
    BY <1>3 DEF RaiseAlias, DoNothing, BeginChange, ForgetAliases
  <2>2. ~IsMap(NoAliases)
    BY DEF IsMap, NoAliases
  <2>3. PICK e : e = <<>>
    OBVIOUS
  <2>4. IsList(e)
    BY <2>3 DEF IsList
  <2> QED
    BY <2>1, <2>2, <2>3, <2>4, ExpansionBegins
<1>4. CASE ConfigStep \/ RaiseAmbiguous \/ LoopStep \/ EndChange \/ Disturb \/ UNCHANGED vars
  <2>1. UNCHANGED aliasVars
    BY <1>4 DEF ConfigStep, RaiseAmbiguous, LoopStep, EndChange, Disturb, vars
  <2> QED
    BY <2>1, ExpansionStays
<1> QED
  BY <1>1, <1>2, <1>3, <1>4 DEF Next, Advance

\* The expansion is always at some name of the request, those before it are
\* settled, and every name that was visited or is in the stack has a place of its
\* own that it comes from (cli.py: _expand_aliases).
THEOREM ExpansionKept == Spec => []ExpansionInv
<1>1. Init => ExpansionInv
  <2> SUFFICES ASSUME Init PROVE ExpansionInv
    OBVIOUS
  <2>1. /\ progress = "expand" /\ aliases = NoAliases /\ request = <<>> /\ pending = <<>>
        /\ stack = <<>> /\ found = <<>>
    BY DEF Init, AliasInit
  <2>2. AliasNames = {}
    BY <2>1 DEF AliasNames, IsMap, NoAliases
  <2>3. Len(request) = 0 /\ request \in Seq(Range(request))
    BY <2>1
  <2>4. pending = SubSeq(request, 0 + 1, Len(request)) /\ 1..(0 - 1) = {}
    BY <2>1, <2>3, SubSeqFull
  <2>5. AtName(0)
    BY <2>1, <2>4 DEF AtName
  <2>6. Listing /\ FoundIsMeant
    BY <2>1, <2>2 DEF Listing, FoundIsMeant, ToSet
  <2> QED
    BY <2>1, <2>3, <2>5, <2>6 DEF ExpansionInv, IsList
<1>2. OptionsInv /\ HandedOver /\ ExpansionInv /\ [Next]_vars => ExpansionInv'
  BY StepExpands
<1> QED
  BY <1>1, <1>2, OptionsOnce, HandsOver, PTL DEF Spec

\* When the expansion ends, all that the request stands for was found, and no
\* name was met twice; when it is refused, one was.
LEMMA ExpansionEnds ==
  ASSUME ExpansionInv, AliasTypeOK
  PROVE  ExpandsToLeaves
<1>1. ASSUME progress = "expanded"
      PROVE  /\ \A n \in ToSet(request) : ~Repeats(n)
             /\ ToSet(Services) = UNION {Yields(n) : n \in ToSet(request)}
  <2>1. stack = <<>> /\ pending = <<>>
    BY <1>1 DEF ExpansionInv
  <2>2. PICK k \in 0..Len(request) : AtName(k)
    BY DEF ExpansionInv
  <2>3. request \in Seq(Range(request))
    BY DEF ExpansionInv, IsList
  <2>4. Len(request) \in Nat /\ DOMAIN request = 1..Len(request)
    BY <2>3
  <2>5. k = Len(request)
    <3>1. PICK q, n : q = request /\ n = Len(request)
      OBVIOUS
    <3>2. q \in Seq(Range(q)) /\ n = Len(q) /\ n \in Nat /\ k \in 0..n
      BY <2>2, <2>3, <2>4, <3>1
    <3>3. <<>> = SubSeq(q, k + 1, n)
      BY <2>1, <2>2, <3>1 DEF AtName
    <3>4. ~(k < n)
      <4>1. SUFFICES ASSUME k < n PROVE FALSE
        OBVIOUS
      <4>2. k \in Nat /\ n - k \in Nat \ {0} /\ n - (k + 1) + 1 = n - k
        BY <3>2, <4>1
      <4>3. PICK e : e = SubSeq(q, k + 1, n)
        OBVIOUS
      <4>4. Len(e) = n - (k + 1) + 1
        BY <3>2, <4>1, <4>3
      <4>5. e = <<>>
        BY <3>3, <4>3, Zenon
      <4>6. Len(e) = 0
        BY <4>5
      <4> QED
        BY <4>2, <4>4, <4>6
    <3> QED
      BY <3>1, <3>2, <3>4
  <2>6. \A i \in 1..Len(request) : Settled(request[i])
    <3>1. \A i \in 1..(k - 1) : Settled(request[i])
      BY <2>2 DEF AtName
    <3>2. k # 0 => Settled(request[k])
      BY <2>1, <2>2, StackEmpty DEF AtName, ExpansionInv
    <3> QED
      BY <2>4, <2>5, <3>1, <3>2
  <2>7. \A n \in ToSet(request) : Settled(n)
    BY <2>4, <2>6 DEF ToSet
  <2>8. ToSet(Services) = ToSet(found)
    BY UniqueProperties DEF AliasTypeOK, Services
  <2>9. \A x \in ToSet(found) : \E n \in ToSet(request) : x \in Yields(n)
    BY DEF ExpansionInv, FoundIsMeant
  <2> QED
    BY <2>7, <2>8, <2>9 DEF Settled
<1>2. progress = "circular" => \E n \in ToSet(request) : Repeats(n)
  BY DEF ExpansionInv
<1> QED
  BY <1>1, <1>2 DEF ExpandsToLeaves

\* Whatever the aliases are, a command is about the services that its request
\* stands for, all of them and no other, and it is refused as circular if and only
\* if a name is met twice on the ways of one name of the request.
THEOREM ExpandsAliases == Spec => []ExpandsToLeaves
<1>1. ExpansionInv /\ HandedOver => ExpandsToLeaves
  BY ExpansionEnds DEF HandedOver
<1> QED
  BY <1>1, ExpansionKept, HandsOver, PTL

(***************************************************************************)
(* The command implements the loop.                                        *)
(***************************************************************************)
\* A loop that begins with a list without repetition, and with limits that the
\* clock can show, is one of ChangeLoop.
LEMMA BeginsAny ==
  ASSUME NEW services, NEW kind \in Kinds, NEW force \in BOOLEAN, NEW viewer \in BOOLEAN,
         NEW limit \in [ToSet(services) -> 0..Horizon],
         services \in Seq(ToSet(services)), IsInjective(services),
         BeginLoop(services, kind, force, viewer, limit)
  PROVE  BeginAny
<1>1. loop' = LoopOf(services, kind, force, viewer, limit)
  BY DEF BeginLoop
<1>2. /\ loop'.todo = services /\ loop'.kind = kind /\ loop'.force = force
      /\ loop'.viewer = viewer /\ loop'.limit = limit
  BY <1>1 DEF LoopOf
<1> QED
  BY <1>2 DEF BeginAny

\* The steps that begin a loop.
LEMMA ChangeBegins ==
  ASSUME HandedOver, BeginChange
  PROVE  BeginAny
<1>1. PICK kind \in Kinds, viewer \in BOOLEAN,
           limit \in [ToSet(Services) -> Limits \cup {options.timeout}] :
        BeginLoop(Services, kind, ~options.no_force, viewer, limit)
  BY DEF BeginChange
<1>2. found \in Seq(ToSet(found)) /\ options.timeout \in Timeouts
  BY DEF HandedOver, AliasTypeOK, BeginChange
<1>3. Services \in Seq(ToSet(Services)) /\ IsInjective(Services)
  BY <1>2, UniqueProperties DEF Services
<1>4. limit \in [ToSet(Services) -> 0..Horizon]
  <2>1. Limits \cup {options.timeout} \subseteq 0..Horizon
    BY <1>2, SessionAssumption
  <2> QED
    BY <1>1, <2>1
<1>5. PICK force : force = ~options.no_force
  OBVIOUS
<1>6. force \in BOOLEAN
  BY <1>5
<1> QED
  BY <1>1, <1>3, <1>4, <1>5, <1>6, BeginsAny

\* The loop of a command that is over is forgotten.
LEMMA LoopForgotten ==
  ASSUME ForgetLoop
  PROVE  BeginAny
<1>1. PICK e : e = <<>>
  OBVIOUS
<1>2. DOMAIN e = {} /\ ToSet(e) = {} /\ e \in Seq({})
  BY <1>1 DEF ToSet
<1>3. e \in [ToSet(e) -> 0..Horizon] /\ IsInjective(e)
  BY <1>1, <1>2 DEF IsInjective
<1>4. BeginLoop(e, "Start", FALSE, FALSE, e)
  BY <1>1 DEF ForgetLoop
<1> QED
  BY <1>2, <1>3, <1>4, BeginsAny DEF Kinds

\* Every step of a command is a step of a loop, or none.
LEMMA StepLoops ==
  ASSUME HandedOver, [Next]_vars
  PROVE  [LoopNext]_loopVars
<1>1. CASE BeginChange
  BY <1>1, ChangeBegins DEF LoopNext
<1>2. CASE EndChange
  BY <1>2, LoopForgotten DEF LoopNext, EndChange
<1>3. CASE LoopStep \/ Disturb
  BY <1>3 DEF LoopNext, LoopStep, Disturb
<1>4. CASE \/ ConfigStep \/ RaiseAmbiguous \/ BeginAliases \/ AliasStep \/ RaiseAlias
           \/ DoNothing \/ UNCHANGED vars
  BY <1>4 DEF ConfigStep, RaiseAmbiguous, BeginAliases, AliasStep, RaiseAlias, DoNothing, vars
<1> QED
  BY <1>1, <1>2, <1>3, <1>4 DEF Next, Advance

\* A command implements the loop of ChangeLoop: whatever its options and aliases
\* are, it begins to change a list of services that names none twice
\* (cli.py: services, functions.py: unique), with limits from its options, and
\* nothing disturbs the loop but what may disturb it there.
THEOREM CommandsLoop == Spec => LoopSpec
<1>1. Init => LoopInit
  BY DEF Init
<1>2. HandedOver /\ [Next]_vars => [LoopNext]_loopVars
  BY StepLoops
<1> QED
  BY <1>1, <1>2, HandsOver, PTL DEF Spec, LoopSpec

\* The types of a command: indices of merge() are in the heap, what is expanded
\* is a list, and the loop has the types of ChangeLoop.
THEOREM SessionTyping == Spec => []SessionTypeOK
<1>1. OptionsInv /\ HandedOver /\ LoopTypeOK => SessionTypeOK
  <2> SUFFICES ASSUME OptionsInv, HandedOver
               PROVE  /\ \A i \in DOMAIN queue : queue[i].into \in 0..Len(heap)
                      /\ \A k \in DOMAIN result :
                           result[k].is = "ref" => result[k].ref \in DOMAIN heap
    BY DEF HandedOver, SessionTypeOK, OptionsTypeOK
  <2>1. CASE step \in {"files", "ambiguous"}
    BY <2>1 DEF HandedOver, Empty
  <2>2. CASE step \in {"app", "cli", "all", "combined"}
    <3>1. ConfigInv
      BY <2>2 DEF OptionsInv
    <3>2. \E L : Merging(L)
      BY <2>2, <3>1 DEF ConfigInv
    <3> QED
      BY <3>2, MergingTyped
  <2> QED
    BY <2>1, <2>2 DEF HandedOver
<1> QED
  BY <1>1, OptionsOnce, HandsOver, CommandsLoop, LoopTyping, PTL

\* So whatever its options, aliases and services are, a command neither gives up
\* late, nor leaves a tail process behind, ...
THEOREM CommandsInTime == Spec => [](LoopInv /\ EndsInTime /\ TailsReaped)
BY CommandsLoop, LoopSafety, Punctual, LeavesNoTail, PTL

\* ... nor gives up early.
THEOREM CommandsPatient == Spec => NotBeforeTime
BY CommandsLoop, Patient
=============================================================================
