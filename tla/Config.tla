------------------------------- MODULE Config --------------------------------
(***************************************************************************)
(* How a command finds its options (pgctl/config.py, configsearch.py):     *)
(* Config('pgctl').combined(PGCTL_DEFAULTS, args).  Each place where       *)
(* options may be set gives a dictionary, and merge() puts them together   *)
(* with a queue, in place: an option whose values are mappings is merged   *)
(* one level down, after everything that was queued before.                *)
(*                                                                         *)
(* A dictionary is a function on the options it sets.  No option of pgctl  *)
(* is nested deeper than `aliases`.                                        *)
(***************************************************************************)
EXTENDS Naturals, Sequences, FiniteSets, SequencesExt

CONSTANTS
  ALL_SERVICES,   \* the name of the alias of all services
  Worlds,         \* what may be found: a set of worlds
  Timeouts        \* what the option timeout may be

DefaultTimeout == 2

\* One world: the files in /etc, in $HOME and in the directories from the
\* working directory up to the root, each with its file system; the options in
\* the environment, in the file of --config, if any, and in the arguments.
WorldFields == {"noGlobal", "system", "home", "dirs", "environ", "file", "args"}

IsList(l) == l \in Seq(Range(l))

\* A dictionary has finitely many options, each a mapping or not; the timeout is
\* a number, the services are a list of names, and each alias stands for one.
IsDict(d) ==
  /\ IsFiniteSet(DOMAIN d) /\ d = [k \in DOMAIN d |-> d[k]]
  /\ \A k \in DOMAIN d :
       \/ d[k].is = "one"
       \/ d[k].is = "map" /\ d[k].map = [x \in DOMAIN d[k].map |-> d[k].map[x]]
  /\ "timeout" \in DOMAIN d => d["timeout"].is = "one" /\ d["timeout"].one \in Timeouts
  /\ "services" \in DOMAIN d => d["services"].is = "one" /\ IsList(d["services"].one)
  /\ "aliases" \in DOMAIN d /\ d["aliases"].is = "map" =>
       \A x \in DOMAIN d["aliases"].map : IsList(d["aliases"].map[x])
AreFiles(files) == \A i \in DOMAIN files : IsDict(files[i].options)

ASSUME ConfigAssumption ==
  /\ DefaultTimeout \in Timeouts
  /\ \A w \in Worlds :
       /\ DOMAIN w = WorldFields
       /\ AreFiles(w.system) /\ AreFiles(w.home)
       /\ w.dirs # <<>> /\ w.dirs \in Seq(Range(w.dirs))
       /\ \A i \in DOMAIN w.dirs : AreFiles(w.dirs[i].files)
       /\ Len(w.file) <= 1 /\ w.file \in Seq(Range(w.file))
       /\ \A i \in DOMAIN w.file : IsDict(w.file[i])
       /\ IsDict(w.environ) /\ IsDict(w.args)

VARIABLES
  step,       \* what combined() is about to do
  world,      \* the files, variables and arguments that are there
  queue,      \* q of merge(): what is merged, and into what
  result,     \* result of merge(); a mapping in it is an index into heap
  heap,       \* the mappings that merge() made
  merged      \* what from_app() and from_cli() returned

configVars == <<step, world, queue, result, heap, merged>>

One(v) == [is |-> "one", one |-> v]
Mapping(f) == [is |-> "map", map |-> f]
Ref(n) == [is |-> "ref", ref |-> n]
IsMap(v) == v.is = "map"
Empty == <<>>

\* PGCTL_DEFAULTS, as far as it concerns the state changes.
Defaults ==
  [ services |-> One(<<"default">>),
    timeout |-> One(DefaultTimeout),
    no_force |-> One(FALSE),
    aliases |-> Mapping([default |-> <<ALL_SERVICES>>]) ]

(***************************************************************************)
(* Where options are looked for.                                           *)
(***************************************************************************)
\* from_glob(): files of an unknown kind do not count, of the others there may
\* be one.
Recognized(files) == {i \in DOMAIN files : files[i].known}
Ambiguous(files) == Cardinality(Recognized(files)) > 1
FromGlob(files) ==
  IF Recognized(files) = {} THEN Empty
  ELSE files[CHOOSE i \in Recognized(files) : TRUE].options

\* search_parent_directories(): from the working directory upwards, as long as
\* the file system is the same.
Searched(dirs) ==
  SubSeq(dirs, 1,
    CHOOSE n \in 1..Len(dirs) :
      /\ \A i \in 1..n : dirs[i].fs = dirs[1].fs
      /\ n < Len(dirs) => dirs[n + 1].fs # dirs[1].fs)

\* PGCTL_NO_GLOBAL_CONFIG
System == IF world.noGlobal THEN <<>> ELSE world.system
Home == IF world.noGlobal THEN <<>> ELSE world.home

\* The files of from_app(), the nearest last.
AppFiles == Reverse([i \in DOMAIN Searched(world.dirs) |-> Searched(world.dirs)[i].files])

AppLayers == [i \in DOMAIN AppFiles |-> FromGlob(AppFiles[i])]

\* from_cli()
CliLayers == world.file \o <<world.args>>

(***************************************************************************)
(* merge()                                                                 *)
(***************************************************************************)
\* What `new` says, else what `old` says.
Upon(new, old) ==
  [k \in DOMAIN new \cup DOMAIN old |-> IF k \in DOMAIN new THEN new[k] ELSE old[k]]

Top(layers) == [i \in DOMAIN layers |-> [into |-> 0, new |-> layers[i]]]

\* _merge(): an option of `new` is set, a mapping as a copy of its own; but
\* when old and new value are mappings, the pair is left to the queue.
Opened(new) == {k \in DOMAIN new :
                  IsMap(new[k]) /\ k \in DOMAIN result /\ result[k].is = "ref"}
Copied(new) == {k \in DOMAIN new \ Opened(new) : IsMap(new[k])}

MergeInto(task, others) ==
  LET new == task.new
      copies == SetToSeq(Copied(new))
      opens == SetToSeq(Opened(new))
      value(k) == IF IsMap(new[k])
                  THEN Ref(Len(heap) + CHOOSE i \in DOMAIN copies : copies[i] = k)
                  ELSE new[k]
  IN  IF task.into # 0
      THEN /\ heap' = [heap EXCEPT ![task.into] = Upon(new, @)]
           /\ queue' = others /\ UNCHANGED result
      ELSE /\ heap' = heap \o [i \in DOMAIN copies |-> new[copies[i]].map]
           /\ result' = Upon([k \in DOMAIN new \ Opened(new) |-> value(k)], result)
           /\ queue' = others \o [i \in DOMAIN opens |->
                [into |-> result[opens[i]].ref, new |-> new[opens[i]].map]]

\* Mutant: q.pop().
MergeStepLast ==
  /\ queue # <<>>
  /\ MergeInto(Last(queue), Front(queue))
  /\ UNCHANGED <<step, world, merged>>

MergeStep ==
  /\ queue # <<>>
  /\ MergeInto(Head(queue), Tail(queue))
  /\ UNCHANGED <<step, world, merged>>

\* What merge() returns.
Result == [k \in DOMAIN result |->
             IF result[k].is = "ref" THEN Mapping(heap[result[k].ref]) ELSE result[k]]

\* merge(layers) begins.
Merge(layers) == queue' = Top(layers) /\ result' = Empty /\ heap' = <<>>

(***************************************************************************)
(* combined()                                                              *)
(***************************************************************************)
\* AmbiguousConfig, which nobody catches, or the merge of from_app().
ReadFiles ==
  /\ step = "files"
  /\ IF \E files \in {System, Home} \cup Range(AppFiles) : Ambiguous(files)
     THEN step' = "ambiguous" /\ UNCHANGED <<queue, result, heap>>
     ELSE step' = "app" /\ Merge(AppLayers)
  /\ UNCHANGED <<world, merged>>

MergedApp ==
  /\ step = "app" /\ queue = <<>>
  /\ merged' = <<Result>>
  /\ step' = "cli" /\ Merge(CliLayers)
  /\ UNCHANGED world

\* The layers of combined(), in the order of its merge.
Layers(app, cli) ==
  <<Defaults, FromGlob(System), FromGlob(Home), app, world.environ, cli>>

MergedCli ==
  /\ step = "cli" /\ queue = <<>>
  /\ merged' = Append(merged, Result)
  /\ step' = "all" /\ Merge(Layers(merged[1], Result))
  /\ UNCHANGED world

MergedAll ==
  /\ step = "all" /\ queue = <<>>
  /\ step' = "combined"
  /\ UNCHANGED <<world, queue, result, heap, merged>>

Combining == ReadFiles \/ MergeStep \/ MergedApp \/ MergedCli \/ MergedAll

ConfigInit ==
  /\ step = "files" /\ world \in Worlds
  /\ queue = <<>> /\ result = Empty /\ heap = <<>> /\ merged = <<>>

(***************************************************************************)
(* Properties.                                                             *)
(***************************************************************************)
\* The value that option k should have after the first m layers, in increasing
\* priority, if one of them sets it.
Setting(layers, m, k) == {i \in 1..m : k \in DOMAIN layers[i]}
ByPriority(layers, m, k) ==
  LET set == Setting(layers, m, k)
      maps == {i \in set : \A j \in set : j >= i => IsMap(layers[j][k])}
      names == UNION {DOMAIN layers[i][k].map : i \in maps}
      last(n) == Max({i \in maps : n \in DOMAIN layers[i][k].map})
  IN  IF maps = {} THEN layers[Max(set)][k]
      ELSE Mapping([n \in names |-> layers[last(n)][k].map[n]])

SetBy(layers, m) == UNION {DOMAIN layers[i] : i \in 1..m}
Merged(layers) == [k \in SetBy(layers, Len(layers)) |-> ByPriority(layers, Len(layers), k)]

\* Of the places that set an option the last in the order of combined() wins;
\* aliases, which are mappings, are put together name by name, from the last
\* place that says something else than a mapping upwards (config.py:137-160:
\* mappings are merged in place, later than what was queued before them, and
\* a mapping that was replaced meanwhile is still merged into).
MergedByPriority ==
  step = "combined" =>
    /\ Result = Merged(Layers(merged[1], merged[2]))
    /\ merged = <<Merged(AppLayers), Merged(CliLayers)>>

(***************************************************************************)
(* Why MergedByPriority holds: an inductive invariant.                     *)
(***************************************************************************)
\* What of queue q will still be merged into the n-th mapping of heap h, and what
\* the mapping will then be.
TasksInto(q, n) == {i \in DOMAIN q : q[i].into = n}
Eventually(h, q, n) ==
  LET names == DOMAIN h[n] \cup UNION {DOMAIN q[i].new : i \in TasksInto(q, n)}
      tasks(x) == {i \in TasksInto(q, n) : x \in DOMAIN q[i].new}
  IN  [x \in names |-> IF tasks(x) = {} THEN h[n][x] ELSE q[Max(tasks(x))].new[x]]

\* The first m layers have been taken from the queue.  Every mapping of the
\* result is in a place of its own, and what it will be is what it should be.
MergedFirst(layers, m) ==
  /\ queue \in Seq(Range(queue)) /\ heap \in Seq(Range(heap))
  /\ Len(queue) >= Len(layers) - m
  /\ \A i \in DOMAIN queue :
       IF i <= Len(layers) - m THEN queue[i] = [into |-> 0, new |-> layers[m + i]]
       ELSE queue[i].into \in DOMAIN heap
  /\ \A n \in DOMAIN heap : heap[n] = [x \in DOMAIN heap[n] |-> heap[n][x]]
  /\ DOMAIN result = SetBy(layers, m)
  /\ \A k \in DOMAIN result :
       IF result[k].is = "ref"
       THEN /\ result[k].ref \in DOMAIN heap
            /\ ByPriority(layers, m, k) = Mapping(Eventually(heap, queue, result[k].ref))
            /\ \A l \in DOMAIN result \ {k} :
                 result[l].is = "ref" => result[l].ref # result[k].ref
       ELSE result[k] = ByPriority(layers, m, k) /\ ~IsMap(result[k])

Merging(layers) == \E m \in 0..Len(layers) : MergedFirst(layers, m)

ConfigInv ==
  /\ step = "app" => Merging(AppLayers)
  /\ step = "cli" => merged = <<Merged(AppLayers)>> /\ Merging(CliLayers)
  /\ step \in {"all", "combined"} =>
       /\ merged = <<Merged(AppLayers), Merged(CliLayers)>>
       /\ Merging(Layers(merged[1], merged[2]))
  /\ step = "combined" => queue = <<>>
=============================================================================
