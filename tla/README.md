# A verification of pgctl

pgctl starts, stops and restarts the services of a *playground* (a directory
with one directory per service) by means of s6.  There is no pgctl daemon: each
command is a process that looks at what runs, changes it, and ends.  Several
commands may run at once, from several shells, from the services' own run
scripts and from `pgctl-poll-ready`; commands and supervisors may be killed
between any two steps.  This directory models that concurrency in TLA+,
model-checks it with TLC and proves its main safety properties with TLAPS.

## The system

| Part | State | Operations | Correct if |
|---|---|---|---|
| State changes (`cli.py`) | per command: services left to change, failed ones, services cleaned up, which change, which locks | `start`, `stop`, `restart`, `debug`, each one or more passes of `__change_state`: lock, check, unlock, hook, lock, change loop, unlock, hook | one manager per service at a time; what is reported stopped is stopped; a failed start leaves nothing; every command ends |
| Service operations (`service.py`) | none of its own: files and processes | `background`, `foreground`, `start`, `stop`, `stop_logs`, `assert_ready`, `assert_stopped`, `force_cleanup`, `flock` | at most one run script of a service lives |
| Flock (`flock.py`) | open file descriptors, inherited by children | `acquire`, `release` | held by exactly those that may use the directory |
| Scans and kill (`fuser.py`, `environment_tracing.py`, `functions.py`) | none | find processes, `kill -9` them | nothing of a stopped service is missed |
| s6 interface (`daemontools.py`) | none | `svc`, `svok`, `svstat` | states are read as s6 means them |
| `pgctl-poll-ready` (`poll_ready.py`) | phase, time of the last success, a FIFO | poll `./ready`, notify, become `pgctl restart` | restarts only a service that is not being stopped |
| Configuration (`config.py`, `configsearch.py`) | the queue and the result of `merge` | find the files, merge them with the environment and the arguments | every option has the value of the place with the highest priority |
| Alias expansion (`cli.py`) | a stack, what it has visited | expand names to services | every service once, in the order of mention; ends on circles |
| Timeout (`cli.py`) | start of the change, of the check | decide whether a failed check is the last | never before its time, never much after it |
| Log viewer (`log_viewer.py`) | `tail` children, a poll set | read new lines, draw a box, reap | ends, leaves no child |
| status, log, config, telemetry, debug output | none | print | - |

How they interact: the commands share nothing but the file system and the
processes.  A command takes `.pgctl.lock` of every service it manages (not
inherited), and for a moment the flock of one service's directory.  That second
flock is passed on to the s6-supervise spawned under it and to all its
descendants: it is free only when no process of the service is left that kept
the descriptor.  What closes the descriptor is found through its environment.
What is hard is therefore: the order of the steps of several commands and of s6,
state that is read and out of date when used, locks released and taken again
within one command, commands and supervisors that die, processes that fork
between a scan and the kill, a flock that is inherited and not tested, and the
retry loop with its timeout.

## The modules

* `Playground` - the processes of each service as the kernel and s6 keep them
  (external code, modelled from how `src/` uses it) and the operators by which
  pgctl sees and changes them (from `service.py`, `daemontools.py`, `fuser.py`,
  `environment_tracing.py`, `functions.py`).  `procs[s]` is the set of roles
  that have a live process, `dying[s]` those that were sent SIGKILL and are not
  gone yet; `superv`, `want`, `notified`, `clean` are what s6-supervise knows,
  `logger` its twin for the log.
* `Pgctl` - the commands (`cli.py` and the flock parts of `service.py`),
  composed with `Playground`.  `cmd[c]` is the local state of command `c`: its
  program counter `pc`, `mode` (the first or the second critical section of
  `__change_state`), `job` (what it does afterwards), `phase` (Start, Stop or
  StopLogs), `todo` (the list `services` of the change loop), `left` (what the
  inner loop has not visited), and its locks.  `doomed` are the commands that
  were sent SIGKILL.  `shared` is a history variable, which no action reads: the
  services that were last started under a flock that others had, too (see
  below).  One action is one step between two operations that others can
  observe: a lock attempt, one `svc`, one `svstat`, one scan, one kill.
* `ServiceLock` - the abstract specification: services that are locked, found
  stopped and run, without commands, supervisors, flocks or retries.  `Pgctl`
  implements it under the mapping of `Lock == INSTANCE ServiceLock WITH ...`:
  managed are the targets of a command in a critical section, stopped are those
  its change loop has ticked off, instances are the run scripts (of a service
  in `shared`, none).
* `StatusLine` - the line of s6-svstat and its parser (`parse`, `svstat_parse`,
  `Service.svstat`).  It extends `Playground`: `Lines(s)` is what s6 may print
  of `s` in the state it is in, and the property compares what pgctl makes of
  each of them with `SvState`, which the rest of the model uses.
* `PollLoop` - the process of `pgctl-poll-ready` beside one run of its service:
  the FIFO, the fork, both polling loops, the clock.  `Playground` and `Pgctl`
  know it as the roles `poll` and `pollEnd` and the command `PollRestart`.
* `Config`, `Aliases`, `ChangeLoop`, `Session` - one command from its options
  to its end.  `Config` is `Config.combined` with the queue of `merge`;
  `Aliases` the stack of `_expand_aliases`; `ChangeLoop` is
  `__locked_change_state` against the clock with the tails of the log viewer;
  `Session` runs one after the other, each on what the one before it made, and
  implements `LoopSpec` of `ChangeLoop`, the loops of any commands.
  `Aliases` says what a name leads to as the least set that is closed under the
  aliases.  `AliasMeaning` says it with the order, by a recursive definition,
  and so is apart from the modules that are proved about.
* `PgctlProofs`, `LockProofs`, `OverlapProofs` (about `Pgctl`), `StatusProofs`
  (about `StatusLine` in its states), `PollLoopProofs`, `ChangeLoopProofs`,
  `ConfigProofs` and `SessionProofs` (about the merge in `Config`, and about
  `Aliases` and the whole of `Session`) - the theorems.
* `MCPgctl`, `MCSession` and the `.cfg` files - small instances.

Correspondence of control: `Begin` enters `__change_state`; `TakeLock`,
`FindLockHeld`, `RaiseLockHeld`, `Locked` are `playground_locked`;
`AssertReady`, `AssertUnsupervised`, `AssertUnlocked`, `AssertNoProcess` are
`assert_`; `BreakOut` is the `break` of the first section; `CleanUp` ...
`KillLogger` are `change`; `Recheck`, `ForceStop`, `GiveUp` are
`__locked_handle_state_change_exception`; `HookScan`, `AllDown`, `PostStop` the
end of a Stop; `AfterStop`, `AfterStart`, `AfterStopLogs` what `start`, `stop`,
`restart`, `debug` and `__show_failure` do next; `MessageFails` is a `start-msg`
or `stop-msg` script that fails.  The change loop is in two modules: `Pgctl` has
it among other commands, where any check that failed may be past its timeout;
`ChangeLoop` has it against the clock, where a check may find anything.
In `PollLoop`, `Main` is the parent of the fork and `Child` the rest of `main()`
and `pgctl_poll_ready()`, with one action between two reads of the FIFO, the
clock or `./ready`.  Definitions that a comment introduces as a mutant are
deliberate errors; no specification uses them.

### Simplifications

* `Pgctl` has no time: a check that failed may or may not be past the timeout.
  `ChangeLoop` and `PollLoop` count time in units.  A check takes at least one
  unit (one that takes no measurable time is never its last, as `timeout()`
  finds both distances equal), and the clock is not set back, though
  `time.time()` could be.
* A scan of `/proc` and the kill after it are one step; a process that forks in
  between is the action `Fork` of a dying parent, whose child is not dying.
* A role stands for all processes that play it; it is in `dying` if all of them
  were sent SIGKILL.
* The ten retries of `handle_race` are one attempt: between two of them the
  command changes nothing and others may move as before the first.
* A run script, or a child of it that kept the flock, may run pgctl for any
  services, its own included (`InvokeNested`).  A child that closed the
  descriptor does not: the `PGCTL_SERVICE_LOCK` that it passes on names a
  descriptor that it does not have, and `Service.flock` fails when it closes it.
* Exceptions that are not caught (a failing hook or message script, `LockHeld`
  out of the loop) end the command.
* The files below the service directory are not modelled, but for
  `notification-fd`, which the services in `Polled` have and the others have
  not; nobody adds or removes a `ready` script meanwhile.  A booting supervisor
  stands for s6-supervise before it opens its control FIFO.
* `StatusLine`: a line is a sequence of the words, numbers and separators that
  `parse` splits at, and a number is 0 or 1.
* `PollLoop`: `floatfile` and `getval` give any value; the first loop has no
  clock, as nothing in it depends on time.
* `Config`: a file is the dictionary it holds, of a kind that is read or not;
  a layer that is `None` is an empty one.  Options: `services`, `timeout`,
  `no_force` and the mapping `aliases`.
* `Aliases` come from files: a variable can set only a string.  `Unique` says
  which occurrences `unique()` yields, not how it remembers what it has seen.
* `ChangeLoop`: the start of a tail succeeds, `stop_tailing` is one step, what
  is drawn is left out; the services of a request have distinct names.

## What is checked

All runs are exhaustive.  Two commands are enough for the interleavings of
locks, hooks and flocks, as every conflict the code has is between the holder
of a lock and one other; one service is enough for everything that concerns a
service alone, two where locks are ordered, where a hook looks at the whole
playground, or where a flock is inherited by another service's command.

| Run | Instance | Shows |
|---|---|---|
| `Core` | 2 commands x start, stop, restart, debug, from shells and from run scripts of the one service there is, crashes, killed s6-supervise, children without the flock | `OneInstance`, `ExclusiveManagement`, `StoppedIsDown`, `SafetyInv`, and that `Pgctl` implements `ServiceLock` (`KeepsServiceLock`) |
| `PollReady` | 2 commands x start, stop, a polled service that restarts itself, no tracing, both kinds of children, failing hooks | `SafetyInv`, `StoppedIsDown`, `StartsUnderTestedFlock` |
| `Hooks` | 2 stops of `a`, `b` or both, both up and not polled, from a shell or from a run script of either | `HookNotLost` and the invariant it needs (`HookInv`), `SomeoneProceeds`, `NoCircle`, `StatusIsRead` |
| `Live` | one command after the other on a polled service, forced or not, killed s6-supervise, escaping children, failing message scripts | `CommandEnds`, `FailedStartIsDown` and the invariant it needs (`FailedStartInv`), `StatusIsRead` |
| `PollLoop` | timeouts 0, 1, 3, waits 1, 2, 4, checks up to 2 units, debug or not | `QuitOnlyIfDown`, `RestartAfterSilence`, `HeedsDown`, the invariant they need (`PollInv`), `DownHeeded`, `ActsOnFailure`, types |
| `Session` | every alias graph on two aliases and two services, 1500 combinations of places of options, up to two services against the clock | `MergedByPriority` and the invariant it needs (`OptionsInv`), `ExpandsToLeaves`, `ExpandsToServices`, `EndsInTime`, `NotBeforeTime`, `TailsReaped`, the invariant of the loop (`LoopInv`), that a command implements the loops of `ChangeLoop` (`LoopSpec`), `SessionEnds`, types |

`Core`, `PollReady`, `Hooks` and `Live` are finite without further bounds:
commands are not invoked again in the runs with two commands (`Reuse = FALSE`),
and `failed` is as long as the request at most.  In these runs the two commands
are alike (`MCSymmetry`), and nothing that is checked is a liveness property.

The bounds of the others.  `PollLoop`: s6-supervise writes each of its three
bytes once, since one process lives beside one run; clocks stop at the timeout,
behind which the code does not tell times apart; `MaxLate` counts the checks
begun after the end of the run up to one more than may be.  The values lie on
both sides of each other: waits and checks shorter and longer than the timeout.  `Session`: `Limits` and the `timeout` options are 1 to 3
units (9 where it must not be found), `CheckTime` 3, `ChangeTime` 1, `Poll` 1,
so that a check may begin before the limit and end before, on and well behind
it; `Horizon` 20 is behind the last time that `EndsInTime` allows, so that only
a stop with force, which may go on for ever, reaches it.
Two aliases have every circle (of one and of two), the diamond, repetition, the
alias of all services inside another and an empty alias; lists of up to two
names are enough for order.

`CHECK_DEADLOCK FALSE` everywhere: when all commands have ended and all
services rest, the system stops.

Six runs show where the code does not do what its documentation says; each
stops at a violation:

| Run | Code | Says otherwise |
|---|---|---|
| `StartKillsReady` | `cli.py:119`: a start kills ready services of its request | `cli.py:116`, `cli.py:536` |
| `LoggerLost` | `cli.py:548`: a start between Stop and StopLogs loses its logger | `design.rst:40` |
| `HookWhileSupervised` | `cli.py:330`: the hook runs while a service is supervised and restarting | `cli.py:335` |
| `StartAborts` | `cli.py:361`, `service.py:299`: a slow s6-supervise aborts its own start | `functions.py:100` |
| `StoppingIsReady` | `daemontools.py:165`: a polled service that is being stopped is "ready" | `usage.rst:18` |
| `MessageAborts` | `service.py:109`: a start that dies of a message script leaves a service that failed up | `cli.py:525` |

What the models also show, without a run of its own:

* A service may get two live run scripts if one of its own processes starts it
  or runs `pgctl debug` on it: the command has the flock of its parent, which is
  not tested (`service.py:277`).  If s6-supervise was killed and left its run
  script, a child of that script can run `pgctl debug`, which finds the service
  down and becomes a second run script beside the first (`fg` beside `old`); or
  `pgctl start`, which kills the first one, does not wait until it is gone and
  spawns (`run` beside `old`).  No document says that this is possible, or that it
  is not.  The model keeps such services apart in `shared` (`UseFlock`): they
  are excepted from `OneInstance` and from the instances of `ServiceLock` until
  they are next started under a flock that is nobody else's.  Without the
  exception `OneInstance` is violated in the instance of `Core`.
* "If we can obtain this flock at all, it means that there are no subprocesses
  holding it" (`service.py:181`) is not so for a restart by `pgctl-poll-ready`: it
  has the flock of its parent together with the children of the run script.
  The scan behind it is what finds them.
* "If we got here, everything is really down" (`service.py:196`) is so with
  environment tracing only; `Unseen` in `StoppedIsDown` is what a stop leaves
  without it.
* A variable of the environment overrides a configuration file of the project
  (`config.py:132`), and the docstring lists them the other way round
  (`config.py:3-7`).
* Once a stop has released its locks, a restart that `pgctl-poll-ready` sent
  before brings the service up again (`poll_ready.py:91`).
* A diamond of aliases (`default: [x, y]`, `x: [z]`, `y: [z]`) is refused as
  circular (`ExpandsToLeaves` says when a name is refused: if it leads to
  some name in two ways).
* A log viewer one of whose tails was killed never returns from `get_logs`
  (`log_viewer.py:55`); `SessionEnds` has to except it.
* A byte that ends a wait of `pgctl-poll-ready` early costs a check, not the
  `d` behind it (`HeedsDown`).  The message at `poll_ready.py:89`, "failed for
  more than", is true in units of `timeout` (`RestartAfterSilence`), but with
  the default `poll-down` of 10 seconds and `timeout-ready` of 2 the first
  check that fails after a wait restarts the service.

### Fairness

`Live` assumes: every command keeps running (weak fairness of `Step`); one that
was sent SIGKILL is gone in the end; s6-supervise opens its FIFO, exits when it
was told to and its run script is gone; SIGKILL ends a process.  Time passes, so
a command that keeps failing its check cannot avoid its timeout for ever (strong
fairness of `ForceStop` or `GiveUp`; `ChangeLoop` shows why).  Nothing makes a
run script exit, become ready or react to SIGTERM.  The services stop forking at
some time (`<>[][~Forked]_vars`): one that forks between every scan and its kill
keeps a stop from ending, in the code as in the model.

`PollLoop`: the two processes run, `./ready` returns, and s6-supervise reports
the end of a run script (weak fairness of `Main`, `Child`, `WriteDown`).
Nothing makes `./ready` succeed or the run script end.

`Session`: the command itself runs (weak fairness of `Advance`); nothing makes
its services change, its tails write or an exception happen.  `SessionEnds`
excepts a stop with force, whose end depends on the services (see
`CommandEnds`), and the hung viewer.

## What is proved

For any sets of services and commands, any requests and any faults that the
model has, crashed commands, killed supervisors and commands from run scripts
included (`PgctlProofs`):

* `Typing` - `Spec => []TypeOK`.
* `Safety` - `Spec => []SafetyInv`, the inductive invariant.
* `Exclusion` - `Spec => []ExclusiveManagement`.
* `SingleInstance` - `Spec => []OneInstance`.
* `TestsTheFlock` - `Spec => StartsUnderTestedFlock`.
* `NobodyShares` - `"nested" \notin Faults => (Spec => [](shared = {}))`.

`SingleInstance` excepts the services in `shared`: those that were last started
by a command that one of their own processes ran, under the flock of that
process, while others had it.  Of these it says nothing, as they may
have two (see above).  `NobodyShares` says that there is no such service as long
as run scripts run no pgctl command; a restart by `pgctl-poll-ready`, which has
the same flock, makes none.

In `LockProofs`:

* `Stopping` - `Spec => []StopInv`, a second inductive invariant over the first.
* `Stopped` - `Spec => []StoppedIsDown`.
* `Refinement` - `Spec => KeepsServiceLock`: `Pgctl` implements `ServiceLock`.

The theorems hold also for what no run combines: several services and locks,
nested commands that start services, any number of commands.

The assumptions are `PlaygroundAssumption` and `PgctlAssumption`: types of the
constants only.  The argument: `ExclusiveManagement` is not inductive, it needs
that a command in a critical section owns the lock files of *all* its targets,
hence that while taking them it owns those it has visited (`OwnsLocks`), and
that no file has two owners (`LockInv`).  `OneInstance` needs that an orphaned
or a foreground run script excludes s6-supervise (`InstanceInv`); that is kept
because something is spawned only under a flock that nobody else has
(`FlockInv`): no process of the service and no other command, or else the service
is in `shared`.  `FlockInv` is
kept by the environment, since a descriptor comes only from a process that has
it, and by other commands, since they find the flock taken.  The one hole is the
flock of a parent, which `Service.flock` takes untested while the service runs.
`UsesUpParentLock` says who can start something under it: of the commands that
no run script invoked, only a restart by `pgctl-poll-ready` has it for one of
its own targets, and a restart reaches its start only after its stop has used it
up.  What starts something under it all the same is a start or debug that a
process of the service invoked (`TestsTheFlock`).

`CommandOK` is what the invariant says of one command, `Frame` what a step may
do to locks and flocks; `StepOK`, `StepFrame` (one case per action) prove both
for every step, `StepProcs` and `EnvironmentProcs` say what becomes of the
processes, and `CommandStepSafe`, `InvocationSafe`, `EnvironmentSafe` put them
together.

`StoppedIsDown` needs to know what a command is doing: which phases belong to
which job (`JobFits`), that the loops visit what is left to change and a start
spawns only what it manages (`VisitsTodo`), and that a stop begins with nothing
ticked off (`BeginsUnticked`).  A service becomes ticked off only in `Accept`,
where the scan has just found nothing; from then on nobody can spawn it, since a
start would need its `.pgctl.lock` (`SafetyInv`), and what a scan does not see
cannot come to be without a process that it does see.  `pgctl debug` takes no
lock of that kind: `MayBeForeground` is the exception in the property.

`Refinement` maps each step.  `Ticked` and `Moves` in `LockProofs` say how
`TickedOff` and `Managed` may change in one step of a command: a command enters
its critical section with nothing ticked off (`Acquire`, by `SafetyInv` of
targets that nobody else manages), ticks off one service that has no instance
(`FindStopped`, by `StopInv`), or leaves (`Release`).  The instances of a
service in `shared` are left out: when it gets there, they end in the
abstraction, and when it is started under a flock of its own there are none.
Steps of the playground are `BeginRun`, `BeginForeground`, `Orphan`, `End` or
stutter, by `InstanceInv`.

Also in `LockProofs`:

* `FailedStarts` - `Spec => []FailedStartInv`, a third inductive invariant over
  the other two.
* `FailedStartsDown` - `Spec => []FailedStartIsDown`.

A start that failed becomes a stop of what failed.  `Unstopped(r)` is what that
stop has not found stopped yet; the others of its targets have no process left
that anyone could see.  A target leaves that set only in `Accept`, behind a scan
that found nothing; and then, as no other command is at work, nothing can bring
it up again: a process of a service comes from a spawn or from another process
of it.  `FailsNone` says
why the set is empty in the end: with force nothing fails to stop.

In `OverlapProofs`:

* `LocksInOrder` - `Spec => []LockOrderInv`: a command that takes its locks has
  those in front of the ones that it has not visited, and none else.
* `SomeoneGoesOn` - `Spec => []NoCircle`, for any group of commands that list
  their services in one order: of the services that one of them wants and another has, the
  last in that order is held by one that waits for none of the others.  The services are assumed to be finite.  It is about the
  lists as they are: the stop after a failed start lists its services in the
  order in which they failed, and may not follow the order of the requests.
* `SomeoneScans` - `OnlyStops => (Spec => []HookInv)`, a fourth inductive
  invariant.
* `HookRuns` - `OnlyStops => (Spec => []HookNotLost)`.

`OnlyStops` says when the hook cannot be lost: commands only stop, none with
`--no-force`, each runs once (the model forgets the hook of a command that runs
again), something is up at first, nobody but a command takes a service down, and
no message script fails.  Otherwise the property may be false, as it should be: a
stop that gives a service up, or ends by its script, waits for it no longer.
Commands that die, hooks that fail and nested stops are allowed.
`HookInv` says of each command that it is on the way of a stop with force
(`Stops`), and of the services that none goes down unless a command waits for it
(`WaitsFor`) or a command was lost.  `Heeds` is what a step of a command keeps: a
command that waits for a service stops doing so only when a scan has found it
gone, and then it will look at all services (`WillScan`); it finds one that is not
down only if s6-supervise still serves that one, and then somebody else waits for
it.  So whoever waits for the last of them finds all down.

* `TwoStopsProceed` - `TwoOrderedStops => (Spec => []ProceedInv)`, a fifth
  inductive invariant.
* `OneProceeds` - `TwoOrderedStops => (Spec => []SomeoneProceeds)`.

`TwoOrderedStops`: there are two commands, they only stop, each once, and list
services in one order.  A stop takes its locks twice, for the services and for
the loggers, so that `NoCircle` alone does not exclude that they turn each other
away one after the other.  `ProceedInv` says that whoever was turned away (or is
about to be) has no lock that the other will ever want (`Range(targets)`).
While the first is turned away at some service, the other has that service and,
by `LockOrderInv`, is behind it in the order (`HolderIsAhead`); so it wants nothing
of what the first still has, which is in front (`NextIsBehind`).
It is false of two starts, since one of them may go on to stop what failed in
the order in which it failed, and of three stops.

In `StatusProofs`:

* `StatusRight` - `Spec => []StatusIsRead`.

It needs of the state no more than its types.  The proof reads the line field by
field: `ReadsOptional` says that `parse` takes a field which is there with what
follows it, and passes over one that is not, whatever comes next; `ReadsTail`,
`ReadsHead` and `LineRead` put the fields together, `UpAgrees` and `DownAgrees`
compare what they say with `SvState`.

In `PollLoopProofs`, for all timeouts and waits:

* `PollTyping`, `PollSafety` - `Spec => []PollTypeOK`, `Spec => []PollInv`.
* `QuitsForTheDead`, `RestartsAfterSilence`, `HeedsTheEnd` - `QuitOnlyIfDown`,
  `RestartAfterSilence`, `HeedsDown`.

`PollInv` relates the three bytes that s6-supervise writes, wherever they are
(not yet written, in the FIFO, read), to the run script: a `d` is anywhere only
if the run script is gone.  Each byte in the FIFO, up to the `d`, stands for one
check to come: `late + Len(queue)` is at most 4, of which one is the `d`.
The age of the last success is at most the silence, and so is the time that the
loop has measured while it checks.

In `ChangeLoopProofs`, for any list of services without repetition and any
durations:

* `LoopTyping`, `LoopSafety` - `LoopSpec => []LoopTypeOK`, `LoopSpec => []LoopInv`.
* `LeavesNoTail`, `Punctual`, `Patient` - `TailsReaped`, `EndsInTime`,
  `NotBeforeTime`.

`EndsInTime` is not inductive: it says nothing of how the time is spent.
`PaceInv` gives each point of a pass its `Allowance` behind the last limit; a
check that fails while the clock is behind its limit ends in `GiveUp`, so that
the list gets shorter by one for each `CheckTime` used up.  `Patient` is the
lemma `PastTime` about the two absolute values of `timeout()`.

In `ConfigProofs`:

* `OptionsOnce` - `Spec => []OptionsInv`.
* `MergesByPriority` - `Spec => []MergedByPriority`.

`MergedFirst(layers, m)` is the state of `merge()` when `m` layers have been
taken from its queue.  What a mapping of the result *will be* - its entry in the
heap with all queued tasks for it (`Eventually`) - is what the first `m` layers
say by their priority.  Two options never share a mapping.  A task that merges
into a mapping which has been replaced meanwhile does no harm: nothing refers to
that mapping any more.  When the queue is empty, `Eventually` is the mapping.
The argument is by the least and the greatest element of a set of positions
(`WFMin`), not by induction over the layers.

In `SessionProofs`:

* `CommandsLoop` - `Spec => LoopSpec`: a whole command implements `ChangeLoop`.
* `SessionTyping` - `Spec => []SessionTypeOK`.
* `CommandsInTime`, `CommandsPatient` - so what is proved of loops holds of
  commands.

* `ExpansionKept` - `Spec => []ExpansionInv`, the inductive invariant of the stack.
* `ExpandsAliases` - `Spec => []ExpandsToLeaves`.

`ExpandsToLeaves` compares a loop over a stack and a set with a least closed set,
for any graph of aliases, circles included.  That what the stack yields is led to
is plain; that nothing is missed follows since the visited names, when the stack
is empty, are closed under the aliases, and the set is the least of that kind.
The hard part is when a name is refused.  In `ExpansionInv` each visited name
and each name in the stack has an *origin*: the request, or a place in the list of a
visited alias.  No two have the same one, and none is left over, except for those
of the alias of all services, which is never remembered (`Tracks`).  So a name that
is popped although it was visited has two origins, and both are on its ways: it
`Repeats`.  And if the stack gets empty without that, each name that is led to
has one origin, so that none repeats.

`UniqueProperties` shows that `unique()` returns a list of the same elements,
none of them twice: the occurrences that it keeps, counted up to each of them,
are numbered without gaps.  `TimeoutFound` shows that the timeout which the loop
begins with is one that some place has set.

The assumptions beside those on `Pgctl`: `PollLoopAssumption` and
`ChangeLoopAssumption` are types; `ConfigAssumption` says that dictionaries are
finite functions, places sequences of them, a timeout a number, and what
`services` or an alias stands for a list of names;
`SessionAssumption` that the clock of the model shows all those numbers
(`Horizon`), and that the playground is a list.  `OnlyStops` and `TwoOrderedStops`
are hypotheses of the theorems that need them; the constants of `Hooks` satisfy both.

Only model-checked:

* Liveness (`CommandEnds`, `DownHeeded`, `ActsOnFailure`, `SessionEnds`): the
  installed provers do not support it.
* `ExpandsToServices` compares the expansion with a recursive definition.  What it
  adds to `ExpandsToLeaves` is the order of the services.

## Not modelled

* `status`, `log`, `config` and `reload`: they print and change nothing, but for
  `ensure_logs` in `log`.
* The files that `ensure_exists`, `ensure_logs` and `ensure_directory_structure`
  write (`service.py:204-267`), the symlinks of `symlink_if_necessary`, and the
  descriptors that `logger_preexec` and `supervisor_preexec` set up.  The one
  file that pgctl decides by, `notification-fd`, is the constant `Polled`; that
  it outlives its `ready` script (`service.py:265`) is left out.
  What a logger reads and writes is not modelled either, hence no property
  covers a logger that is booting while its stop is checked (`service.py:178`).
* The ten retries of `handle_race` (`service.py:48`), after which a lock that no
  visible process holds (one of another user, say) ends the command.
* The syntax of configuration files (among it the `_list` keys of an `.ini` file,
  which `from_file` pops while it iterates, `config.py:51`), the names of the
  variables, globbing, the two `main()` of `config.py` and `configsearch.py`.
* The drawing of the log viewer (`log_viewer.py:79-175`): layout of at most
  `height - 2` lines, with a constant height of 20.
* Services of one basename in one request, whose tails collapse into one
  (`cli.py:351`).
* Telemetry, debug output, messages, `ps`, JSON, the subprocess wrapper, the
  Sphinx configuration and packaging: output and declarations.

## Plan

Done: all modules above with their runs, and the theorems about all of them.

Left, in this order:

1. `ServiceDir`: the files and symlinks of the service directory, written under
   the flock and by `log` without it, and the FIFO between service and logger.
2. A theorem about the order in which aliases are expanded.
