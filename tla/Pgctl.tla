------------------------------- MODULE Pgctl --------------------------------
(***************************************************************************)
(* pgctl commands at work on one playground: pgctl/cli.py and the parts of *)
(* pgctl/service.py that take the service directory's flock.  Several      *)
(* commands run at once, each a process of its own; between any two steps  *)
(* of a command the other commands, s6 and the services take theirs.       *)
(*                                                                         *)
(* A command holds two kinds of locks: `.pgctl.lock` of every service it   *)
(* manages (field locks), and for a moment the flock of one service's      *)
(* directory (field flocked).  The second is inherited by the s6-supervise *)
(* spawned under it and by all its descendants, so it is free only when no *)
(* process of the service is left that kept the descriptor.                *)
(***************************************************************************)
EXTENDS Playground, Sequences, Functions

CONSTANTS
  Commands,   \* the pgctl processes
  NoOne,      \* no service
  Jobs,       \* the subcommands that may be invoked
  Requests,   \* the lists of services they may be invoked with
  Forces,     \* which settings of `not no_force` occur
  Reuse,      \* a command that ended may be invoked anew
  InitiallyUp \* the sets of services that may be up at the start

ASSUME PgctlAssumption ==
  /\ NoOne \notin Services
  /\ Jobs \subseteq {"start", "stop", "restart", "debug"}
  /\ Requests \subseteq Seq(Services)
  /\ Forces \subseteq BOOLEAN
  /\ Reuse \in BOOLEAN
  /\ InitiallyUp \subseteq SUBSET Services

VARIABLES
  cmd,        \* cmd[c]: the state of command c, a member of CommandState
  doomed,     \* the commands that were sent SIGKILL
  shared      \* history, which no action reads: the services that were last
              \* started under a flock that others had, too (see OneInstance)

vars == <<cmd, doomed, shared, pgVars>>

CommandState ==
  [ pc : {"idle", "lock", "lockHeld", "assert", "flock", "scan", "rejected",
          "preStart", "change", "spawn", "svcUp", "hookScan", "postStop",
          "after", "debugState", "foreground", "exec", "done"},
    mode : {"check", "change"},  \* the first or the second critical section
    job : {"start", "failStart", "stop", "restart", "debug"},
    phase : {"Start", "Stop", "StopLogs"},  \* the StateChange under way
    targets : Seq(Services),     \* self.services
    failed : Seq(Services),      \* those that did not reach the state
    todo : SUBSET Services,      \* `services` of __locked_change_state
    left : SUBSET Services,      \* what the loop under way has not visited
    cleaned : SUBSET Services,   \* has_cleaned_up_processes
    hook : BOOLEAN,              \* run_post_stop_hook
    force : BOOLEAN,             \* not no_force
    origin : Services \cup {NoOne},  \* the service whose process it is, too
    inherits : BOOLEAN,          \* PGCTL_SERVICE_LOCK is set, to an open fd
    flocked : Services \cup {NoOne}, \* the directory whose flock it took
    locks : SUBSET Services,     \* the .pgctl.lock files it holds
    result : {"none", "ok", "failed", "startFailed", "lockHeld", "runaway",
              "exec", "crashed", "killed"} ]

Idle ==
  [ pc |-> "idle", mode |-> "check", job |-> "start", phase |-> "Start",
    targets |-> <<>>, failed |-> <<>>, todo |-> {}, left |-> {},
    cleaned |-> {}, hook |-> FALSE, force |-> TRUE, origin |-> NoOne,
    inherits |-> FALSE, flocked |-> NoOne, locks |-> {}, result |-> "none" ]

TypeOK ==
  /\ PgTypeOK
  /\ cmd \in [Commands -> CommandState]
  /\ doomed \subseteq Commands /\ shared \subseteq Services

(***************************************************************************)
(* Helpers.                                                                *)
(***************************************************************************)
Become(c, r) == cmd' = [cmd EXCEPT ![c] = r] /\ UNCHANGED <<doomed, shared>>

\* The process is gone and with it all its descriptors.
Ended(c, how) ==
  [Idle EXCEPT !.pc = "done", !.result = how, !.targets = cmd[c].targets,
               !.hook = cmd[c].hook, !.force = cmd[c].force]

Active(c) == cmd[c].pc \notin {"idle", "done"}

\* s is the next service of the loop under way, in the order of the request.
Position(q, s) == CHOOSE i \in DOMAIN q : q[i] = s

\* Mutant: in any order.
IsNextAnyOrder(c, s) == s \in cmd[c].left

IsNext(c, s) ==
  /\ s \in cmd[c].left
  /\ \A t \in cmd[c].left :
       Position(cmd[c].targets, s) <= Position(cmd[c].targets, t)

\* d has a descriptor with the flock of s's directory.
Holds(d, s) ==
  \/ cmd[d].flocked = s
  \/ cmd[d].inherits /\ cmd[d].origin = s

\* c can have the flock of s's directory: by its environment, untested, if it
\* was started by a process of s; else if nobody has it.
ParentLock(c, s) == cmd[c].inherits /\ cmd[c].origin = s
\* Mutant: the processes of the service do not inherit the flock.
DirFreeUninherited(c, s) ==
  ParentLock(c, s) \/ \A d \in Commands \ {c} : ~Holds(d, s)

NobodyElse(c, s) ==
  procs[s] \cap FdRoles = {} /\ \A d \in Commands \ {c} : ~Holds(d, s)

DirFree(c, s) == ParentLock(c, s) \/ NobodyElse(c, s)

\* c has the flock of s's directory and is to start s at pc.
UseFlock(c, s, pc) ==
  /\ cmd' = [cmd EXCEPT ![c] = [@ EXCEPT !.pc = pc, !.flocked = s, !.inherits = FALSE]]
  /\ shared' = IF ParentLock(c, s) /\ ~NobodyElse(c, s)
               THEN shared \cup {s} ELSE shared \ {s}
  /\ UNCHANGED doomed

\* The commands that processes_currently_running() finds for s; a command
\* started by a process of s has that process's environment.
CommandsSeen(c, s) ==
  {d \in Commands \ {c} : Holds(d, s) \/ (Tracing /\ cmd[d].origin = s)}

\* force_cleanup()
ForceCleanup(c, s) ==
  /\ KillSeen(s)
  /\ doomed' = doomed \cup CommandsSeen(c, s)
  /\ UNCHANGED shared

(***************************************************************************)
(* Invocation.                                                             *)
(***************************************************************************)
\* The first step of __change_state: r is the command so far, todo the
\* services whose state is to change.
Begin(r, job, phase, targets, todo) ==
  [r EXCEPT !.pc = "lock", !.mode = "check", !.job = job, !.phase = phase,
            !.targets = targets, !.todo = todo, !.left = Range(targets)]

FirstPhase(r, job, q) ==
  IF job = "debug" THEN [r EXCEPT !.pc = "debugState", !.job = job, !.targets = q]
  ELSE Begin(r, job, IF job = "start" THEN "Start" ELSE "Stop", q, Range(q))

MayInvoke(c) ==
  /\ cmd[c].pc \in {"idle"} \cup IF Reuse THEN {"done"} ELSE {}
  /\ c \notin doomed

\* Someone runs pgctl from a shell.
Invoke(c, job, q, force) ==
  /\ MayInvoke(c)
  /\ job \in Jobs /\ q \in Requests /\ force \in Forces
  /\ IsInjective(q) /\ q # <<>> /\ (job = "debug" => Len(q) = 1)
  /\ Become(c, FirstPhase([Idle EXCEPT !.force = force], job, q))
  /\ UNCHANGED pgVars

\* A run script, or what it forked, runs pgctl, for its own service or others:
\* it passes on its environment and the flock of its service.
InvokeNested(c, o, job, q) ==
  /\ "nested" \in Faults /\ MayInvoke(c)
  /\ procs[o] \cap (RunRoles \cup {"sub"}) # {}
  /\ job \in Jobs /\ q \in Requests
  /\ IsInjective(q) /\ q # <<>> /\ (job = "debug" => Len(q) = 1)
  /\ Become(c, FirstPhase([Idle EXCEPT !.origin = o, !.inherits = TRUE], job, q))
  /\ UNCHANGED pgVars

\* pgctl-poll-ready execs `pgctl restart` on its service: the ready check
\* failed for too long, and no 'd' was read before the last of the checks.
PollRestart(c, s) ==
  /\ "poll" \in Faults /\ MayInvoke(c)
  /\ \E r \in {"poll", "pollEnd"} \cap (procs[s] \ dying[s]) :
       procs' = [procs EXCEPT ![s] = @ \ {r}]
  /\ Become(c, FirstPhase([Idle EXCEPT !.origin = s, !.inherits = TRUE],
                          "restart", <<s>>))
  /\ UNCHANGED <<dying, superv, want, notified, clean, logger>>

(***************************************************************************)
(* playground_locked(): one .pgctl.lock after the other, without waiting.  *)
(***************************************************************************)
\* Mutant: the lock is not tested.
TakeLockUntested(c, s) ==
  /\ cmd[c].pc = "lock" /\ IsNext(c, s)
  /\ Become(c, [cmd[c] EXCEPT !.locks = @ \cup {s}, !.left = @ \ {s}])
  /\ UNCHANGED pgVars

TakeLock(c, s) ==
  /\ cmd[c].pc = "lock" /\ IsNext(c, s)
  /\ \A d \in Commands : s \notin cmd[d].locks
  /\ Become(c, [cmd[c] EXCEPT !.locks = @ \cup {s}, !.left = @ \ {s}])
  /\ UNCHANGED pgVars

\* LockHeld is not caught on its way out, but before it is raised its message
\* names the processes that have the file open; only then the ExitStack
\* releases the locks taken so far.
FindLockHeld(c, s) ==
  /\ cmd[c].pc = "lock" /\ IsNext(c, s)
  /\ \E d \in Commands \ {c} : s \in cmd[d].locks
  /\ Become(c, [cmd[c] EXCEPT !.pc = "lockHeld"])
  /\ UNCHANGED pgVars

RaiseLockHeld(c) ==
  /\ cmd[c].pc = "lockHeld"
  /\ Become(c, Ended(c, "lockHeld"))
  /\ UNCHANGED pgVars

Locked(c) ==
  /\ cmd[c].pc = "lock" /\ cmd[c].left = {}
  /\ Become(c, [cmd[c] EXCEPT !.left = cmd[c].todo,
                  !.pc = IF cmd[c].mode = "check" THEN "assert" ELSE "change"])
  /\ UNCHANGED pgVars

(***************************************************************************)
(* change() of every service in `services`.                                *)
(***************************************************************************)
Changing(c, s, phase) ==
  cmd[c].pc = "change" /\ cmd[c].phase = phase /\ IsNext(c, s)

\* Start.change(): the first time, kill what is still running.
CleanUp(c, s) ==
  /\ Changing(c, s, "Start") /\ s \notin cmd[c].cleaned
  /\ cmd' = [cmd EXCEPT ![c].cleaned = @ \cup {s}]
  /\ ForceCleanup(c, s)

\* background(): nothing to do for a supervised service.
FindSupervised(c, s) ==
  /\ Changing(c, s, "Start") /\ s \in cmd[c].cleaned
  /\ SvOk(s)
  /\ Become(c, [cmd[c] EXCEPT !.pc = "svcUp"])
  /\ UNCHANGED pgVars

\* Otherwise it takes the flock of the directory ...
TakeFlock(c, s) ==
  /\ Changing(c, s, "Start") /\ s \in cmd[c].cleaned
  /\ ~SvOk(s) /\ DirFree(c, s)
  /\ UseFlock(c, s, "spawn")
  /\ UNCHANGED pgVars

\* ... or shows the processes that have it: this LockHeld is no Unsupervised,
\* it ends the whole command.
FindRunaway(c, s) ==
  /\ Changing(c, s, "Start") /\ s \in cmd[c].cleaned
  /\ ~SvOk(s) /\ ~DirFree(c, s)
  /\ Become(c, Ended(c, "runaway"))
  /\ UNCHANGED pgVars

Supervise(c) ==
  /\ cmd[c].pc = "spawn"
  /\ Spawn(cmd[c].flocked)
  /\ Become(c, [cmd[c] EXCEPT !.pc = "svcUp", !.flocked = NoOne])

Visited(c, s) == Become(c, [cmd[c] EXCEPT !.pc = "change", !.left = @ \ {s}])

BringUp(c, s) ==
  /\ cmd[c].pc = "svcUp" /\ IsNext(c, s)
  /\ SvcUp(s) /\ Visited(c, s)

BringDown(c, s) ==
  /\ Changing(c, s, "Stop")
  /\ SvcDownExit(s) /\ Visited(c, s)

KillLogger(c, s) ==
  /\ Changing(c, s, "StopLogs")
  /\ SvcKillLog(s) /\ Visited(c, s)

Changed(c) ==
  /\ cmd[c].pc = "change" /\ cmd[c].left = {}
  /\ Become(c, [cmd[c] EXCEPT !.pc = "assert", !.left = cmd[c].todo])
  /\ UNCHANGED pgVars

(***************************************************************************)
(* assert_() of every service in `services`: assert_ready() reads the      *)
(* status once, assert_stopped() reads the status, takes the flock of the  *)
(* directory and scans for processes, one after the other.                 *)
(***************************************************************************)
Asserting(c, s, pc) == cmd[c].pc = pc /\ IsNext(c, s)

\* No exception: the service is done with, in the change loop for good.
Accept(c, s) ==
  Become(c, [cmd[c] EXCEPT !.pc = "assert", !.flocked = NoOne, !.left = @ \ {s},
               !.todo = IF cmd[c].mode = "change" THEN @ \ {s} ELSE @])

Reject(c) ==
  Become(c, [cmd[c] EXCEPT !.pc = "rejected", !.flocked = NoOne])

AssertReady(c, s) ==
  /\ Asserting(c, s, "assert") /\ cmd[c].phase = "Start"
  /\ IF SvState(s) = "ready" THEN Accept(c, s) ELSE Reject(c)
  /\ UNCHANGED pgVars

\* Mutant: the status alone decides.
AssertUnsupervisedOnly(c, s) ==
  /\ Asserting(c, s, "assert") /\ cmd[c].phase # "Start"
  /\ IF SvState(s) = "unsupervised" THEN Accept(c, s) ELSE Reject(c)
  /\ UNCHANGED pgVars

AssertUnsupervised(c, s) ==
  /\ Asserting(c, s, "assert") /\ cmd[c].phase # "Start"
  /\ IF /\ SvState(s) = "unsupervised"
        /\ cmd[c].phase = "StopLogs" => ~IsLoggerRunning(s)
     THEN Become(c, [cmd[c] EXCEPT !.pc = "flock"]) ELSE Reject(c)
  /\ UNCHANGED pgVars

\* Mutant: the parent's lock stays.
AssertUnlockedKeepingIt(c, s) ==
  /\ Asserting(c, s, "flock")
  /\ IF DirFree(c, s)
     THEN Become(c, [cmd[c] EXCEPT !.pc = "scan", !.flocked = s]) ELSE Reject(c)
  /\ UNCHANGED pgVars

\* flock(): its first call in a process closes or uses up the parent's lock.
AssertUnlocked(c, s) ==
  /\ Asserting(c, s, "flock")
  /\ Become(c, IF DirFree(c, s)
               THEN [cmd[c] EXCEPT !.pc = "scan", !.flocked = s, !.inherits = FALSE]
               ELSE [cmd[c] EXCEPT !.pc = "rejected", !.inherits = FALSE])
  /\ UNCHANGED pgVars

\* Mutant: the flock alone decides.
AssertNoProcessUnseen(c, s) ==
  Asserting(c, s, "scan") /\ Accept(c, s) /\ UNCHANGED pgVars

AssertNoProcess(c, s) ==
  /\ Asserting(c, s, "scan")
  /\ IF RolesSeen(s) = {} /\ CommandsSeen(c, s) = {}
     THEN Accept(c, s) ELSE Reject(c)
  /\ UNCHANGED pgVars

\* Once a service has reached its state, Service.message() runs its start-msg or
\* stop-msg script; one that fails raises an AssertionError, which nobody
\* catches: what failed before it is not dealt with.
MessageFails(c, s) ==
  /\ "msg" \in Faults /\ cmd[c].mode = "change"
  /\ \/ Asserting(c, s, "assert") /\ cmd[c].phase = "Start" /\ SvState(s) = "ready"
     \/ Asserting(c, s, "scan") /\ RolesSeen(s) = {} /\ CommandsSeen(c, s) = {}
  /\ Become(c, Ended(c, "failed"))
  /\ UNCHANGED pgVars

\* In the first critical section one failure is enough: the locks are
\* released, and taken again for the change (by Start after its hook).
BreakOut(c) ==
  /\ cmd[c].pc = "rejected" /\ cmd[c].mode = "check"
  /\ Become(c, [cmd[c] EXCEPT !.pc = IF cmd[c].phase = "Start" THEN "preStart" ELSE "lock",
                  !.mode = "change", !.locks = {}, !.left = Range(cmd[c].targets)])
  /\ UNCHANGED pgVars

Rejected(c, s) ==
  cmd[c].pc = "rejected" /\ cmd[c].mode = "change" /\ IsNext(c, s)

\* No timeout yet: the next iteration of the loop sees to it.
Recheck(c, s) ==
  /\ Rejected(c, s)
  /\ Become(c, [cmd[c] EXCEPT !.pc = "assert", !.left = @ \ {s}])
  /\ UNCHANGED pgVars

\* Mutant: nothing is killed.
FailsByForceNever(c) == FALSE

\* Timeout of a Stop: Stop.fail() kills, and the service is checked again.
\* Start.fail() and StopLogs.fail() are not implemented.
FailsByForce(c) == cmd[c].force /\ cmd[c].phase = "Stop"
ForceStop(c, s) ==
  /\ Rejected(c, s) /\ FailsByForce(c)
  /\ cmd' = [cmd EXCEPT ![c].pc = "assert", ![c].left = @ \ {s}]
  /\ ForceCleanup(c, s)

\* Mutant: the service stays in the loop.
GiveUpRetried(c, s) ==
  /\ Rejected(c, s) /\ ~FailsByForce(c)
  /\ Become(c, [cmd[c] EXCEPT !.pc = "assert", !.left = @ \ {s}])
  /\ UNCHANGED pgVars

GiveUp(c, s) ==
  /\ Rejected(c, s) /\ ~FailsByForce(c)
  /\ Become(c, [cmd[c] EXCEPT !.pc = "assert", !.left = @ \ {s}, !.todo = @ \ {s},
                  !.failed = Append(@, s)])
  /\ UNCHANGED pgVars

\* The end of a pass: all are in the state already, or none is left to
\* change, or there is one more iteration.
AssertedAll(c) ==
  /\ cmd[c].pc = "assert" /\ cmd[c].left = {}
  /\ Become(c,
       IF cmd[c].mode = "change" /\ cmd[c].todo # {}
       THEN [cmd[c] EXCEPT !.pc = "change", !.left = cmd[c].todo]
       ELSE IF cmd[c].mode = "change" /\ cmd[c].phase = "Stop"
       THEN [cmd[c] EXCEPT !.pc = "hookScan", !.left = Services]
       ELSE [cmd[c] EXCEPT !.pc = "after", !.locks = {}])
  /\ UNCHANGED pgVars

(***************************************************************************)
(* The playground-wide hooks, run without a lock.                          *)
(***************************************************************************)
\* check_call() of a hook that fails raises CalledProcessError, which nobody
\* catches.
HookFails(c) ==
  /\ "hook" \in Faults /\ cmd[c].pc \in {"preStart", "postStop"}
  /\ Become(c, Ended(c, "failed"))
  /\ UNCHANGED pgVars

PreStart(c) ==
  /\ cmd[c].pc = "preStart"
  /\ Become(c, [cmd[c] EXCEPT !.left = Range(cmd[c].targets),
       !.pc = IF cmd[c].job = "debug" THEN "foreground" ELSE "lock"])
  /\ UNCHANGED pgVars

\* run_post_stop_hook = all(state == 'down' for every service there is), under
\* the locks of the targets: one status at a time, up to the first that is
\* not down.
\* Mutant: state() does not say 'down' for Unsupervised.
DownUnlessGone(s) == SvState(s) = "down"

Down(s) == SvState(s) \in {"unsupervised", "down"}

HookScan(c, s) ==
  /\ cmd[c].pc = "hookScan" /\ s \in cmd[c].left
  /\ Become(c, IF Down(s) THEN [cmd[c] EXCEPT !.left = @ \ {s}]
               ELSE [cmd[c] EXCEPT !.pc = "after", !.left = {}, !.locks = {}])
  /\ UNCHANGED pgVars

AllDown(c) ==
  /\ cmd[c].pc = "hookScan" /\ cmd[c].left = {}
  /\ Become(c, [cmd[c] EXCEPT !.pc = "postStop", !.hook = TRUE, !.locks = {}])
  /\ UNCHANGED pgVars

PostStop(c) ==
  /\ cmd[c].pc = "postStop"
  /\ Become(c, [cmd[c] EXCEPT !.pc = "after"])
  /\ UNCHANGED pgVars

(***************************************************************************)
(* What a command does after __change_state().                             *)
(***************************************************************************)
Ending(c, phase) == cmd[c].pc = "after" /\ cmd[c].phase = phase

\* stop() goes on with the loggers of the services that stopped; the stop of
\* a restart leaves the loggers alone and goes on with start(), unless it
\* failed.
AfterStop(c) ==
  /\ Ending(c, "Stop")
  /\ Become(c,
       IF cmd[c].job # "restart"
       THEN Begin(cmd[c], cmd[c].job, "StopLogs", cmd[c].targets,
                  Range(cmd[c].targets) \ Range(cmd[c].failed))
       ELSE IF cmd[c].failed = <<>>
       THEN Begin(cmd[c], "start", "Start", cmd[c].targets, Range(cmd[c].targets))
       ELSE Ended(c, "failed"))
  /\ UNCHANGED pgVars

\* Mutant: what failed is not stopped.
AfterStartUnstopped(c) ==
  /\ Ending(c, "Start")
  /\ Become(c, Ended(c, IF cmd[c].failed = <<>> THEN "ok" ELSE "startFailed"))
  /\ UNCHANGED pgVars

\* __show_failure('start'): the services that failed to start are stopped.
AfterStart(c) ==
  /\ Ending(c, "Start")
  /\ Become(c,
       IF cmd[c].failed = <<>> THEN Ended(c, "ok")
       ELSE Begin([cmd[c] EXCEPT !.failed = <<>>], "failStart", "Stop",
                  cmd[c].failed, Range(cmd[c].failed)))
  /\ UNCHANGED pgVars

AfterStopLogs(c) ==
  /\ Ending(c, "StopLogs")
  /\ Become(c,
       IF cmd[c].job = "failStart" THEN Ended(c, "startFailed")
       ELSE IF cmd[c].failed # <<>> THEN Ended(c, "failed")
       ELSE IF cmd[c].job = "stop" THEN Ended(c, "ok")
       ELSE [cmd[c] EXCEPT !.pc = "preStart"])
  /\ UNCHANGED pgVars

(***************************************************************************)
(* debug(): it takes no .pgctl.lock but those of its stop().               *)
(***************************************************************************)
DebugState(c) ==
  /\ cmd[c].pc = "debugState"
  /\ Become(c, IF \A s \in Range(cmd[c].targets) : Down(s)
               THEN [cmd[c] EXCEPT !.pc = "preStart"]
               ELSE Begin(cmd[c], "debug", "Stop", cmd[c].targets,
                          Range(cmd[c].targets)))
  /\ UNCHANGED pgVars

DebugFlock(c, s) ==
  /\ cmd[c].pc = "foreground" /\ s \in Range(cmd[c].targets)
  /\ IF DirFree(c, s) THEN UseFlock(c, s, "exec") ELSE Become(c, Ended(c, "runaway"))
  /\ UNCHANGED pgVars

\* The process of the command becomes the run script.
DebugExec(c) ==
  /\ cmd[c].pc = "exec"
  /\ Foreground(cmd[c].flocked, c \in doomed)
  /\ Become(c, Ended(c, "exec"))

(***************************************************************************)
(* The end of a command's process that the command did not ask for.        *)
(***************************************************************************)
Killed(c) ==
  /\ c \in doomed
  /\ doomed' = doomed \ {c}
  /\ cmd' = [cmd EXCEPT ![c] = IF Active(c) THEN Ended(c, "killed") ELSE @]
  /\ UNCHANGED shared
  /\ UNCHANGED pgVars

Crash(c) ==
  /\ "crash" \in Faults /\ Active(c)
  /\ Become(c, Ended(c, "crashed"))
  /\ UNCHANGED pgVars

(***************************************************************************)
(* The specification.                                                      *)
(***************************************************************************)
StepAt(c, s) ==
  \/ TakeLock(c, s) \/ FindLockHeld(c, s)
  \/ CleanUp(c, s) \/ FindSupervised(c, s) \/ TakeFlock(c, s) \/ FindRunaway(c, s)
  \/ BringUp(c, s) \/ BringDown(c, s) \/ KillLogger(c, s)
  \/ AssertReady(c, s) \/ AssertUnsupervised(c, s)
  \/ AssertUnlocked(c, s) \/ AssertNoProcess(c, s)
  \/ Recheck(c, s) \/ ForceStop(c, s) \/ GiveUp(c, s)
  \/ HookScan(c, s) \/ DebugFlock(c, s)

Step(c) ==
  \/ \E s \in Services : StepAt(c, s)
  \/ RaiseLockHeld(c) \/ Locked(c) \/ Supervise(c) \/ Changed(c) \/ BreakOut(c) \/ AssertedAll(c)
  \/ PreStart(c) \/ AllDown(c) \/ PostStop(c)
  \/ AfterStop(c) \/ AfterStart(c) \/ AfterStopLogs(c)
  \/ DebugState(c) \/ DebugExec(c)

\* A script of the playground fails.
Failing(c) == HookFails(c) \/ \E s \in Services : MessageFails(c, s)

Invocation(c) ==
  \/ \E job \in Jobs, q \in Requests, f \in Forces : Invoke(c, job, q, f)
  \/ \E o \in Services, job \in Jobs, q \in Requests : InvokeNested(c, o, job, q)
  \/ \E s \in Services : PollRestart(c, s)

Next ==
  \/ \E c \in Commands : Invocation(c) \/ Step(c) \/ Failing(c) \/ Killed(c) \/ Crash(c)
  \/ \E s \in Services : Environment(s) /\ UNCHANGED <<cmd, doomed, shared>>

Init ==
  /\ cmd = [c \in Commands |-> Idle]
  /\ doomed = {} /\ shared = {}
  /\ \E up \in InitiallyUp : PgInit(up)

Spec == Init /\ [][Next]_vars

\* Processes run when they can.  A command does not time out for ever while
\* it could (time passes), s6-supervise starts up, exits as it was asked and
\* starts what it should run, and what was sent SIGKILL is gone in the end.
\* Nothing makes a run script exit or become ready.  The services stop forking
\* at some time: one that forks between every scan and its kill, for ever,
\* does keep a stop from ending.
Forked == \E s \in Services : \E r \in Strays \cap procs'[s] :
            r \notin procs[s] \/ r \in dying[s] \ dying'[s]

Fairness ==
  /\ <>[][~Forked]_vars
  /\ \A c \in Commands : WF_vars(Step(c)) /\ WF_vars(Killed(c))
  /\ \A c \in Commands : SF_vars(\E s \in Services : ForceStop(c, s) \/ GiveUp(c, s))
  /\ \A s \in Services :
       /\ WF_vars(Reap(s) /\ UNCHANGED <<cmd, doomed, shared>>)
       /\ WF_vars(Boot(s) /\ UNCHANGED <<cmd, doomed, shared>>)
       /\ WF_vars(SupGone(s) /\ UNCHANGED <<cmd, doomed, shared>>)
       /\ WF_vars(LogBoot(s) /\ UNCHANGED <<cmd, doomed, shared>>)
       /\ WF_vars(LogExit(s) /\ UNCHANGED <<cmd, doomed, shared>>)

FairSpec == Spec /\ Fairness

(***************************************************************************)
(* Properties.                                                             *)
(***************************************************************************)
AtMostOne(R) == \A r, q \in R : r = q

\* At most one run script of a service is alive: whatever was killed, crashed
\* or raced, nobody starts a second one beside one that still runs
\* (background() and foreground() under the inherited flock).  The exception
\* are services that one of their own processes started (or ran by `pgctl debug`)
\* while others of them lived: it has their flock, which is not tested then.
OneInstance == \A s \in Services \ shared : AtMostOne(procs[s] \cap RunRoles)

\* pgctl-poll-ready, when it becomes `pgctl restart`, has the flock of the service
\* that it is to start, and processes of that service may live.  Like every command
\* but those that a run script invoked, it has tested the flock anew before it
\* starts anything.
StartsUnderTestedFlock ==
  [][\A c \in Commands, s \in Services :
       TakeFlock(c, s) \/ DebugFlock(c, s)
         => "nested" \in Faults \/ ~ParentLock(c, s)]_vars

\* The services a command is changing or checking under playground_locked().
Critical == {"assert", "flock", "scan", "rejected", "change", "spawn", "svcUp",
             "hookScan"}
Managed(c) == IF cmd[c].pc \in Critical THEN Range(cmd[c].targets) ELSE {}

\* No two commands are in a critical section for the same service, though the
\* lock is released and taken again several times in one command.
ExclusiveManagement ==
  \A c, d \in Commands : c # d => Managed(c) \cap Managed(d) = {}

\* The services that the change loop of a stop has ticked off as stopped.
TickedOff(c) ==
  IF cmd[c].phase = "Start" \/ cmd[c].mode = "check" THEN {}
  ELSE Managed(c) \ (cmd[c].todo \cup Range(cmd[c].failed))

\* The processes that no scan finds.
Unseen == IF Tracing THEN {} ELSE {"closed"}

\* Some service may run in the foreground.
MayBeForeground ==
  "debug" \in Jobs /\ (Reuse \/ \E d \in Commands : cmd[d].result = "exec")

\* A service that a stop ticked off has no s6-supervise, run script or orphan
\* while the stop still holds its locks, and nothing that kept the flock; with
\* environment tracing, nothing at all.  (The status, the flock and the scan
\* of assert_stopped() are read at three different times.)  `pgctl debug`
\* takes no .pgctl.lock, so what a command became is not covered.
StoppedIsDown ==
  \A c \in Commands : \A s \in TickedOff(c) :
    /\ procs[s] \cap {"sup", "run", "old", "poll", "pollEnd"} = {}
    /\ ~MayBeForeground => procs[s] \subseteq Unseen

\* "We don't want services that failed to start to be 'up'" (cli.py:525): when
\* a lone start has reported failed services, none of their processes is left,
\* but for those that nobody sees without environment tracing.
FailedStartIsDown ==
  \A c \in Commands :
    (/\ cmd[c].result = "startFailed" /\ cmd[c].force
     /\ \A d \in Commands \ {c} : cmd[d].pc = "idle")
      => \A s \in Range(cmd[c].targets) : procs[s] \subseteq Unseen

\* However stop commands overlap, the one that finds the playground fully
\* stopped runs the post-stop hook: it is not lost between them, unless one of
\* them was killed.
HookNotLost ==
  (/\ \A c \in Commands : ~Active(c) /\ cmd[c].result \notin {"killed", "crashed"}
   /\ \A s \in Services : SvState(s) = "unsupervised")
    => \E c \in Commands : cmd[c].hook

\* Of two commands that list the services in one order, one gets its locks: they
\* do not turn each other away one after the other.  (Three stops may: c turns e
\* away, which turns d away before it ends, which turns c away in its second pass.
\* Two starts may, too: one stops what failed in the order in which it failed.)
SomeoneProceeds == \E c \in Commands : cmd[c].result # "lockHeld"

\* d has the lock that c takes next: c will raise LockHeld, or is about to.
TurnsAway(d, c) ==
  /\ cmd[c].pc \in {"lock", "lockHeld"}
  /\ \E s \in Services : IsNext(c, s) /\ s \in cmd[d].locks

\* c lists its services in the order of their ranks.
Follows(c, rank) ==
  \A i, j \in DOMAIN cmd[c].targets :
    i < j => rank[cmd[c].targets[i]] < rank[cmd[c].targets[j]]

\* However many commands overlap, those that list their services in one order,
\* whichever it is, are not turned away in a circle: one of them is not turned
\* away by any of them.
NoCircle ==
  \A rank \in [Services -> 1..Cardinality(Services)], group \in (SUBSET Commands) \ {{}} :
    (\A c \in group : Follows(c, rank))
      => \E c \in group : \A d \in group : ~TurnsAway(d, c)

\* Every command ends, whatever the services do.
CommandEnds == \A c \in Commands : Active(c) ~> ~Active(c)

\* The locks keep what module ServiceLock promises: one manager and one run
\* script for a service, and no supervisor starts one that a stop has ticked
\* off before the stop has released its locks, whichever of the two kinds of
\* locks each command happens to hold.  Of a service that one of its own
\* processes started (see OneInstance), the run scripts are not counted.
Lock == INSTANCE ServiceLock WITH
  Managers <- Commands,
  managed  <- [c \in Commands |-> Managed(c)],
  stopped  <- [c \in Commands |-> TickedOff(c)],
  instance <- [s \in Services |-> IF s \in shared THEN {} ELSE procs[s] \cap RunRoles]

KeepsServiceLock == Lock!LockSpec

(***************************************************************************)
(* Why ExclusiveManagement and OneInstance hold: inductive invariants.     *)
(***************************************************************************)
\* A command in a critical section has the .pgctl.lock files of its targets;
\* before that, of those it has visited.
OwnsLocks(r) ==
  /\ r.pc = "lock" => Range(r.targets) \ r.left \subseteq r.locks
  /\ r.pc \in Critical => Range(r.targets) \subseteq r.locks

\* The flock of a parent is taken untested, while processes of the service run.
\* A restart may begin with it for one of its own targets, but it starts nothing
\* before its stop has taken a flock for each of them, which uses the parent's up.
\* Only a start or debug that a run script invoked can start something under it.
UsesUpParentLock(r) == r.inherits =>
  /\ r.pc # "scan"
  /\ r.job = "debug" \/ r.pc \in {"debugState", "foreground"} => "nested" \in Faults
  /\ r.phase = "Start" => "nested" \in Faults \/ r.origin \notin Range(r.targets)
  /\ r.phase = "Stop" =>
       /\ r.failed # <<>> \/ r.todo = Range(r.targets)
       /\ r.mode = "check" /\ r.pc \in {"assert", "flock", "rejected"}
            => r.left = r.todo
       /\ r.pc \in {"hookScan", "postStop", "after"}
            => r.failed # <<>> \/ r.todo = {}

\* The loops of a start visit its targets only.
VisitsTargets(r) == r.phase = "Start" => r.left \cup r.todo \subseteq Range(r.targets)

CommandInv ==
  \A c \in Commands :
    OwnsLocks(cmd[c]) /\ UsesUpParentLock(cmd[c]) /\ VisitsTargets(cmd[c])

LockInv == \A c, d \in Commands : c # d => cmd[c].locks \cap cmd[d].locks = {}

\* Run scripts: an orphan or a foreground one keeps the flock, so there is no
\* s6-supervise, hence no run script, beside it, unless they share the flock.
InstanceInv ==
  \A s \in Services :
    /\ "run" \in procs[s] => "sup" \in procs[s]
    /\ s \notin shared => /\ "sup" \in procs[s] => procs[s] \cap {"old", "fg"} = {}
                         /\ ~({"old", "fg"} \subseteq procs[s])

\* The flock under which something is spawned is nobody else's, or counts as shared.
FlockInv ==
  \A c \in Commands : cmd[c].pc \in {"spawn", "exec"} =>
    /\ cmd[c].flocked \in Services
    /\ cmd[c].flocked \notin shared => NobodyElse(c, cmd[c].flocked)

SafetyInv == CommandInv /\ LockInv /\ InstanceInv /\ FlockInv

(***************************************************************************)
(* Why StoppedIsDown holds, and why Pgctl implements ServiceLock.          *)
(***************************************************************************)
\* Which phases belong to which jobs; debug() alone starts something by hand.
JobFits(r) ==
  /\ r.phase = "Stop" => r.job # "start"
  /\ r.phase = "StopLogs" => r.job \in {"stop", "failStart", "debug"}
  /\ r.pc = "preStart" => r.phase = "Start" \/ r.job = "debug"
  /\ r.pc \in {"debugState", "foreground", "exec"} => r.job = "debug"
  /\ r.job = "debug" => "debug" \in Jobs
  /\ r.result = "exec" => r.pc = "done"

\* The loops of __locked_change_state visit what is left to change; and a start
\* spawns only what it manages.
VisitsTodo(r) ==
  /\ r.mode = "change" /\ r.pc \in Critical \ {"hookScan"} => r.left \subseteq r.todo
  /\ r.pc = "spawn" => r.phase = "Start" /\ r.flocked \in Range(r.targets)

\* When a stop begins to change states it has ticked off nothing.
BeginsUnticked(r) ==
  r.phase # "Start" /\ (r.mode = "check" \/ r.pc = "lock")
    => Range(r.targets) \subseteq r.todo \cup Range(r.failed)

CourseOK(r) == JobFits(r) /\ VisitsTodo(r) /\ BeginsUnticked(r)

StopInv == (\A c \in Commands : CourseOK(cmd[c])) /\ StoppedIsDown

(***************************************************************************)
(* Why NoCircle holds.                                                     *)
(***************************************************************************)
\* A command holds no .pgctl.lock between its critical sections; and while it
\* takes them, it has those in front of those that it has not visited.
TakesInOrder(r) ==
  /\ r.pc \notin Critical \cup {"lock", "lockHeld"} => r.locks = {}
  /\ r.pc \in {"lock", "lockHeld"} =>
       /\ r.locks \cup r.left \subseteq Range(r.targets)
       /\ \A s \in r.locks, t \in r.left :
            Position(r.targets, s) < Position(r.targets, t)

LockOrderInv == \A c \in Commands : TakesInOrder(cmd[c])

(***************************************************************************)
(* Why FailedStartIsDown holds.                                            *)
(***************************************************************************)
\* What a command that stops its targets has not found stopped since it began.
Unstopped(r) ==
  IF r.phase # "Stop" \/ r.pc \in {"hookScan", "postStop", "after"} THEN {}
  ELSE IF r.mode = "check" /\ r.pc \in {"assert", "flock", "scan"} THEN r.left
  ELSE r.todo

\* The services that a start could not start, once it stops them.
StopsFailed(r) == r.job = "failStart" \/ r.result = "startFailed"
FoundStopped(r) == IF StopsFailed(r) /\ r.force THEN Range(r.targets) \ Unstopped(r) ELSE {}

\* A stop that kills as long as it takes fails for none of them.
FailsNone(r) ==
  /\ r.job = "failStart" => r.phase # "Start"
  /\ r.job = "failStart" /\ r.phase = "Stop" /\ r.force => r.failed = <<>>
  /\ r.result = "startFailed" => r.pc = "done" /\ r.phase = "Start"

FailedStartInv ==
  \A c \in Commands :
    /\ FailsNone(cmd[c])
    /\ (\A d \in Commands \ {c} : cmd[d].pc = "idle")
         => \A s \in FoundStopped(cmd[c]) : procs[s] \subseteq Unseen

(***************************************************************************)
(* Why HookNotLost holds, as long as commands only stop what was up.       *)
(***************************************************************************)
\* Commands stop services, with force and one time each; something is up at first,
\* nobody but a command stops it, and no message script fails.
OnlyStops ==
  /\ Jobs \subseteq {"stop"} /\ FALSE \notin Forces /\ ~Reuse
  /\ Faults \cap {"supkill", "msg", "poll"} = {}
  /\ {} \notin InitiallyUp

Lost(r) == r.result \in {"killed", "crashed"}

\* What such a command may do.
Stops(r) ==
  \/ r = Idle
  \/ r.pc = "done"
  \/ /\ r.pc \in (Critical \ {"spawn", "svcUp"}) \cup {"lock", "lockHeld", "postStop", "after"}
     /\ r.phase # "Start" /\ r.job = "stop" /\ r.force /\ ~Lost(r)
     /\ r.pc = "change" => r.mode = "change"

\* It will look at all services once its own are stopped; until then it waits for
\* some of them.
WillScan(r) == r.phase = "Stop" /\ r.mode = "change" /\ r.pc \in Critical
WaitsFor(r) == IF WillScan(r) /\ r.pc # "hookScan" THEN r.todo ELSE {}

GoingDown(s) == "sup" \in procs[s] /\ (superv[s] = "exiting" \/ "sup" \in dying[s])

\* A service goes down only while a command waits for it, so whoever waits for
\* the last will find them all down.
HookInv ==
  /\ \A c \in Commands : Stops(cmd[c])
  /\ \A s \in Services : "sup" \in procs[s] => superv[s] # "booting"
  /\ \A s \in Services : GoingDown(s) =>
       \E c \in Commands : Lost(cmd[c]) \/ s \in WaitsFor(cmd[c])
  /\ (\A s \in Services : "sup" \notin procs[s]) =>
       \E c \in Commands : Lost(cmd[c]) \/ cmd[c].hook \/ WillScan(cmd[c])

(***************************************************************************)
(* Why SomeoneProceeds holds of two stops that list services in one order. *)
(***************************************************************************)
TwoOrderedStops ==
  /\ \E c, d \in Commands : c # d /\ Commands = {c, d}
  /\ Jobs \subseteq {"stop"} /\ "poll" \notin Faults /\ ~Reuse
  /\ \E rank \in [Services -> Nat] : \A q \in Requests : \A i, j \in DOMAIN q :
       i < j => rank[q[i]] < rank[q[j]]

\* What a stop may do: it asks for what it was invoked with, to its end.
OnlyStopping(r) ==
  /\ r.pc \notin {"idle", "done"} =>
       r.job = "stop" /\ r.phase # "Start" /\ r.targets \in Requests
  /\ r.pc # "done" => r.result = "none"

\* It was turned away, or is about to be.
TurnedAway(r) == r.pc = "lockHeld" \/ r.result = "lockHeld"

\* Whoever was turned away has no lock that the other will want; so the other, which
\* had the lock that it wanted, is not turned away in its turn.
ProceedInv ==
  /\ \A c \in Commands : OnlyStopping(cmd[c])
  /\ \A c, d \in Commands : c # d /\ TurnedAway(cmd[c]) =>
       /\ cmd[d].pc # "idle" /\ ~TurnedAway(cmd[d])
       /\ Range(cmd[d].targets) \cap cmd[c].locks = {}

(***************************************************************************)
(* What documentation and comments say, and the code does not do.          *)
(***************************************************************************)
\* "This is usually a no-op because we already verified that the service is
\* down according to s6" (cli.py:116): a start kills no service that is ready.
StartSparesReady ==
  [][\A c \in Commands, s \in Services :
       CleanUp(c, s) /\ SvState(s) = "ready" => dying'[s] = dying[s]]_vars

\* "stdin and stdout will be captured from the supervised process and written
\* to log files" (design.rst:40): with no command at work, a service that is
\* up has its logger.
UpIsLogged ==
  (\A c \in Commands : ~Active(c))
    => \A s \in Services : SvState(s) = "ready" => logger[s] # "gone"

\* "If the playground is in a fully stopped state, run the playground wide
\* post-stop hook" (cli.py:335): no service is supervised then.
HookOnlyWhenStopped ==
  \A c \in Commands :
    (cmd[c].pc = "postStop" /\ \A d \in Commands \ {c} : ~Active(d))
      => \A s \in Services : ~SvOk(s)

\* "Normally pgctl would kill these automatically for you, but you specified
\* the --no-force option" (functions.py:100): nobody else sees that message.
RunawayOnlyWithNoForce ==
  \A c \in Commands : cmd[c].result = "runaway" => ~cmd[c].force

\* "This command is blocking until all services have successfully reached the
\* up state" (usage.rst:18): what a start takes for up is not being stopped.
AcceptedIsNotStopping ==
  [][\A c \in Commands, s \in Services :
       AssertReady(c, s) /\ SvState(s) = "ready" => superv[s] # "exiting"]_vars

\* "We don't want services that failed to start to be 'up'" (cli.py:525): a start
\* that does not end well leaves none of its failed services up.
FailedAreNotUp ==
  [][\A c \in Commands :
       (cmd[c].phase = "Start" /\ Active(c) /\ cmd'[c].result = "failed")
         => \A s \in Range(cmd[c].failed) : SvStat(s) # "up"]_vars
=============================================================================
