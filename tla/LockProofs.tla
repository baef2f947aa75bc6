----------------------------- MODULE LockProofs ------------------------------
(***************************************************************************)
(* Proofs that a service which a stop has ticked off stays down while the  *)
(* stop holds its locks, and that Pgctl implements ServiceLock.  And when  *)
(* some services fail to start, the command stops them: proof that it      *)
(* leaves none of their processes, if no other command is about.           *)
(***************************************************************************)
EXTENDS PgctlProofs

(***************************************************************************)
(* The invariant CourseOK of one command.                                  *)
(***************************************************************************)
\* CourseOK holds of a command that has ended.
LEMMA EndedCourse ==
  ASSUME TypeOK, NEW c \in Commands, NEW how,
         cmd' = [cmd EXCEPT ![c] = Ended(c, how)]
  PROVE  CourseOK(cmd'[c])
<1>1. cmd'[c] = Ended(c, how)
  BY DEF TypeOK
<1>2. /\ Ended(c, how).pc = "done" /\ Ended(c, how).phase = "Start"
      /\ Ended(c, how).job = "start" /\ Ended(c, how).left = {}
  BY DEF Ended, Idle
<1>3. QED
  BY <1>1, <1>2 DEF CourseOK, JobFits, VisitsTodo, BeginsUnticked, Critical

\* A command that begins a phase, with all services that did not fail to do.
LEMMA BeginCourse ==
  ASSUME TypeOK, NEW c \in Commands, NEW r \in CommandState,
         NEW job, NEW phase, NEW q \in Seq(Services), NEW todo \in SUBSET Services,
         cmd' = [cmd EXCEPT ![c] = Begin(r, job, phase, q, todo)],
         r.result # "exec",
         phase = "Stop" => job # "start",
         phase = "StopLogs" => job \in {"stop", "failStart", "debug"},
         job = "debug" => "debug" \in Jobs,
         phase # "Start" => Range(q) \subseteq todo \cup Range(r.failed)
  PROVE  CourseOK(cmd'[c])
<1> DEFINE b == Begin(r, job, phase, q, todo)
<1>1. cmd'[c] = b
  BY DEF TypeOK
<1>2. b.result = r.result
  BY DEF Begin, CommandState
<1>3. /\ b.pc = "lock" /\ b.mode = "check" /\ b.job = job
      /\ b.phase = phase /\ b.targets = q /\ b.todo = todo /\ b.failed = r.failed
  BY BeginFields
<1> HIDE DEF b
<1>4. QED
  BY <1>1, <1>2, <1>3 DEF CourseOK, JobFits, VisitsTodo, BeginsUnticked, Critical

\* It is kept when a command goes from one phase to the next, or has none left.
LEMMA TurnCourse ==
  ASSUME TypeOK, NEW c \in Commands, CourseOK(cmd[c]),
         \/ AfterStop(c) \/ AfterStart(c) \/ AfterStopLogs(c) \/ DebugState(c)
         \/ Killed(c)
  PROVE  CourseOK(cmd'[c])
<1>0. /\ cmd \in [Commands -> CommandState] /\ cmd[c] \in CommandState
      /\ cmd[c].job \in {"start", "failStart", "stop", "restart", "debug"}
      /\ cmd[c].targets \in Seq(Services) /\ cmd[c].failed \in Seq(Services)
      /\ Range(cmd[c].targets) \in SUBSET Services
      /\ Range(cmd[c].failed) \in SUBSET Services
  BY FieldTypes, RangeType DEF TypeOK
<1>a. /\ "StopLogs" # "Stop" /\ "StopLogs" # "Start" /\ "Stop" # "Start"
      /\ "start" # "debug" /\ "failStart" # "debug" /\ "failStart" # "start"
  OBVIOUS
<1>1. CASE AfterStop(c)
  <2>0. cmd[c].pc = "after" /\ cmd[c].phase = "Stop" /\ cmd[c].result # "exec"
    BY <1>1 DEF AfterStop, Ending, CourseOK, JobFits
  <2>1. CASE cmd[c].job # "restart"
    <3>1. cmd' = [cmd EXCEPT ![c] = Begin(cmd[c], cmd[c].job, "StopLogs", cmd[c].targets,
                                          Range(cmd[c].targets) \ Range(cmd[c].failed))]
      BY <1>1, <2>1 DEF AfterStop, Become
    <3>2. /\ cmd[c].job \in {"stop", "failStart", "debug"}
          /\ cmd[c].job = "debug" => "debug" \in Jobs
      BY <1>0, <2>0, <2>1 DEF CourseOK, JobFits
    <3> DEFINE todo == Range(cmd[c].targets) \ Range(cmd[c].failed)
    <3>3. /\ todo \in SUBSET Services
          /\ Range(cmd[c].targets) \subseteq todo \cup Range(cmd[c].failed)
      BY <1>0
    <3>4. cmd' = [cmd EXCEPT ![c] = Begin(cmd[c], cmd[c].job, "StopLogs",
                                          cmd[c].targets, todo)]
      BY <3>1
    <3> HIDE DEF todo
    <3>5. QED
      BY <1>0, <1>a, <2>0, <3>2, <3>3, <3>4, BeginCourse
  <2>2. CASE cmd[c].job = "restart" /\ cmd[c].failed = <<>>
    <3>1. cmd' = [cmd EXCEPT ![c] = Begin(cmd[c], "start", "Start", cmd[c].targets,
                                          Range(cmd[c].targets))]
      BY <1>1, <2>2 DEF AfterStop, Become
    <3> DEFINE b == Begin(cmd[c], "start", "Start", cmd[c].targets,
                          Range(cmd[c].targets))
    <3>2. b.pc = "lock" /\ b.job = "start" /\ b.phase = "Start" /\ b.mode = "check"
      BY <1>0, BeginFields
    <3>3. b.result = cmd[c].result
      BY <1>0 DEF Begin, CommandState
    <3>4. cmd'[c] = b
      BY <1>0, <3>1
    <3> HIDE DEF b
    <3>5. QED
      BY <2>0, <3>2, <3>3, <3>4 DEF CourseOK, JobFits, VisitsTodo, BeginsUnticked, Critical
  <2>3. CASE cmd[c].job = "restart" /\ cmd[c].failed # <<>>
    BY <1>1, <2>3, EndedCourse DEF AfterStop, Become
  <2>4. QED
    BY <2>1, <2>2, <2>3
<1>2. CASE AfterStart(c)
  <2>1. CASE cmd[c].failed = <<>>
    BY <1>2, <2>1, EndedCourse DEF AfterStart, Become
  <2>2. CASE cmd[c].failed # <<>>
    <3> DEFINE r == [cmd[c] EXCEPT !.failed = <<>>]
    <3>1. cmd' = [cmd EXCEPT ![c] = Begin(r, "failStart", "Stop", cmd[c].failed,
                                          Range(cmd[c].failed))]
      BY <1>2, <2>2 DEF AfterStart, Become
    <3>2. <<>> \in Seq(Services)
      OBVIOUS
    <3>3. r \in CommandState /\ r.result = cmd[c].result
      BY <1>0, <3>2 DEF CommandState
    <3>4. cmd[c].result # "exec"
      BY <1>2 DEF AfterStart, Ending, CourseOK, JobFits
    <3> HIDE DEF r
    <3> DEFINE todo == Range(cmd[c].failed)
               b == Begin(r, "failStart", "Stop", cmd[c].failed, todo)
    <3>5. /\ b.pc = "lock" /\ b.job = "failStart" /\ b.phase = "Stop"
          /\ b.mode = "check" /\ Range(b.targets) = todo /\ b.todo = todo
      BY <3>3, BeginFields
    <3>6. b.result = cmd[c].result
      BY <3>3 DEF Begin, CommandState
    <3>7. cmd'[c] = b
      BY <1>0, <3>1
    <3> HIDE DEF b, todo
    <3>8. QED
      BY <3>4, <3>5, <3>6, <3>7 DEF CourseOK, JobFits, VisitsTodo, BeginsUnticked, Critical
  <2>3. QED
    BY <2>1, <2>2
<1>3. CASE AfterStopLogs(c)
  <2>1. CASE /\ cmd' = [cmd EXCEPT ![c] = [cmd[c] EXCEPT !.pc = "preStart"]]
             /\ cmd[c].job \notin {"failStart", "stop"}
    BY <1>0, <1>3, <2>1 DEF AfterStopLogs, Ending, CommandState, CourseOK, JobFits,
       VisitsTodo, BeginsUnticked, Critical
  <2>2. ASSUME NEW how, cmd' = [cmd EXCEPT ![c] = Ended(c, how)]
        PROVE  CourseOK(cmd'[c])
    BY <2>2, EndedCourse
  <2>3. \/ cmd' = [cmd EXCEPT ![c] = Ended(c, "startFailed")]
        \/ cmd' = [cmd EXCEPT ![c] = Ended(c, "failed")]
        \/ cmd' = [cmd EXCEPT ![c] = Ended(c, "ok")]
        \/ /\ cmd' = [cmd EXCEPT ![c] = [cmd[c] EXCEPT !.pc = "preStart"]]
           /\ cmd[c].job \notin {"failStart", "stop"}
    BY <1>3 DEF AfterStopLogs, Become
  <2>4. QED
    BY <2>1, <2>2, <2>3
<1>4. CASE DebugState(c)
  <2>0. cmd[c].job = "debug" /\ "debug" \in Jobs /\ cmd[c].result # "exec"
    BY <1>4 DEF DebugState, CourseOK, JobFits
  <2>1. CASE \A s \in Range(cmd[c].targets) : Down(s)
    <3>1. cmd' = [cmd EXCEPT ![c] = [cmd[c] EXCEPT !.pc = "preStart"]]
      BY <1>4, <2>1 DEF DebugState, Become
    <3>2. QED
      BY <1>0, <1>4, <2>0, <3>1 DEF DebugState, CommandState, CourseOK, JobFits,
         VisitsTodo, BeginsUnticked, Critical
  <2>2. CASE ~\A s \in Range(cmd[c].targets) : Down(s)
    <3>1. cmd' = [cmd EXCEPT ![c] = Begin(cmd[c], "debug", "Stop", cmd[c].targets,
                                          Range(cmd[c].targets))]
      BY <1>4, <2>2 DEF DebugState, Become
    <3>2. QED
      BY <1>0, <2>0, <3>1, BeginCourse
  <2>3. QED
    BY <2>1, <2>2
<1>5. CASE Killed(c)
  <2>1. CASE Active(c)
    BY <1>5, <2>1, EndedCourse DEF Killed
  <2>2. CASE ~Active(c)
    <3>1. cmd' = cmd
      BY <1>0, <1>5, <2>2 DEF Killed
    <3>2. QED
      BY <3>1
  <2>3. QED
    BY <2>1, <2>2
<1>6. QED
  BY <1>1, <1>2, <1>3, <1>4, <1>5

\* What is appended is one more element.
LEMMA RangeAppend ==
  ASSUME NEW S, NEW q \in Seq(S), NEW e \in S
  PROVE  Range(Append(q, e)) = Range(q) \cup {e}
<1>1. /\ DOMAIN Append(q, e) = DOMAIN q \cup {Len(q) + 1}
      /\ Append(q, e)[Len(q) + 1] = e
      /\ \A i \in DOMAIN q : Append(q, e)[i] = q[i]
  OBVIOUS
<1>2. QED
  BY <1>1 DEF Range

\* CourseOK is kept by the steps at one service.
LEMMA StepAtCourse ==
  ASSUME TypeOK, NEW c \in Commands, NEW s \in Services, CourseOK(cmd[c]),
         CommandOK(cmd[c]), StepAt(c, s)
  PROVE  CourseOK(cmd'[c])
<1>0. cmd[c] \in CommandState /\ cmd \in [Commands -> CommandState]
  BY FieldTypes DEF TypeOK
<1> USE <1>0 DEF CourseOK, JobFits, VisitsTodo, BeginsUnticked, Critical, CommandState
<1>1. CASE TakeLock(c, s)
  BY <1>1 DEF TakeLock, IsNext, Become
<1>2. CASE FindLockHeld(c, s)
  BY <1>2 DEF FindLockHeld, IsNext, Become
<1>3. CASE CleanUp(c, s)
  BY <1>3 DEF CleanUp, Changing, IsNext, ForceCleanup
<1>4. CASE FindSupervised(c, s)
  BY <1>4 DEF FindSupervised, Changing, IsNext, Become
<1>5. CASE TakeFlock(c, s)
  BY <1>5 DEF TakeFlock, UseFlock, Changing, IsNext, Become, CommandOK, VisitsTargets
<1>6. CASE FindRunaway(c, s)
  BY <1>6, EndedCourse DEF FindRunaway, Changing, IsNext, Become
<1>7. CASE BringUp(c, s)
  BY <1>7 DEF BringUp, Visited, IsNext, Become
<1>8. CASE BringDown(c, s)
  BY <1>8 DEF BringDown, Changing, Visited, IsNext, Become
<1>9. CASE KillLogger(c, s)
  BY <1>9 DEF KillLogger, Changing, Visited, IsNext, Become
<1>10. CASE AssertReady(c, s)
  <2>1. CASE cmd' = [cmd EXCEPT ![c] = [cmd[c] EXCEPT !.pc = "assert", !.flocked = NoOne,
                        !.left = @ \ {s},
                        !.todo = IF cmd[c].mode = "change" THEN @ \ {s} ELSE @]]
    BY <1>10, <2>1 DEF AssertReady, Asserting, IsNext
  <2>2. CASE cmd' = [cmd EXCEPT ![c] = [cmd[c] EXCEPT !.pc = "rejected", !.flocked = NoOne]]
    BY <1>10, <2>2 DEF AssertReady, Asserting, IsNext
  <2>3. QED
    BY <1>10, <2>1, <2>2 DEF AssertReady, Accept, Reject, Become
<1>11. CASE AssertUnsupervised(c, s)
  <2>1. CASE cmd' = [cmd EXCEPT ![c] = [cmd[c] EXCEPT !.pc = "flock"]]
    BY <1>11, <2>1 DEF AssertUnsupervised, Asserting, IsNext
  <2>2. CASE cmd' = [cmd EXCEPT ![c] = [cmd[c] EXCEPT !.pc = "rejected", !.flocked = NoOne]]
    BY <1>11, <2>2 DEF AssertUnsupervised, Asserting, IsNext
  <2>3. QED
    BY <1>11, <2>1, <2>2 DEF AssertUnsupervised, Reject, Become
<1>12. CASE AssertUnlocked(c, s)
  <2>1. CASE cmd' = [cmd EXCEPT ![c] = [cmd[c] EXCEPT !.pc = "scan", !.flocked = s,
                        !.inherits = FALSE]]
    BY <1>12, <2>1 DEF AssertUnlocked, Asserting, IsNext
  <2>2. CASE cmd' = [cmd EXCEPT ![c] = [cmd[c] EXCEPT !.pc = "rejected", !.inherits = FALSE]]
    BY <1>12, <2>2 DEF AssertUnlocked, Asserting, IsNext
  <2>3. QED
    BY <1>12, <2>1, <2>2 DEF AssertUnlocked, Become
<1>13. CASE AssertNoProcess(c, s)
  <2>1. CASE cmd' = [cmd EXCEPT ![c] = [cmd[c] EXCEPT !.pc = "assert", !.flocked = NoOne,
                        !.left = @ \ {s},
                        !.todo = IF cmd[c].mode = "change" THEN @ \ {s} ELSE @]]
    BY <1>13, <2>1 DEF AssertNoProcess, Asserting, IsNext
  <2>2. CASE cmd' = [cmd EXCEPT ![c] = [cmd[c] EXCEPT !.pc = "rejected", !.flocked = NoOne]]
    BY <1>13, <2>2 DEF AssertNoProcess, Asserting, IsNext
  <2>3. QED
    BY <1>13, <2>1, <2>2 DEF AssertNoProcess, Accept, Reject, Become
<1>14. CASE Recheck(c, s)
  BY <1>14 DEF Recheck, Rejected, IsNext, Become
<1>15. CASE ForceStop(c, s)
  BY <1>15 DEF ForceStop, Rejected, IsNext, ForceCleanup
<1>16. CASE GiveUp(c, s)
  BY <1>16 DEF GiveUp, Rejected, IsNext, Become
<1>17. CASE HookScan(c, s)
  <2>1. CASE cmd' = [cmd EXCEPT ![c] = [cmd[c] EXCEPT !.left = @ \ {s}]]
    BY <1>17, <2>1 DEF HookScan
  <2>2. CASE cmd' = [cmd EXCEPT ![c] = [cmd[c] EXCEPT !.pc = "after", !.left = {},
                        !.locks = {}]]
    BY <1>17, <2>2 DEF HookScan
  <2>3. QED
    BY <1>17, <2>1, <2>2 DEF HookScan, Become
<1>18. CASE DebugFlock(c, s)
  <2>1. CASE cmd' = [cmd EXCEPT ![c] = [cmd[c] EXCEPT !.pc = "exec", !.flocked = s,
                        !.inherits = FALSE]]
    BY <1>18, <2>1 DEF DebugFlock
  <2>2. CASE cmd' = [cmd EXCEPT ![c] = Ended(c, "runaway")]
    BY <1>18, <2>2, EndedCourse DEF DebugFlock
  <2>3. QED
    BY <1>18, <2>1, <2>2 DEF DebugFlock, UseFlock, Become
<1>19. QED
  BY <1>1, <1>2, <1>3, <1>4, <1>5, <1>6, <1>7, <1>8, <1>9, <1>10, <1>11, <1>12, <1>13, <1>14, <1>15, <1>16, <1>17, <1>18
     DEF StepAt

\* And by all steps of the command.
LEMMA StepCourse ==
  ASSUME TypeOK, NEW c \in Commands, CourseOK(cmd[c]), CommandOK(cmd[c]),
         Step(c) \/ Failing(c) \/ Crash(c) \/ Killed(c)
  PROVE  CourseOK(cmd'[c])
<1>0. cmd[c] \in CommandState /\ cmd \in [Commands -> CommandState]
  BY FieldTypes DEF TypeOK
<1> USE <1>0 DEF CourseOK, JobFits, VisitsTodo, BeginsUnticked, Critical, CommandState
<1>1. CASE RaiseLockHeld(c)
  BY <1>1, EndedCourse DEF RaiseLockHeld, Become
<1>2. CASE Locked(c)
  BY <1>2 DEF Locked, Become
<1>3. CASE Supervise(c)
  BY <1>3 DEF Supervise, Become
<1>4. CASE Changed(c)
  BY <1>4 DEF Changed, Become
<1>5. CASE BreakOut(c)
  BY <1>5 DEF BreakOut, Become
<1>6. CASE AssertedAll(c)
  <2>1. CASE cmd' = [cmd EXCEPT ![c] = [cmd[c] EXCEPT !.pc = "change", !.left = cmd[c].todo]]
    BY <1>6, <2>1 DEF AssertedAll
  <2>2. CASE /\ cmd' = [cmd EXCEPT ![c] = [cmd[c] EXCEPT !.pc = "hookScan", !.left = Services]]
             /\ cmd[c].mode = "change"
    BY <1>6, <2>2 DEF AssertedAll
  <2>3. CASE cmd' = [cmd EXCEPT ![c] = [cmd[c] EXCEPT !.pc = "after", !.locks = {}]]
    BY <1>6, <2>3 DEF AssertedAll
  <2>4. QED
    BY <1>6, <2>1, <2>2, <2>3 DEF AssertedAll, Become
<1>7. CASE PreStart(c)
  BY <1>7 DEF PreStart, Become
<1>8. CASE AllDown(c)
  BY <1>8 DEF AllDown, Become
<1>9. CASE PostStop(c)
  BY <1>9 DEF PostStop, Become
<1>10. CASE DebugExec(c)
  BY <1>10, EndedCourse DEF DebugExec, Become
<1>11. CASE Failing(c)
  BY <1>11, EndedCourse DEF Failing, HookFails, MessageFails, Become
<1>12. CASE Crash(c)
  BY <1>12, EndedCourse DEF Crash, Become
<1>13. CASE \E s \in Services : StepAt(c, s)
  BY <1>13, StepAtCourse
<1>14. CASE \/ AfterStop(c) \/ AfterStart(c) \/ AfterStopLogs(c) \/ DebugState(c)
           \/ Killed(c)
  BY <1>14, TurnCourse
<1>15. QED
  BY <1>1, <1>2, <1>3, <1>4, <1>5, <1>6, <1>7, <1>8, <1>9, <1>10, <1>11, <1>12,
     <1>13, <1>14 DEF Step

\* A command that was just invoked satisfies it.
LEMMA InvocationCourse ==
  ASSUME TypeOK, NEW c \in Commands, Invocation(c)
  PROVE  CourseOK(cmd'[c])
<1>0. cmd \in [Commands -> CommandState]
  BY DEF TypeOK
<1>1. ASSUME NEW r \in CommandState, NEW job \in Jobs \cup {"restart"},
             NEW q \in Seq(Services), r.pc = "idle", r.phase = "Start",
             r.mode = "check", r.result = "none",
             cmd' = [cmd EXCEPT ![c] = FirstPhase(r, job, q)]
      PROVE  CourseOK(cmd'[c])
  <2> DEFINE f == FirstPhase(r, job, q)
  <2>0. cmd'[c] = f
    BY <1>0, <1>1
  <2>1. CASE job = "debug"
    <3>1. f = [r EXCEPT !.pc = "debugState", !.job = job, !.targets = q]
      BY <2>1 DEF FirstPhase
    <3>2. /\ f.pc = "debugState" /\ f.job = "debug" /\ f.phase = "Start"
          /\ f.mode = "check" /\ f.result = "none"
      BY <1>1, <2>1, <3>1 DEF CommandState
    <3>3. "debug" \in Jobs
      BY <2>1
    <3> HIDE DEF f
    <3>4. QED
      BY <2>0, <3>2, <3>3 DEF CourseOK, JobFits, VisitsTodo, BeginsUnticked, Critical
  <2>2. CASE job # "debug"
    <3> DEFINE phase == IF job = "start" THEN "Start" ELSE "Stop"
    <3>1. f = Begin(r, job, phase, q, Range(q))
      BY <2>2 DEF FirstPhase
    <3>2. /\ f.pc = "lock" /\ f.mode = "check" /\ f.job = job
          /\ f.phase = phase /\ Range(f.targets) = f.todo
      BY <3>1, BeginFields
    <3>3. f.result = "none"
      BY <1>1, <3>1 DEF Begin, CommandState
    <3>4. f.phase # "StopLogs" /\ (f.phase = "Stop" => f.job # "start")
      BY <3>2
    <3> HIDE DEF f, phase
    <3>5. QED
      BY <2>0, <2>2, <3>2, <3>3, <3>4 DEF CourseOK, JobFits, VisitsTodo,
         BeginsUnticked, Critical
  <2>3. QED
    BY <2>1, <2>2
<1>2. ASSUME NEW job \in Jobs, NEW q \in Requests, NEW f \in Forces, Invoke(c, job, q, f)
      PROVE  CourseOK(cmd'[c])
  <2> DEFINE r == [Idle EXCEPT !.force = f]
  <2>1. /\ r \in CommandState /\ r.pc = "idle" /\ r.phase = "Start"
        /\ r.mode = "check" /\ r.result = "none"
    BY IdleType, PgctlAssumption DEF Idle, CommandState
  <2>2. cmd' = [cmd EXCEPT ![c] = FirstPhase(r, job, q)] /\ q \in Seq(Services)
    BY <1>2, PgctlAssumption DEF Invoke, Become
  <2> HIDE DEF r
  <2>3. QED
    BY <1>1, <2>1, <2>2
<1>3. ASSUME NEW o \in Services, NEW job \in Jobs \cup {"restart"},
             NEW q \in Seq(Services),
             Become(c, FirstPhase([Idle EXCEPT !.origin = o, !.inherits = TRUE], job, q))
      PROVE  CourseOK(cmd'[c])
  <2> DEFINE r == [Idle EXCEPT !.origin = o, !.inherits = TRUE]
  <2>1. /\ r \in CommandState /\ r.pc = "idle" /\ r.phase = "Start"
        /\ r.mode = "check" /\ r.result = "none"
    BY IdleType DEF Idle, CommandState
  <2>2. cmd' = [cmd EXCEPT ![c] = FirstPhase(r, job, q)]
    BY <1>3 DEF Become
  <2> HIDE DEF r
  <2>3. QED
    BY <1>1, <2>1, <2>2
<1>4. ASSUME NEW o \in Services, NEW job \in Jobs, NEW q \in Requests,
             InvokeNested(c, o, job, q)
      PROVE  CourseOK(cmd'[c])
  BY <1>3, <1>4, PgctlAssumption DEF InvokeNested
<1>5. ASSUME NEW s \in Services, PollRestart(c, s)
      PROVE  CourseOK(cmd'[c])
  <2>1. <<s>> \in Seq(Services)
    OBVIOUS
  <2>2. QED
    BY <1>3, <1>5, <2>1 DEF PollRestart
<1>6. QED
  BY <1>2, <1>4, <1>5 DEF Invocation

(***************************************************************************)
(* What a command manages and has ticked off, step by step.                *)
(***************************************************************************)
Manages(r) == IF r.pc \in Critical THEN Range(r.targets) ELSE {}
Ticked(r) ==
  IF r.phase = "Start" \/ r.mode = "check" THEN {}
  ELSE Manages(r) \ (r.todo \cup Range(r.failed))

Keeps(r, q)   == Manages(q) = Manages(r) /\ Ticked(q) = Ticked(r)
Leaves(q)     == Manages(q) = {}
Enters(r, q)  == Manages(r) = {} /\ Ticked(q) = {}
Finds(r, q, s) ==
  /\ Manages(q) = Manages(r) /\ s \in Manages(r) /\ Ticked(q) = Ticked(r) \cup {s}
  /\ RolesSeen(s) = {} /\ UNCHANGED pgVars

Moves(c) ==
  \/ Keeps(cmd[c], cmd'[c]) \/ Leaves(cmd'[c]) \/ Enters(cmd[c], cmd'[c])
  \/ \E s \in Services : Finds(cmd[c], cmd'[c], s)

\* A command that ends leaves its critical section.
LEMMA EndedLeaves ==
  ASSUME TypeOK, NEW c \in Commands, NEW how,
         cmd' = [cmd EXCEPT ![c] = Ended(c, how)]
  PROVE  Moves(c)
<1>1. cmd'[c] = Ended(c, how)
  BY DEF TypeOK
<1>2. Ended(c, how).pc = "done"
  BY EndedFields
<1>3. QED
  BY <1>1, <1>2 DEF Moves, Leaves, Manages, Critical

\* One that begins to change services is not in one yet.
LEMMA BeginLeaves ==
  ASSUME TypeOK, NEW c \in Commands, NEW r \in CommandState,
         NEW job, NEW phase, NEW q, NEW todo,
         cmd' = [cmd EXCEPT ![c] = Begin(r, job, phase, q, todo)]
  PROVE  Moves(c)
<1>1. cmd'[c] = Begin(r, job, phase, q, todo)
  BY DEF TypeOK
<1>2. Begin(r, job, phase, q, todo).pc = "lock"
  BY BeginFields
<1>3. QED
  BY <1>1, <1>2 DEF Moves, Leaves, Manages, Critical

\* Between two phases a command manages nothing.
LEMMA TurnMoves ==
  ASSUME TypeOK, NEW c \in Commands,
         \/ AfterStop(c) \/ AfterStart(c) \/ AfterStopLogs(c) \/ DebugState(c)
         \/ Killed(c)
  PROVE  Moves(c)
<1>0. cmd \in [Commands -> CommandState] /\ cmd[c] \in CommandState
  BY FieldTypes DEF TypeOK
<1>1. CASE AfterStop(c)
  BY <1>0, <1>1, BeginLeaves, EndedLeaves DEF AfterStop, Become
<1>2. CASE AfterStart(c)
  <2> DEFINE r == [cmd[c] EXCEPT !.failed = <<>>]
  <2>1. <<>> \in Seq(Services)
    OBVIOUS
  <2>2. r \in CommandState
    BY <1>0, <2>1 DEF CommandState
  <2>3. \/ cmd' = [cmd EXCEPT ![c] = Ended(c, "ok")]
        \/ cmd' = [cmd EXCEPT ![c] = Begin(r, "failStart", "Stop", cmd[c].failed,
                                           Range(cmd[c].failed))]
    BY <1>2 DEF AfterStart, Become
  <2> HIDE DEF r
  <2>4. QED
    BY <2>2, <2>3, BeginLeaves, EndedLeaves
<1>3. ASSUME cmd' = [cmd EXCEPT ![c] = [cmd[c] EXCEPT !.pc = "preStart"]]
      PROVE  Moves(c)
  BY <1>0, <1>3 DEF CommandState, Moves, Leaves, Manages, Critical
<1>4. CASE AfterStopLogs(c)
  BY <1>3, <1>4, EndedLeaves DEF AfterStopLogs, Become
<1>5. CASE DebugState(c)
  BY <1>0, <1>3, <1>5, BeginLeaves DEF DebugState, Become
<1>6. CASE Killed(c)
  <2>1. CASE Active(c)
    BY <1>6, <2>1, EndedLeaves DEF Killed
  <2>2. CASE ~Active(c)
    <3>1. cmd' = cmd
      BY <1>0, <1>6, <2>2 DEF Killed
    <3>2. QED
      BY <3>1 DEF Moves, Keeps
  <2>3. QED
    BY <2>1, <2>2
<1>7. QED
  BY <1>1, <1>2, <1>4, <1>5, <1>6

\* A step at one service moves as Moves says.
LEMMA StepAtMoves ==
  ASSUME TypeOK, NEW c \in Commands, NEW s \in Services, CourseOK(cmd[c]),
         CommandOK(cmd[c]), StepAt(c, s)
  PROVE  Moves(c)
<1>0. cmd[c] \in CommandState /\ cmd \in [Commands -> CommandState]
  BY FieldTypes DEF TypeOK
<1> USE <1>0 DEF Moves, Manages, Ticked, Critical, CommandState
<1>1. CASE TakeLock(c, s)
  BY <1>1 DEF TakeLock, IsNext, Become, Keeps
<1>2. CASE FindLockHeld(c, s)
  BY <1>2 DEF FindLockHeld, IsNext, Become, Keeps
<1>3. CASE CleanUp(c, s)
  BY <1>3 DEF CleanUp, Changing, IsNext, ForceCleanup, Keeps
<1>4. CASE FindSupervised(c, s)
  BY <1>4 DEF FindSupervised, Changing, IsNext, Become, Keeps
<1>5. CASE TakeFlock(c, s)
  BY <1>5 DEF TakeFlock, UseFlock, Changing, IsNext, Become, Keeps
<1>6. CASE FindRunaway(c, s)
  BY <1>6, EndedLeaves DEF FindRunaway, Changing, IsNext, Become
<1>7. CASE BringUp(c, s)
  BY <1>7 DEF BringUp, Visited, IsNext, Become, Keeps
<1>8. CASE BringDown(c, s)
  BY <1>8 DEF BringDown, Changing, Visited, IsNext, Become, Keeps
<1>9. CASE KillLogger(c, s)
  BY <1>9 DEF KillLogger, Changing, Visited, IsNext, Become, Keeps
<1>10. CASE AssertReady(c, s)
  <2>1. CASE cmd' = [cmd EXCEPT ![c] = [cmd[c] EXCEPT !.pc = "assert", !.flocked = NoOne,
                        !.left = @ \ {s},
                        !.todo = IF cmd[c].mode = "change" THEN @ \ {s} ELSE @]]
    BY <1>10, <2>1 DEF AssertReady, Asserting, IsNext, Keeps
  <2>2. CASE cmd' = [cmd EXCEPT ![c] = [cmd[c] EXCEPT !.pc = "rejected", !.flocked = NoOne]]
    BY <1>10, <2>2 DEF AssertReady, Asserting, IsNext, Keeps
  <2>3. QED
    BY <1>10, <2>1, <2>2 DEF AssertReady, Accept, Reject, Become
<1>11. CASE AssertUnsupervised(c, s)
  <2>1. CASE cmd' = [cmd EXCEPT ![c] = [cmd[c] EXCEPT !.pc = "flock"]]
    BY <1>11, <2>1 DEF AssertUnsupervised, Asserting, IsNext, Keeps
  <2>2. CASE cmd' = [cmd EXCEPT ![c] = [cmd[c] EXCEPT !.pc = "rejected", !.flocked = NoOne]]
    BY <1>11, <2>2 DEF AssertUnsupervised, Asserting, IsNext, Keeps
  <2>3. QED
    BY <1>11, <2>1, <2>2 DEF AssertUnsupervised, Reject, Become
<1>12. CASE AssertUnlocked(c, s)
  <2>1. CASE cmd' = [cmd EXCEPT ![c] = [cmd[c] EXCEPT !.pc = "scan", !.flocked = s,
                        !.inherits = FALSE]]
    BY <1>12, <2>1 DEF AssertUnlocked, Asserting, IsNext, Keeps
  <2>2. CASE cmd' = [cmd EXCEPT ![c] = [cmd[c] EXCEPT !.pc = "rejected", !.inherits = FALSE]]
    BY <1>12, <2>2 DEF AssertUnlocked, Asserting, IsNext, Keeps
  <2>3. QED
    BY <1>12, <2>1, <2>2 DEF AssertUnlocked, Become
<1>13. CASE AssertNoProcess(c, s)
  <2>0. /\ cmd[c].pc = "scan" /\ UNCHANGED pgVars
        /\ \/ cmd' = [cmd EXCEPT ![c] = [cmd[c] EXCEPT !.pc = "rejected", !.flocked = NoOne]]
           \/ /\ RolesSeen(s) = {}
              /\ cmd' = [cmd EXCEPT ![c] =
                   [cmd[c] EXCEPT !.pc = "assert", !.flocked = NoOne,
                        !.left = @ \ {s},
                        !.todo = IF cmd[c].mode = "change" THEN @ \ {s} ELSE @]]
    BY <1>13 DEF AssertNoProcess, Asserting, Accept, Reject, Become
  <2>1. CASE cmd' = [cmd EXCEPT ![c] = [cmd[c] EXCEPT !.pc = "rejected", !.flocked = NoOne]]
    BY <2>0, <2>1 DEF Keeps
  <2>2. CASE /\ RolesSeen(s) = {}
             /\ cmd' = [cmd EXCEPT ![c] =
                  [cmd[c] EXCEPT !.pc = "assert", !.flocked = NoOne,
                        !.left = @ \ {s},
                        !.todo = IF cmd[c].mode = "change" THEN @ \ {s} ELSE @]]
    <3> DEFINE q == cmd'[c]
    <3>1. /\ q.pc = "assert" /\ q.phase = cmd[c].phase /\ q.mode = cmd[c].mode
          /\ q.targets = cmd[c].targets /\ q.failed = cmd[c].failed
          /\ q.todo = IF cmd[c].mode = "change" THEN cmd[c].todo \ {s} ELSE cmd[c].todo
      BY <2>2
    <3> HIDE DEF q, CommandState
    <3>2. CASE \/ cmd[c].phase = "Start" \/ cmd[c].mode # "change"
               \/ s \notin Range(cmd[c].targets) \/ s \in Range(cmd[c].failed)
      <4>1. Keeps(cmd[c], q)
        BY <2>0, <3>1, <3>2 DEF Keeps
      <4>2. QED
        BY <4>1 DEF q
    <3>3. CASE ~(\/ cmd[c].phase = "Start" \/ cmd[c].mode # "change"
                 \/ s \notin Range(cmd[c].targets) \/ s \in Range(cmd[c].failed))
      <4>1. Finds(cmd[c], q, s)
        BY <2>0, <2>2, <3>1, <3>3 DEF Finds
      <4>2. QED
        BY <4>1 DEF q
    <3>4. QED
      BY <3>2, <3>3
  <2>3. QED
    BY <2>0, <2>1, <2>2
<1>14. CASE Recheck(c, s)
  BY <1>14 DEF Recheck, Rejected, IsNext, Become, Keeps
<1>15. CASE ForceStop(c, s)
  BY <1>15 DEF ForceStop, Rejected, IsNext, ForceCleanup, Keeps
<1>16. CASE GiveUp(c, s)
  <2>1. Range(Append(cmd[c].failed, s)) = Range(cmd[c].failed) \cup {s}
    BY FieldTypes, RangeAppend
  <2> DEFINE q == cmd'[c]
  <2>2. /\ q.pc = "assert" /\ q.phase = cmd[c].phase /\ q.mode = cmd[c].mode
        /\ q.targets = cmd[c].targets /\ q.todo = cmd[c].todo \ {s}
    BY <1>16 DEF GiveUp, Rejected, IsNext, Become
  <2>3. q.failed = Append(cmd[c].failed, s)
    BY <1>16 DEF GiveUp, Become
  <2>4. cmd[c].pc = "rejected"
    BY <1>16 DEF GiveUp, Rejected
  <2>5. s \in cmd[c].todo
    BY <1>16 DEF GiveUp, Rejected, IsNext, CourseOK, VisitsTodo
  <2> HIDE DEF q, CommandState
  <2>6. Keeps(cmd[c], q)
    BY <2>1, <2>2, <2>3, <2>4, <2>5 DEF Keeps
  <2>7. QED
    BY <2>6 DEF q
<1>17. CASE HookScan(c, s)
  <2>1. CASE cmd' = [cmd EXCEPT ![c] = [cmd[c] EXCEPT !.left = @ \ {s}]]
    BY <1>17, <2>1 DEF HookScan, Keeps
  <2>2. CASE cmd' = [cmd EXCEPT ![c] = [cmd[c] EXCEPT !.pc = "after", !.left = {},
                        !.locks = {}]]
    BY <1>17, <2>2 DEF HookScan, Leaves
  <2>3. QED
    BY <1>17, <2>1, <2>2 DEF HookScan, Become
<1>18. CASE DebugFlock(c, s)
  <2>1. CASE cmd' = [cmd EXCEPT ![c] = [cmd[c] EXCEPT !.pc = "exec", !.flocked = s,
                        !.inherits = FALSE]]
    BY <1>18, <2>1 DEF DebugFlock, Leaves
  <2>2. CASE cmd' = [cmd EXCEPT ![c] = Ended(c, "runaway")]
    BY <1>18, <2>2, EndedLeaves DEF DebugFlock
  <2>3. QED
    BY <1>18, <2>1, <2>2 DEF DebugFlock, UseFlock, Become
<1>19. QED
  BY <1>1, <1>2, <1>3, <1>4, <1>5, <1>6, <1>7, <1>8, <1>9, <1>10, <1>11, <1>12, <1>13, <1>14, <1>15, <1>16, <1>17, <1>18
     DEF StepAt

\* And so does every step of the command.
LEMMA StepMoves ==
  ASSUME TypeOK, NEW c \in Commands, CourseOK(cmd[c]), CommandOK(cmd[c]),
         Step(c) \/ Failing(c) \/ Crash(c) \/ Killed(c)
  PROVE  Moves(c)
<1>0. cmd[c] \in CommandState /\ cmd \in [Commands -> CommandState]
  BY FieldTypes DEF TypeOK
<1> USE <1>0 DEF Moves, Manages, Ticked, Critical, CommandState
<1>1. CASE RaiseLockHeld(c)
  BY <1>1, EndedLeaves DEF RaiseLockHeld, Become
<1>2. CASE Locked(c)
  BY <1>2 DEF Locked, Become, Enters, CourseOK, BeginsUnticked
<1>3. CASE Supervise(c)
  BY <1>3 DEF Supervise, Become, Keeps
<1>4. CASE Changed(c)
  BY <1>4 DEF Changed, Become, Keeps
<1>5. CASE BreakOut(c)
  BY <1>5 DEF BreakOut, Become, Leaves
<1>6. CASE AssertedAll(c)
  <2>1. CASE cmd' = [cmd EXCEPT ![c] = [cmd[c] EXCEPT !.pc = "change", !.left = cmd[c].todo]]
    BY <1>6, <2>1 DEF AssertedAll, Keeps
  <2>2. CASE cmd' = [cmd EXCEPT ![c] = [cmd[c] EXCEPT !.pc = "hookScan", !.left = Services]]
    BY <1>6, <2>2 DEF AssertedAll, Keeps
  <2>3. CASE cmd' = [cmd EXCEPT ![c] = [cmd[c] EXCEPT !.pc = "after", !.locks = {}]]
    BY <1>6, <2>3 DEF AssertedAll, Leaves
  <2>4. QED
    BY <1>6, <2>1, <2>2, <2>3 DEF AssertedAll, Become
<1>7. CASE PreStart(c)
  BY <1>7 DEF PreStart, Become, Leaves
<1>8. CASE AllDown(c)
  BY <1>8 DEF AllDown, Become, Leaves
<1>9. CASE PostStop(c)
  BY <1>9 DEF PostStop, Become, Leaves
<1>10. CASE DebugExec(c)
  BY <1>10, EndedLeaves DEF DebugExec, Become
<1>11. CASE Failing(c)
  BY <1>11, EndedLeaves DEF Failing, HookFails, MessageFails, Become
<1>12. CASE Crash(c)
  BY <1>12, EndedLeaves DEF Crash, Become
<1>13. CASE \E s \in Services : StepAt(c, s)
  BY <1>13, StepAtMoves
<1>14. CASE \/ AfterStop(c) \/ AfterStart(c) \/ AfterStopLogs(c) \/ DebugState(c)
           \/ Killed(c)
  BY <1>14, TurnMoves
<1>15. QED
  BY <1>1, <1>2, <1>3, <1>4, <1>5, <1>6, <1>7, <1>8, <1>9, <1>10, <1>11, <1>12,
     <1>13, <1>14 DEF Step

(***************************************************************************)
(* StoppedIsDown.                                                          *)
(***************************************************************************)
Quiet(s) == procs[s] \cap {"sup", "run", "old", "poll", "pollEnd"} = {}
Gone(s) == procs[s] \subseteq Unseen

\* StoppedIsDown in terms of what is ticked off.
LEMMA StoppedAsTicked ==
  StoppedIsDown <=>
    \A c \in Commands : \A s \in Ticked(cmd[c]) :
      Quiet(s) /\ (~MayBeForeground => Gone(s))
BY DEF StoppedIsDown, TickedOff, Managed, Ticked, Manages, Quiet, Gone

\* What a step of a command starts.
LEMMA StepStarts ==
  ASSUME TypeOK, NEW c \in Commands,
         Step(c) \/ Failing(c) \/ Crash(c) \/ Killed(c)
  PROVE  \/ procs' = procs
         \/ /\ cmd[c].pc = "spawn"
            /\ procs' = [procs EXCEPT ![cmd[c].flocked] = @ \cup {"sup"}]
         \/ /\ cmd[c].pc = "exec" /\ cmd'[c].result = "exec"
            /\ procs' = [procs EXCEPT ![cmd[c].flocked] = @ \cup {"fg"}]
<1>0. cmd \in [Commands -> CommandState]
  BY DEF TypeOK
<1>1. CASE Supervise(c)
  BY <1>1 DEF Supervise, Spawn
<1>2. CASE DebugExec(c)
  <2>1. Ended(c, "exec").result = "exec"
    BY DEF Ended, Idle
  <2>2. QED
    BY <1>0, <1>2, <2>1 DEF DebugExec, Foreground, Become
<1>3. CASE ~Supervise(c) /\ ~DebugExec(c)
  <2>1. ASSUME NEW s \in Services, StepAt(c, s) PROVE procs' = procs
    <3>1. CASE CleanUp(c, s) \/ ForceStop(c, s)
      BY <3>1 DEF CleanUp, ForceStop, ForceCleanup, KillSeen
    <3>2. CASE BringUp(c, s) \/ BringDown(c, s) \/ KillLogger(c, s)
      BY <3>2 DEF BringUp, BringDown, KillLogger, SvcUp, SvcDownExit, SvcKillLog
    <3>3. CASE UNCHANGED pgVars
      BY <3>3 DEF pgVars
    <3>4. QED
      BY <2>1, <3>1, <3>2, <3>3 DEF StepAt, TakeLock, FindLockHeld, FindSupervised,
         TakeFlock, FindRunaway, AssertReady, AssertUnsupervised, AssertUnlocked,
         AssertNoProcess, Recheck, GiveUp, HookScan, DebugFlock
  <2>2. QED
    BY <1>3, <2>1 DEF Step, Failing, HookFails, MessageFails, Crash, Killed,
       RaiseLockHeld, Locked, Changed, BreakOut, AssertedAll, PreStart, AllDown,
       PostStop, AfterStop, AfterStart, AfterStopLogs, DebugState, pgVars
<1>4. QED
  BY <1>1, <1>2, <1>3

\* A command that ended stays as it is, unless it is invoked anew.
LEMMA DoneStays ==
  ASSUME TypeOK, NEW c \in Commands, cmd[c].pc = "done",
         \/ Step(c) \/ Failing(c) \/ Crash(c) \/ Killed(c)
         \/ Invocation(c) /\ ~Reuse
  PROVE  cmd'[c] = cmd[c]
<1>1. ASSUME NEW s \in Services PROVE ~StepAt(c, s)
  BY DEF StepAt, TakeLock, FindLockHeld, CleanUp, FindSupervised, TakeFlock, FindRunaway,
     BringUp, BringDown, KillLogger, AssertReady, AssertUnsupervised, AssertUnlocked,
     AssertNoProcess, Recheck, ForceStop, GiveUp, HookScan, DebugFlock, Changing,
     Asserting, Rejected
<1>2. ~Step(c)
  BY <1>1 DEF Step, RaiseLockHeld, Locked, Supervise, Changed, BreakOut, AssertedAll,
     PreStart, AllDown, PostStop, AfterStop, AfterStart, AfterStopLogs, DebugState,
     DebugExec, Ending
<1>3. ~Failing(c) /\ ~Crash(c)
  BY DEF Failing, HookFails, MessageFails, Asserting, Crash, Active
<1>4. CASE Killed(c)
  <2>1. cmd' = cmd
    BY <1>4 DEF Killed, Active, TypeOK
  <2>2. QED
    BY <2>1
<1>5. Invocation(c) => Reuse
  BY DEF Invocation, Invoke, InvokeNested, PollRestart, MayInvoke
<1>6. QED
  BY <1>2, <1>3, <1>4, <1>5

\* No command makes MayBeForeground false.
LEMMA ForegroundStays ==
  ASSUME TypeOK, NEW c \in Commands, CourseOK(cmd[c]),
         \/ Step(c) \/ Failing(c) \/ Crash(c) \/ Killed(c) \/ Invocation(c),
         \A d \in Commands \ {c} : cmd'[d] = cmd[d],
         MayBeForeground
  PROVE  MayBeForeground'
<1>1. CASE Reuse
  BY <1>1 DEF MayBeForeground
<1>2. CASE ~Reuse
  <2>1. PICK d \in Commands : cmd[d].result = "exec"
    BY <1>2 DEF MayBeForeground
  <2>2. cmd'[d] = cmd[d]
    <3>1. CASE d = c
      BY <1>2, <2>1, <3>1, DoneStays DEF CourseOK, JobFits
    <3>2. CASE d # c
      BY <3>2
    <3>3. QED
      BY <3>1, <3>2
  <2>3. QED
    BY <2>1, <2>2 DEF MayBeForeground
<1>3. QED
  BY <1>1, <1>2

\* The invariant of this part holds at first.
LEMMA StopInit ==
  ASSUME Init
  PROVE  StopInv
<1>1. \A c \in Commands :
        /\ cmd[c].pc = "idle" /\ cmd[c].phase = "Start" /\ cmd[c].mode = "check"
        /\ cmd[c].job = "start" /\ cmd[c].result = "none"
  BY DEF Init, Idle
<1>2. \A c \in Commands : CourseOK(cmd[c])
  BY <1>1 DEF CourseOK, JobFits, VisitsTodo, BeginsUnticked, Critical
<1>3. StoppedIsDown
  BY <1>1 DEF StoppedIsDown, TickedOff
<1>4. QED
  BY <1>2, <1>3 DEF StopInv

\* By the first invariant no two commands manage one service.
LEMMA SafetyExcludes ==
  ASSUME SafetyInv, NEW c \in Commands, NEW d \in Commands, c # d
  PROVE  Manages(cmd[c]) \cap Manages(cmd[d]) = {}
<1>1. ASSUME NEW e \in Commands PROVE Manages(cmd[e]) \subseteq cmd[e].locks
  BY DEF SafetyInv, CommandInv, OwnsLocks, Manages
<1>2. cmd[c].locks \cap cmd[d].locks = {}
  BY DEF SafetyInv, LockInv
<1>3. QED
  BY <1>1, <1>2

\* A supervisor is started only for a service that no stop has ticked off: the
\* command that starts it manages the service.
LEMMA CommandStepStops ==
  ASSUME TypeOK, SafetyInv, StopInv, NEW c \in Commands,
         Step(c) \/ Failing(c) \/ Crash(c) \/ Killed(c)
  PROVE  StopInv'
<1>1. CommandOK(cmd[c]) /\ CourseOK(cmd[c])
  BY DEF SafetyInv, CommandInv, CommandOK, StopInv
<1>2. CourseOK(cmd'[c]) /\ Moves(c) /\ \A d \in Commands \ {c} : cmd'[d] = cmd[d]
  BY <1>1, StepCourse, StepMoves, StepFrame DEF Frame
<1>3. \A d \in Commands : CourseOK(cmd'[d])
  BY <1>2 DEF StopInv
<1>4. procs \in [Services -> SUBSET Roles] /\ cmd[c] \in CommandState
  BY FieldTypes DEF TypeOK, PgTypeOK
<1>5. ASSUME NEW d \in Commands, NEW s \in Ticked(cmd'[d])
      PROVE  Quiet(s)' /\ (~MayBeForeground' => Gone(s)')
  <2>1. CASE s \in Ticked(cmd[d])
    <3>1. Quiet(s) /\ (~MayBeForeground => Gone(s))
      BY <2>1, StoppedAsTicked DEF StopInv
    <3>2. ~MayBeForeground' => ~MayBeForeground
      BY <1>1, <1>2, ForegroundStays
    <3>3. CASE procs' = procs
      BY <3>1, <3>2, <3>3 DEF Quiet, Gone
    <3>4. CASE /\ cmd[c].pc = "spawn"
               /\ procs' = [procs EXCEPT ![cmd[c].flocked] = @ \cup {"sup"}]
      <4>1. cmd[c].flocked \in Manages(cmd[c]) /\ Ticked(cmd[c]) = {}
        BY <1>1, <3>4 DEF CourseOK, VisitsTodo, Manages, Ticked, Critical
      <4>2. s \in Manages(cmd[d]) /\ d # c
        BY <2>1, <4>1 DEF Ticked
      <4>3. s # cmd[c].flocked
        BY <4>1, <4>2, SafetyExcludes
      <4>4. procs'[s] = procs[s]
        BY <3>4, <4>3
      <4>5. QED
        BY <3>1, <3>2, <4>4 DEF Quiet, Gone
    <3>5. CASE /\ cmd[c].pc = "exec" /\ cmd'[c].result = "exec"
               /\ procs' = [procs EXCEPT ![cmd[c].flocked] = @ \cup {"fg"}]
      <4>1. MayBeForeground'
        BY <1>1, <3>5 DEF MayBeForeground, CourseOK, JobFits
      <4>2. procs'[s] \subseteq procs[s] \cup {"fg"}
        BY <3>5
      <4>3. QED
        BY <3>1, <4>1, <4>2 DEF Quiet
    <3>6. QED
      BY <3>3, <3>4, <3>5, StepStarts
  <2>2. CASE s \notin Ticked(cmd[d])
    <3>1. d = c /\ Finds(cmd[c], cmd'[c], s)
      BY <1>2, <1>5, <2>2 DEF Moves, Keeps, Leaves, Enters, Finds, Ticked
    <3>2. s \in Services
      BY <1>4, <3>1, RangeType DEF Finds, Manages, CommandState
    <3>3. /\ procs[s] \cap FdRoles = {} /\ (Tracing => procs[s] = {})
          /\ procs' = procs /\ procs[s] \subseteq Roles
      BY <1>4, <3>1, <3>2 DEF Finds, RolesSeen, HaveOpen, BornWith, pgVars
    <3>4. QED
      BY <3>3 DEF Quiet, Gone, Unseen, FdRoles, Roles
  <2>3. QED
    BY <2>1, <2>2
<1>6. StoppedIsDown'
  BY <1>5 DEF StoppedIsDown, TickedOff, Managed, Ticked, Manages, Quiet, Gone
<1>7. QED
  BY <1>3, <1>6 DEF StopInv

\* A command begins outside of its critical sections.
LEMMA InvocationStarts ==
  ASSUME TypeOK, NEW c \in Commands, Invocation(c)
  PROVE  cmd'[c].pc \in {"lock", "debugState"}
<1>1. ASSUME NEW r \in CommandState, NEW job, NEW q \in Seq(Services),
             cmd' = [cmd EXCEPT ![c] = FirstPhase(r, job, q)]
      PROVE  cmd'[c].pc \in {"lock", "debugState"}
  <2>1. cmd'[c] = FirstPhase(r, job, q)
    BY <1>1 DEF TypeOK
  <2>2. CASE job = "debug"
    BY <2>1, <2>2 DEF FirstPhase, CommandState
  <2>3. CASE job # "debug"
    BY <2>1, <2>3, BeginFields DEF FirstPhase
  <2>4. QED
    BY <2>2, <2>3
<1>2. ASSUME NEW f \in BOOLEAN PROVE [Idle EXCEPT !.force = f] \in CommandState
  BY IdleType DEF CommandState
<1>3. ASSUME NEW o \in Services
      PROVE  [Idle EXCEPT !.origin = o, !.inherits = TRUE] \in CommandState
  BY IdleType DEF CommandState
<1>4. \A s \in Services : <<s>> \in Seq(Services)
  OBVIOUS
<1>5. QED
  BY <1>1, <1>2, <1>3, <1>4, PgctlAssumption DEF Invocation, Invoke, InvokeNested,
     PollRestart, Become

\* The invariant is kept by invocations,
LEMMA InvocationStops ==
  ASSUME TypeOK, StopInv, NEW c \in Commands, Invocation(c)
  PROVE  StopInv'
<1>1. /\ CourseOK(cmd[c]) /\ CourseOK(cmd'[c])
      /\ \A d \in Commands \ {c} : cmd'[d] = cmd[d]
  BY InvocationCourse, InvocationFrame DEF StopInv
<1>2. \A d \in Commands : CourseOK(cmd'[d])
  BY <1>1 DEF StopInv
<1>3. Ticked(cmd'[c]) = {}
  <2>1. cmd'[c].pc \in {"lock", "debugState"}
    BY InvocationStarts
  <2>2. QED
    BY <2>1 DEF Ticked, Manages, Critical
<1>4. ~MayBeForeground' => ~MayBeForeground
  BY <1>1, ForegroundStays
<1>5. ASSUME NEW d \in Commands, NEW s \in Ticked(cmd'[d])
      PROVE  Quiet(s)' /\ (~MayBeForeground' => Gone(s)')
  <2>1. s \in Ticked(cmd[d])
    BY <1>1, <1>3, <1>5
  <2>2. Quiet(s) /\ (~MayBeForeground => Gone(s))
    BY <2>1, StoppedAsTicked DEF StopInv
  <2>3. s \in Services /\ procs \in [Services -> SUBSET Roles]
    BY <2>1, FieldTypes, RangeType DEF Ticked, Manages, TypeOK, PgTypeOK
  <2>4. procs'[s] \subseteq procs[s]
    BY <2>3, InvocationProcs
  <2>5. QED
    BY <1>4, <2>2, <2>4 DEF Quiet, Gone
<1>6. StoppedIsDown'
  BY <1>5 DEF StoppedIsDown, TickedOff, Managed, Ticked, Manages, Quiet, Gone
<1>7. QED
  BY <1>2, <1>6 DEF StopInv

\* Without s6-supervise nothing of a service comes to be but what its own
\* processes fork.
LEMMA EnvironmentQuiet ==
  ASSUME PgTypeOK, NEW s \in Services, Environment(s), NEW t \in Services, Quiet(t)
  PROVE  Quiet(t)' /\ (Gone(t) => Gone(t)')
<1> USE DEF PgTypeOK, Quiet, Gone, Unseen, Roles
<1>1. CASE UNCHANGED procs
  BY <1>1
<1>2. CASE StartRun(s)
  BY <1>2 DEF StartRun
<1>3. CASE RunGone(s)
  BY <1>3 DEF RunGone
<1>4. CASE SupGone(s)
  BY <1>4 DEF SupGone
<1>5. ASSUME NEW r \in Roles, OtherGone(s, r)
      PROVE  Quiet(t)' /\ (Gone(t) => Gone(t)')
  BY <1>5 DEF OtherGone
<1>6. ASSUME NEW r \in Roles, Fork(s, r)
      PROVE  Quiet(t)' /\ (Gone(t) => Gone(t)')
  BY <1>6, PlaygroundAssumption DEF Fork, RunRoles
<1>7. QED
  BY <1>1, <1>2, <1>3, <1>4, <1>5, <1>6 DEF Environment, Boot, NotifyReady, SupKilled,
     LogBoot, LogExit

\* and by s6, the services and the kernel.
LEMMA EnvironmentStops ==
  ASSUME TypeOK, StopInv, NEW s \in Services, Environment(s),
         UNCHANGED <<cmd, doomed, shared>>
  PROVE  StopInv'
<1>1. ASSUME NEW d \in Commands, NEW t \in Ticked(cmd[d])
      PROVE  Quiet(t)' /\ (~MayBeForeground => Gone(t)')
  <2>1. Quiet(t) /\ (~MayBeForeground => Gone(t))
    BY <1>1, StoppedAsTicked DEF StopInv
  <2>2. t \in Services
    BY <1>1, FieldTypes, RangeType DEF Ticked, Manages
  <2>3. QED
    BY <2>1, <2>2, EnvironmentQuiet DEF TypeOK
<1>2. MayBeForeground' = MayBeForeground
  BY DEF MayBeForeground
<1>3. StoppedIsDown'
  BY <1>1, <1>2 DEF StoppedIsDown, TickedOff, Managed, Ticked, Manages, Quiet, Gone
<1>4. QED
  BY <1>3 DEF StopInv

\* What a stop has ticked off stays down while the stop holds its locks, and
\* why: StopInv beside SafetyInv.
THEOREM Stopping == Spec => []StopInv
<1>1. TypeOK /\ SafetyInv /\ StopInv /\ [Next]_vars => StopInv'
  <2>1. ASSUME TypeOK, SafetyInv, StopInv, Next PROVE StopInv'
    BY <2>1, CommandStepStops, InvocationStops, EnvironmentStops DEF Next
  <2>2. ASSUME StopInv, UNCHANGED vars PROVE StopInv'
    BY <2>2 DEF vars, pgVars, StopInv, StoppedIsDown, TickedOff, Managed, MayBeForeground
  <2>3. QED
    BY <2>1, <2>2
<1>2. Init => StopInv
  BY StopInit
<1>3. QED
  BY <1>1, <1>2, Typing, Safety, PTL DEF Spec

\* While a stop holds its locks, a service that it has ticked off stays down
\* (assert_stopped(), cli.py __locked_change_state()), whatever else happens.
THEOREM Stopped == Spec => []StoppedIsDown
<1>1. StopInv => StoppedIsDown
  BY DEF StopInv
<1>2. QED
  BY <1>1, Stopping, PTL

(***************************************************************************)
(* Pgctl implements ServiceLock.  A step of Pgctl that changes one command *)
(* or the run scripts of one service, and how, is a step of ServiceLock.   *)
(***************************************************************************)
Instance(s) == IF s \in shared THEN {} ELSE procs[s] \cap RunRoles

\* Only c changes what is managed and ticked off, and no run script changes.
Only(c) ==
  /\ \A d \in Commands \ {c} :
       Managed(d)' = Managed(d) /\ TickedOff(d)' = TickedOff(d)
  /\ \A s \in Services : Instance(s)' = Instance(s)

\* A step of c that changes neither what it manages nor what it has ticked off.
LEMMA IsStutter ==
  ASSUME NEW c \in Commands, Only(c),
         Managed(c)' = Managed(c), TickedOff(c)' = TickedOff(c)
  PROVE  UNCHANGED Lock!lockVars
BY DEF Only, Instance, Lock!lockVars

\* A step by which it leaves.
LEMMA IsRelease ==
  ASSUME NEW c \in Commands, Only(c), Managed(c)' = {}, TickedOff(c)' = {}
  PROVE  Lock!LockNext
<1>1. Lock!Release(c)
  BY DEF Only, Instance, Lock!Release
<1>2. QED
  BY <1>1 DEF Lock!LockNext

\* A step by which it enters, with nothing ticked off.
LEMMA IsAcquire ==
  ASSUME NEW c \in Commands, Only(c), Managed(c) = {}, TickedOff(c) = {},
         TickedOff(c)' = {}, Managed(c)' \in SUBSET Services,
         \A d \in Commands : Managed(d) \cap Managed(c)' = {}
  PROVE  Lock!LockNext
<1>1. Lock!Acquire(c, Managed(c)')
  BY DEF Only, Instance, Lock!Acquire
<1>2. QED
  BY <1>1 DEF Lock!LockNext

\* A step by which it ticks off a service without an instance.
LEMMA IsFindStopped ==
  ASSUME NEW c \in Commands, NEW s \in Services, Only(c), s \in Managed(c),
         Instance(s) = {}, Managed(c)' = Managed(c),
         TickedOff(c)' = TickedOff(c) \cup {s}
  PROVE  Lock!LockNext
<1>1. Lock!FindStopped(c, s)
  BY DEF Only, Instance, Lock!FindStopped
<1>2. QED
  BY <1>1 DEF Lock!LockNext

\* Only the run scripts of s change.
OnlyAt(s) ==
  /\ \A c \in Commands : Managed(c)' = Managed(c) /\ TickedOff(c)' = TickedOff(c)
  /\ \A t \in Services \ {s} : Instance(t)' = Instance(t)

\* A service is run in the foreground.
LEMMA IsBeginForeground ==
  ASSUME NEW s \in Services, OnlyAt(s), Instance(s) = {}, Instance(s)' = {"fg"}
  PROVE  Lock!LockNext
<1>1. Lock!BeginForeground(s)
  BY DEF OnlyAt, Instance, Lock!BeginForeground
<1>2. QED
  BY <1>1 DEF Lock!LockNext

\* A run script begins.
LEMMA IsBeginRun ==
  ASSUME NEW s \in Services, OnlyAt(s), Instance(s) = {}, Instance(s)' = {"run"},
         \A c \in Commands : s \notin TickedOff(c)
  PROVE  Lock!LockNext
<1>1. Lock!BeginRun(s)
  BY DEF OnlyAt, Instance, Lock!BeginRun
<1>2. QED
  BY <1>1 DEF Lock!LockNext

\* A run script outlives its s6-supervise.
LEMMA IsOrphan ==
  ASSUME NEW s \in Services, OnlyAt(s), Instance(s) = {"run"}, Instance(s)' = {"old"}
  PROVE  Lock!LockNext
<1>1. Lock!Orphan(s)
  BY DEF OnlyAt, Instance, Lock!Orphan
<1>2. QED
  BY <1>1 DEF Lock!LockNext

\* The instance of a service ends.
LEMMA IsEnd ==
  ASSUME NEW s \in Services, OnlyAt(s), Instance(s)' = {}
  PROVE  Lock!LockNext
<1>1. Lock!End(s)
  BY DEF OnlyAt, Instance, Lock!End
<1>2. QED
  BY <1>1 DEF Lock!LockNext

\* The instance of a service stays what it is.
LEMMA IsStutterAt ==
  ASSUME NEW s \in Services, OnlyAt(s), Instance(s)' = Instance(s)
  PROVE  UNCHANGED Lock!lockVars
BY DEF OnlyAt, Instance, Lock!lockVars

\* The mapping in terms of one command.
LEMMA ManagesTicked ==
  ASSUME NEW c \in Commands
  PROVE  /\ Managed(c) = Manages(cmd[c]) /\ TickedOff(c) = Ticked(cmd[c])
         /\ Managed(c)' = Manages(cmd'[c]) /\ TickedOff(c)' = Ticked(cmd'[c])
BY DEF Managed, TickedOff, Manages, Ticked

\* Each step of a command is one of ServiceLock or a stutter,
LEMMA CommandStepLocks ==
  ASSUME TypeOK, TypeOK', SafetyInv, SafetyInv', StopInv, NEW c \in Commands,
         Step(c) \/ Failing(c) \/ Crash(c) \/ Killed(c)
  PROVE  Lock!LockNext \/ UNCHANGED Lock!lockVars
<1>1. CommandOK(cmd[c]) /\ CourseOK(cmd[c])
  BY DEF SafetyInv, CommandInv, CommandOK, StopInv
<1>2. Moves(c) /\ \A d \in Commands \ {c} : cmd'[d] = cmd[d]
  BY <1>1, StepMoves, StepFrame DEF Frame
<1>3. \A d \in Commands \ {c} : Managed(d)' = Managed(d) /\ TickedOff(d)' = TickedOff(d)
  BY <1>2, ManagesTicked
<1>4. procs \in [Services -> SUBSET Roles]
  BY DEF TypeOK, PgTypeOK
<1>0. CASE shared' # shared
  <2>1. PICK s \in Services, pc \in {"spawn", "exec"} :
          (TakeFlock(c, s) \/ DebugFlock(c, s)) /\ DirFree(c, s) /\ UseFlock(c, s, pc)
    BY <1>0, StepShared
  <2>2. /\ procs' = procs
        /\ shared' = IF NobodyElse(c, s) THEN shared \ {s} ELSE shared \cup {s}
    BY <2>1, UseFlockShares DEF TakeFlock, DebugFlock, pgVars
  <2>3. \A t \in Services \ {s} : Instance(t)' = Instance(t)
    BY <2>2 DEF Instance
  <2>4. Instance(s)' = {}
    BY <2>2 DEF Instance, NobodyElse, RunRoles, FdRoles, Roles
  <2>5. Managed(c)' = Managed(c) /\ TickedOff(c)' = TickedOff(c)
    <3>1. cmd[c] \in CommandState /\ cmd \in [Commands -> CommandState]
      BY FieldTypes DEF TypeOK
    <3>2. /\ cmd'[c].pc = pc /\ cmd'[c].phase = cmd[c].phase
          /\ cmd'[c].targets = cmd[c].targets
      BY <2>1, <3>1 DEF UseFlock, CommandState
    <3>3. CASE TakeFlock(c, s)
      <4>1. pc = "spawn"
        <5>1. cmd'[c].pc = "spawn"
          BY <3>1, <3>3 DEF TakeFlock, UseFlock, CommandState
        <5>2. QED
          BY <3>2, <5>1
      <4>2. cmd[c].pc = "change" /\ cmd[c].phase = "Start"
        BY <3>3 DEF TakeFlock, Changing
      <4>3. QED
        BY <3>2, <4>1, <4>2, ManagesTicked DEF Manages, Ticked, Critical
    <3>4. CASE DebugFlock(c, s)
      <4>1. cmd[c].pc = "foreground"
        BY <3>4 DEF DebugFlock
      <4>2. cmd'[c].pc \in {"exec", "done"}
        <5>1. CASE DirFree(c, s)
          <6>1. UseFlock(c, s, "exec")
            BY <3>4, <5>1 DEF DebugFlock
          <6> QED
            BY <3>1, <6>1 DEF UseFlock, CommandState
        <5>2. CASE ~DirFree(c, s)
          <6>1. Become(c, Ended(c, "runaway"))
            BY <3>4, <5>2 DEF DebugFlock
          <6> QED
            BY <3>1, <6>1 DEF Become, Ended, Idle
        <5>3. QED
          BY <5>1, <5>2
      <4>3. pc = "exec"
        BY <3>2, <4>2
      <4>4. QED
        BY <3>2, <4>1, <4>3, ManagesTicked DEF Manages, Ticked, Critical
    <3>5. QED
      BY <2>1, <3>3, <3>4
  <2>6. OnlyAt(s)
    BY <1>3, <2>3, <2>5 DEF OnlyAt
  <2>7. QED
    BY <2>4, <2>6, IsEnd
<1>5. CASE shared' = shared /\ \A s \in Services : Instance(s)' = Instance(s)
  <2>1. Only(c)
    BY <1>3, <1>5 DEF Only
  <2>2. CASE Keeps(cmd[c], cmd'[c])
    BY <2>1, <2>2, IsStutter, ManagesTicked DEF Keeps
  <2>3. CASE Leaves(cmd'[c])
    BY <2>1, <2>3, IsRelease, ManagesTicked DEF Leaves, Ticked
  <2>4. CASE Enters(cmd[c], cmd'[c])
    <3>1. Managed(c)' \in SUBSET Services
      <4>1. cmd'[c].targets \in Seq(Services)
        BY DEF TypeOK, CommandState
      <4>2. Manages(cmd'[c]) \subseteq Services
        BY <4>1, RangeType DEF Manages
      <4>3. QED
        BY <4>2, ManagesTicked
    <3>2. Managed(c) = {} /\ TickedOff(c) = {} /\ TickedOff(c)' = {}
      BY <2>4, ManagesTicked DEF Enters, Ticked
    <3>3. ASSUME NEW d \in Commands PROVE Managed(d) \cap Managed(c)' = {}
      <4>1. CASE d = c
        BY <3>2, <4>1
      <4>2. CASE d # c
        <5>1. Manages(cmd'[d]) \cap Manages(cmd'[c]) = {}
          <6>1. Manages(cmd'[d]) \subseteq cmd'[d].locks
            BY DEF SafetyInv, CommandInv, OwnsLocks, Manages
          <6>2. Manages(cmd'[c]) \subseteq cmd'[c].locks
            BY DEF SafetyInv, CommandInv, OwnsLocks, Manages
          <6>3. cmd'[d].locks \cap cmd'[c].locks = {}
            BY <4>2 DEF SafetyInv, LockInv
          <6>4. QED
            BY <6>1, <6>2, <6>3
        <5>2. QED
          BY <1>2, <4>2, <5>1, ManagesTicked
      <4>3. QED
        BY <4>1, <4>2
    <3>4. QED
      BY <2>1, <3>1, <3>2, <3>3, IsAcquire
  <2>5. ASSUME NEW s \in Services, Finds(cmd[c], cmd'[c], s)
        PROVE  Lock!LockNext
    <3>1. Instance(s) = {}
      BY <2>5 DEF Finds, RolesSeen, HaveOpen, Instance, RunRoles, FdRoles, Roles
    <3>2. /\ s \in Managed(c) /\ Managed(c)' = Managed(c)
          /\ TickedOff(c)' = TickedOff(c) \cup {s}
      BY <2>5, ManagesTicked DEF Finds
    <3>3. QED
      BY <2>1, <3>1, <3>2, IsFindStopped
  <2>6. QED
    BY <1>2, <2>2, <2>3, <2>4, <2>5 DEF Moves
<1>6. CASE /\ cmd[c].pc = "exec" /\ cmd'[c].result = "exec" /\ shared' = shared
           /\ procs' = [procs EXCEPT ![cmd[c].flocked] = @ \cup {"fg"}]
  <2>0. PICK s : s = cmd[c].flocked
    OBVIOUS
  <2>1. s \in Services /\ (s \notin shared => procs[s] \cap FdRoles = {})
    BY <1>6, <2>0 DEF SafetyInv, FlockInv, NobodyElse
  <2>2. cmd'[c].pc = "done"
    BY <1>1, <1>6, StepCourse DEF CourseOK, JobFits
  <2>3. Managed(c)' = Managed(c) /\ TickedOff(c)' = TickedOff(c)
    BY <1>6, <2>2, ManagesTicked DEF Manages, Ticked, Critical
  <2>4. procs' = [procs EXCEPT ![s] = @ \cup {"fg"}]
    BY <1>6, <2>0
  <2>5. OnlyAt(s)
    BY <1>3, <1>4, <1>6, <2>3, <2>4 DEF OnlyAt, Instance
  <2>6. CASE s \notin shared
    <3>1. Instance(s) = {} /\ Instance(s)' = {"fg"}
      BY <1>4, <1>6, <2>1, <2>4, <2>6 DEF Instance, RunRoles, FdRoles, Roles
    <3>2. QED
      BY <2>1, <2>5, <3>1, IsBeginForeground
  <2>7. CASE s \in shared
    <3>1. Instance(s)' = Instance(s)
      BY <1>6, <2>7 DEF Instance
    <3>2. QED
      BY <2>1, <2>5, <3>1, IsStutterAt
  <2>8. QED
    BY <2>6, <2>7
<1>7. CASE /\ shared' = shared
           /\ \/ procs' = procs
              \/ procs' = [procs EXCEPT ![cmd[c].flocked] = @ \cup {"sup"}]
  <2>1. \A s \in Services : procs'[s] = procs[s] \/ procs'[s] = procs[s] \cup {"sup"}
    BY <1>4, <1>7
  <2>2. \A s \in Services : Instance(s)' = Instance(s)
    BY <1>7, <2>1 DEF Instance, RunRoles
  <2>3. QED
    BY <1>5, <1>7, <2>2
<1>8. QED
  BY <1>0, <1>6, <1>7, StepStarts

\* each invocation is,
LEMMA InvocationLocks ==
  ASSUME TypeOK, NEW c \in Commands, Invocation(c)
  PROVE  Lock!LockNext \/ UNCHANGED Lock!lockVars
<1>1. \A d \in Commands \ {c} : cmd'[d] = cmd[d]
  BY InvocationFrame
<1>2. cmd[c].pc \in {"idle", "done"}
  BY DEF Invocation, Invoke, InvokeNested, PollRestart, MayInvoke
<1>3. cmd'[c].pc \in {"lock", "debugState"}
  BY InvocationStarts
<1>4. Managed(c)' = Managed(c) /\ TickedOff(c)' = TickedOff(c)
  BY <1>2, <1>3, ManagesTicked DEF Manages, Ticked, Critical
<1>5. \A d \in Commands \ {c} : Managed(d)' = Managed(d) /\ TickedOff(d)' = TickedOff(d)
  BY <1>1, ManagesTicked
<1>6. \A s \in Services : Instance(s)' = Instance(s)
  <2>1. procs \in [Services -> SUBSET Roles]
    BY DEF TypeOK, PgTypeOK
  <2>2. QED
    BY <2>1, InvocationProcs DEF Instance, RunRoles
<1>7. QED
  BY <1>4, <1>5, <1>6, IsStutter DEF Only

\* s6 and the processes of a service start and end processes of that service only.
LEMMA EnvironmentElsewhere ==
  ASSUME procs \in [Services -> SUBSET Roles], NEW s \in Services, Environment(s)
  PROVE  \A t \in Services \ {s} : procs'[t] = procs[t]
<1>1. ASSUME NEW r \in Roles, OtherGone(s, r) \/ Fork(s, r)
      PROVE  \A t \in Services \ {s} : procs'[t] = procs[t]
  BY <1>1 DEF OtherGone, Fork
<1>2. QED
  BY <1>1 DEF Environment, Boot, StartRun, NotifyReady, RunGone, SupGone, SupKilled,
     LogBoot, LogExit

\* and whatever s6, the services and the kernel do.
LEMMA EnvironmentLocks ==
  ASSUME TypeOK, SafetyInv, StopInv, NEW s \in Services, Environment(s),
         UNCHANGED <<cmd, doomed, shared>>
  PROVE  Lock!LockNext \/ UNCHANGED Lock!lockVars
<1>0. /\ procs \in [Services -> SUBSET Roles] /\ InstanceInv
      /\ procs[s] \subseteq Roles
  BY DEF TypeOK, PgTypeOK, SafetyInv
<1>1. \A c \in Commands : Managed(c)' = Managed(c) /\ TickedOff(c)' = TickedOff(c)
  BY DEF Managed, TickedOff
<1>2. ASSUME UNCHANGED procs PROVE UNCHANGED Lock!lockVars
  <2>1. OnlyAt(s) /\ Instance(s)' = Instance(s)
    BY <1>1, <1>2 DEF OnlyAt, Instance
  <2>2. QED
    BY <2>1, IsStutterAt
<1>9. CASE s \in shared
  <2>1. \A t \in Services \ {s} : procs'[t] = procs[t]
    BY <1>0, EnvironmentElsewhere
  <2>2. OnlyAt(s) /\ Instance(s)' = Instance(s)
    BY <1>1, <1>9, <2>1 DEF OnlyAt, Instance
  <2>3. QED
    BY <2>2, IsStutterAt
<1> SUFFICES ASSUME s \notin shared
             PROVE  Lock!LockNext \/ UNCHANGED Lock!lockVars
  BY <1>9
<1>3. CASE StartRun(s)
  <2>1. OnlyAt(s)
    BY <1>0, <1>1, <1>3 DEF StartRun, OnlyAt, Instance
  <2>2. Instance(s) = {} /\ Instance(s)' = {"run"}
    BY <1>0, <1>3 DEF StartRun, InstanceInv, Instance, RunRoles
  <2>3. \A c \in Commands : s \notin TickedOff(c)
    BY <1>3 DEF StartRun, StopInv, StoppedIsDown
  <2>4. QED
    BY <2>1, <2>2, <2>3, IsBeginRun
<1>4. CASE RunGone(s)
  <2>1. OnlyAt(s)
    BY <1>0, <1>1, <1>4 DEF RunGone, OnlyAt, Instance
  <2>2. Instance(s)' = {}
    BY <1>0, <1>4 DEF RunGone, Rename, InstanceInv, Instance, RunRoles
  <2>3. QED
    BY <2>1, <2>2, IsEnd
<1>5. CASE SupGone(s)
  <2>1. OnlyAt(s)
    BY <1>0, <1>1, <1>5 DEF SupGone, OnlyAt, Instance
  <2>2. CASE "run" \in procs[s]
    <3>1. Instance(s) = {"run"} /\ Instance(s)' = {"old"}
      BY <1>0, <1>5, <2>2 DEF SupGone, Rename, InstanceInv, Instance, RunRoles
    <3>2. QED
      BY <2>1, <3>1, IsOrphan
  <2>3. CASE "run" \notin procs[s]
    <3>1. Instance(s)' = Instance(s)
      BY <1>0, <1>5, <2>3 DEF SupGone, Rename, Instance, RunRoles
    <3>2. QED
      BY <2>1, <3>1, IsStutterAt
  <2>4. QED
    BY <2>2, <2>3
<1>6. ASSUME NEW r \in Roles, OtherGone(s, r)
      PROVE  Lock!LockNext \/ UNCHANGED Lock!lockVars
  <2>1. OnlyAt(s)
    BY <1>0, <1>1, <1>6 DEF OtherGone, OnlyAt, Instance
  <2>2. CASE r \in RunRoles
    <3>1. Instance(s)' = {}
      BY <1>0, <1>6, <2>2 DEF OtherGone, InstanceInv, Instance, RunRoles
    <3>2. QED
      BY <2>1, <3>1, IsEnd
  <2>3. CASE r \notin RunRoles
    <3>1. Instance(s)' = Instance(s)
      BY <1>0, <1>6, <2>3 DEF OtherGone, Instance
    <3>2. QED
      BY <2>1, <3>1, IsStutterAt
  <2>4. QED
    BY <2>2, <2>3
<1>7. ASSUME NEW r \in Roles, Fork(s, r)
      PROVE  Lock!LockNext \/ UNCHANGED Lock!lockVars
  <2>1. OnlyAt(s)
    BY <1>0, <1>1, <1>7 DEF Fork, OnlyAt, Instance
  <2>2. Instance(s)' = Instance(s)
    BY <1>0, <1>7, PlaygroundAssumption DEF Fork, Instance, RunRoles
  <2>3. QED
    BY <2>1, <2>2, IsStutterAt
<1>8. QED
  BY <1>2, <1>3, <1>4, <1>5, <1>6, <1>7 DEF Environment, Boot, NotifyReady, SupKilled,
     LogBoot, LogExit

\* And the first states are first states of ServiceLock.
LEMMA InitLocks ==
  ASSUME Init
  PROVE  Lock!LockInit
<1>1. \A c \in Commands : Managed(c) = {} /\ TickedOff(c) = {}
  BY DEF Init, Idle, Managed, TickedOff, Critical
<1>2. \A s \in Services : Instance(s) \in {{}, {"run"}}
  BY DEF Init, PgInit, Instance, RunRoles
<1>3. QED
  BY <1>1, <1>2 DEF Instance, Lock!LockInit

\* Every step of the commands, of s6 and of the services is one that
\* ServiceLock allows: .pgctl.lock and the inherited flock together keep what it
\* says of managers, of stopped services and of run scripts.
THEOREM Refinement == Spec => KeepsServiceLock
<1>1. /\ TypeOK /\ TypeOK' /\ SafetyInv /\ SafetyInv' /\ StopInv /\ [Next]_vars
      => [Lock!LockNext]_Lock!lockVars
  <2>1. ASSUME TypeOK, TypeOK', SafetyInv, SafetyInv', StopInv, Next
        PROVE  Lock!LockNext \/ UNCHANGED Lock!lockVars
    BY <2>1, CommandStepLocks, InvocationLocks, EnvironmentLocks DEF Next
  <2>2. ASSUME UNCHANGED vars PROVE UNCHANGED Lock!lockVars
    BY <2>2 DEF vars, pgVars, Lock!lockVars, Managed, TickedOff
  <2>3. QED
    BY <2>1, <2>2
<1>2. Init => Lock!LockInit
  BY InitLocks
<1>3. QED
  BY <1>1, <1>2, Typing, Safety, Stopping, PTL DEF Spec, KeepsServiceLock, Lock!LockSpec


(***************************************************************************)
(* What one step of a command adds to what it has found stopped.           *)
(***************************************************************************)
\* Nothing, or a service that its scan has just found without a process.
Adds(c) ==
  \/ FoundStopped(cmd'[c]) \subseteq FoundStopped(cmd[c])
  \/ \E s \in Services :
       /\ FoundStopped(cmd'[c]) \subseteq FoundStopped(cmd[c]) \cup {s}
       /\ RolesSeen(s) = {} /\ UNCHANGED pgVars

Advances(c) == FailsNone(cmd'[c]) /\ Adds(c)

\* A command that is neither stopping what failed nor has done so.
LEMMA NoFailure ==
  ASSUME NEW c \in Commands, cmd'[c].job # "failStart", cmd'[c].result # "startFailed"
  PROVE  Advances(c)
BY DEF Advances, Adds, FailsNone, FoundStopped, StopsFailed

\* It ends.
LEMMA EndedAdvances ==
  ASSUME TypeOK, NEW c \in Commands, NEW how, how # "startFailed",
         cmd' = [cmd EXCEPT ![c] = Ended(c, how)]
  PROVE  Advances(c)
<1>1. cmd'[c] = Ended(c, how)
  BY DEF TypeOK
<1>2. Ended(c, how).job = "start" /\ Ended(c, how).result = how
  BY DEF Ended, Idle
<1> QED
  BY <1>1, <1>2, NoFailure

\* It goes on with the same job, and what it has not found stopped does not grow.
LEMMA SameAdvances ==
  ASSUME TypeOK, NEW c \in Commands, FailsNone(cmd[c]), cmd[c].pc # "done",
         cmd'[c].job = cmd[c].job, cmd'[c].result = cmd[c].result,
         cmd'[c].phase = cmd[c].phase, cmd'[c].failed = cmd[c].failed,
         cmd'[c].force = cmd[c].force, cmd'[c].targets = cmd[c].targets,
         (cmd[c].job = "failStart" /\ cmd[c].force)
           => Range(cmd[c].targets) \cap Unstopped(cmd[c]) \subseteq Unstopped(cmd'[c])
  PROVE  Advances(c)
BY DEF Advances, Adds, FailsNone, FoundStopped, StopsFailed

\* While it checks before it changes anything, everything is to do.
LEMMA AllToDo ==
  ASSUME TypeOK, NEW c \in Commands, CourseOK(cmd[c]), FailsNone(cmd[c]),
         cmd[c].job = "failStart", cmd[c].force, cmd[c].phase = "Stop",
         cmd[c].mode = "check" \/ cmd[c].pc = "lock"
  PROVE  Range(cmd[c].targets) \subseteq cmd[c].todo
<1>1. cmd[c].failed = <<>>
  BY DEF FailsNone
<1>2. Range(<<>>) = {}
  BY DEF Range
<1>3. Range(cmd[c].targets) \subseteq cmd[c].todo \cup Range(cmd[c].failed)
  BY DEF CourseOK, BeginsUnticked
<1> QED
  BY <1>1, <1>2, <1>3

\* The fields of a command that its loops leave alone.
Same(c) ==
  /\ cmd'[c].job = cmd[c].job /\ cmd'[c].result = cmd[c].result
  /\ cmd'[c].phase = cmd[c].phase /\ cmd'[c].mode = cmd[c].mode
  /\ cmd'[c].force = cmd[c].force /\ cmd'[c].targets = cmd[c].targets

Assertion == {"assert", "flock", "scan"}
Afterwards == {"hookScan", "postStop", "after"}

\* A step of a loop that asserts nothing.
LEMMA LoopAdvances ==
  ASSUME TypeOK, NEW c \in Commands, FailsNone(cmd[c]), cmd[c].pc # "done",
         Same(c), cmd'[c].failed = cmd[c].failed, cmd'[c].todo = cmd[c].todo,
         cmd[c].pc \notin Afterwards, cmd'[c].pc \notin Afterwards,
         cmd[c].mode = "change" \/ (cmd[c].pc \notin Assertion /\ cmd'[c].pc \notin Assertion)
  PROVE  Advances(c)
<1>1. Unstopped(cmd'[c]) = Unstopped(cmd[c])
  BY DEF Unstopped, Same, Assertion, Afterwards
<1> QED
  BY <1>1, SameAdvances DEF Same

\* An assertion goes on, or fails.
LEMMA AssertionAdvances ==
  ASSUME TypeOK, NEW c \in Commands, CourseOK(cmd[c]), FailsNone(cmd[c]),
         cmd[c].pc \in Assertion, cmd'[c].pc \in Assertion \cup {"rejected"},
         Same(c), cmd'[c].failed = cmd[c].failed, cmd'[c].todo = cmd[c].todo,
         cmd'[c].left = cmd[c].left
  PROVE  Advances(c)
<1>1. ASSUME cmd[c].job = "failStart", cmd[c].force
      PROVE  Range(cmd[c].targets) \cap Unstopped(cmd[c]) \subseteq Unstopped(cmd'[c])
  <2>1. CASE cmd[c].phase # "Stop"
    BY <2>1 DEF Unstopped
  <2>2. CASE cmd[c].phase = "Stop" /\ cmd[c].mode = "check"
    <3>1. Range(cmd[c].targets) \subseteq cmd[c].todo
      BY <1>1, <2>2, AllToDo
    <3>2. cmd'[c].phase = "Stop" /\ cmd'[c].pc \notin {"hookScan", "postStop", "after"}
      BY <2>2 DEF Same, Assertion
    <3>3. Unstopped(cmd[c]) = cmd[c].left
      BY <2>2 DEF Unstopped, Assertion
    <3>4. Unstopped(cmd'[c]) \in {cmd[c].left, cmd[c].todo}
      BY <3>2 DEF Unstopped
    <3> QED
      BY <3>1, <3>3, <3>4
  <2>3. CASE cmd[c].phase = "Stop" /\ cmd[c].mode # "check"
    BY <2>3 DEF Unstopped, Same, Assertion
  <2> QED
    BY <2>1, <2>2, <2>3
<1> QED
  BY <1>1, SameAdvances DEF Same, Assertion

\* A start.
LEMMA StartAdvances ==
  ASSUME TypeOK, NEW c \in Commands, FailsNone(cmd[c]), cmd[c].phase = "Start",
         cmd[c].pc # "done", cmd'[c].job = cmd[c].job, cmd'[c].result = cmd[c].result
  PROVE  Advances(c)
BY NoFailure DEF FailsNone

\* The scan finds nothing: the service is ticked off.
LEMMA AcceptAdvances ==
  ASSUME TypeOK, NEW c \in Commands, NEW s \in Services, FailsNone(cmd[c]),
         cmd[c].pc = "scan", cmd'[c].pc = "assert",
         Same(c), cmd'[c].failed = cmd[c].failed, cmd'[c].left = cmd[c].left \ {s},
         cmd'[c].todo = IF cmd[c].mode = "change" THEN cmd[c].todo \ {s} ELSE cmd[c].todo,
         RolesSeen(s) = {}, UNCHANGED pgVars
  PROVE  Advances(c)
<1>1. Unstopped(cmd[c]) \subseteq Unstopped(cmd'[c]) \cup {s}
  <2>1. CASE cmd[c].phase # "Stop"
    BY <2>1 DEF Unstopped
  <2>2. CASE cmd[c].phase = "Stop" /\ cmd[c].mode = "check"
    BY <2>2 DEF Unstopped, Same
  <2>3. CASE cmd[c].phase = "Stop" /\ cmd[c].mode # "check"
    <3>1. cmd[c].mode = "change"
      BY <2>3, FieldTypes DEF CommandState
    <3> QED
      BY <2>3, <3>1 DEF Unstopped, Same
  <2> QED
    BY <2>1, <2>2, <2>3
<1>2. FoundStopped(cmd'[c]) \subseteq FoundStopped(cmd[c]) \cup {s}
  BY <1>1 DEF FoundStopped, StopsFailed, Same
<1>3. FailsNone(cmd'[c])
  BY DEF FailsNone, Same
<1> QED
  BY <1>2, <1>3 DEF Advances, Adds

\* A step at one service.
LEMMA StepAtAdvances ==
  ASSUME TypeOK, NEW c \in Commands, NEW s \in Services, CourseOK(cmd[c]),
         FailsNone(cmd[c]), StepAt(c, s)
  PROVE  Advances(c)
<1>0. cmd[c] \in CommandState /\ cmd \in [Commands -> CommandState]
  BY FieldTypes DEF TypeOK
<1> USE DEF Same, Assertion, Afterwards, Become, IsNext, Changing, Asserting, Rejected
<1>1. CASE TakeLock(c, s)
  <2>1. /\ Same(c) /\ cmd'[c].failed = cmd[c].failed /\ cmd'[c].todo = cmd[c].todo
        /\ cmd[c].pc = "lock" /\ cmd'[c].pc = "lock"
    BY <1>0, <1>1 DEF TakeLock, CommandState
  <2> QED
    BY <2>1, LoopAdvances
<1>2. CASE FindLockHeld(c, s)
  <2>1. /\ Same(c) /\ cmd'[c].failed = cmd[c].failed /\ cmd'[c].todo = cmd[c].todo
        /\ cmd[c].pc = "lock" /\ cmd'[c].pc = "lockHeld"
    BY <1>0, <1>2 DEF FindLockHeld, CommandState
  <2> QED
    BY <2>1, LoopAdvances
<1>3. CASE CleanUp(c, s) \/ FindSupervised(c, s) \/ TakeFlock(c, s) \/ AssertReady(c, s)
  <2>1. cmd[c].phase = "Start" /\ cmd[c].pc \in {"change", "assert"}
    BY <1>3 DEF CleanUp, FindSupervised, TakeFlock, AssertReady
  <2>2. cmd'[c].job = cmd[c].job /\ cmd'[c].result = cmd[c].result
    <3>1. CASE CleanUp(c, s)
      BY <1>0, <3>1 DEF CleanUp, CommandState
    <3>4. CASE FindSupervised(c, s)
      BY <1>0, <3>4 DEF FindSupervised, CommandState
    <3>5. CASE TakeFlock(c, s)
      BY <1>0, <3>5 DEF TakeFlock, UseFlock, CommandState
    <3>2. CASE Accept(c, s)
      BY <1>0, <3>2 DEF Accept, CommandState
    <3>3. CASE Reject(c)
      BY <1>0, <3>3 DEF Reject, CommandState
    <3> QED
      BY <1>3, <3>1, <3>2, <3>3, <3>4, <3>5 DEF AssertReady
  <2> QED
    BY <2>1, <2>2, StartAdvances
<1>4. CASE FindRunaway(c, s)
  BY <1>4, EndedAdvances DEF FindRunaway
<1>5. CASE BringUp(c, s) \/ BringDown(c, s) \/ KillLogger(c, s)
  <2>1. /\ Same(c) /\ cmd'[c].failed = cmd[c].failed /\ cmd'[c].todo = cmd[c].todo
        /\ cmd[c].pc \in {"svcUp", "change"} /\ cmd'[c].pc = "change"
    <3>1. Visited(c, s) /\ cmd[c].pc \in {"svcUp", "change"}
      BY <1>5 DEF BringUp, BringDown, KillLogger
    <3> QED
      BY <1>0, <3>1 DEF Visited, CommandState
  <2> QED
    BY <2>1, LoopAdvances
<1>6. CASE AssertUnsupervised(c, s)
  <2>1. /\ Same(c) /\ cmd'[c].failed = cmd[c].failed /\ cmd'[c].todo = cmd[c].todo
        /\ cmd'[c].left = cmd[c].left
        /\ cmd[c].pc = "assert" /\ cmd'[c].pc \in {"flock", "rejected"}
    <3>1. CASE cmd' = [cmd EXCEPT ![c] = [cmd[c] EXCEPT !.pc = "flock"]]
      BY <1>0, <1>6, <3>1 DEF AssertUnsupervised, CommandState
    <3>2. CASE Reject(c)
      BY <1>0, <1>6, <3>2 DEF AssertUnsupervised, Reject, CommandState
    <3> QED
      BY <1>6, <3>1, <3>2 DEF AssertUnsupervised
  <2> QED
    BY <2>1, AssertionAdvances
<1>7. CASE AssertUnlocked(c, s)
  <2>1. /\ Same(c) /\ cmd'[c].failed = cmd[c].failed /\ cmd'[c].todo = cmd[c].todo
        /\ cmd'[c].left = cmd[c].left
        /\ cmd[c].pc = "flock" /\ cmd'[c].pc \in {"scan", "rejected"}
    BY <1>0, <1>7 DEF AssertUnlocked, CommandState
  <2> QED
    BY <2>1, AssertionAdvances
<1>8. CASE AssertNoProcess(c, s)
  <2>1. CASE RolesSeen(s) = {} /\ CommandsSeen(c, s) = {}
    <3>1. Accept(c, s) /\ UNCHANGED pgVars /\ cmd[c].pc = "scan"
      BY <1>8, <2>1 DEF AssertNoProcess
    <3>2. /\ Same(c) /\ cmd'[c].failed = cmd[c].failed
          /\ cmd'[c].left = cmd[c].left \ {s} /\ cmd'[c].pc = "assert"
          /\ cmd'[c].todo = IF cmd[c].mode = "change" THEN cmd[c].todo \ {s} ELSE cmd[c].todo
      BY <1>0, <3>1 DEF Accept, CommandState
    <3> QED
      BY <2>1, <3>1, <3>2, AcceptAdvances
  <2>2. CASE ~(RolesSeen(s) = {} /\ CommandsSeen(c, s) = {})
    <3>1. Reject(c) /\ cmd[c].pc = "scan"
      BY <1>8, <2>2 DEF AssertNoProcess
    <3>2. /\ Same(c) /\ cmd'[c].failed = cmd[c].failed /\ cmd'[c].todo = cmd[c].todo
          /\ cmd'[c].left = cmd[c].left /\ cmd'[c].pc = "rejected"
      BY <1>0, <3>1 DEF Reject, CommandState
    <3> QED
      BY <3>1, <3>2, AssertionAdvances
  <2> QED
    BY <2>1, <2>2
<1>9. CASE Recheck(c, s) \/ ForceStop(c, s)
  <2>1. /\ Same(c) /\ cmd'[c].failed = cmd[c].failed /\ cmd'[c].todo = cmd[c].todo
        /\ cmd[c].pc = "rejected" /\ cmd'[c].pc = "assert" /\ cmd[c].mode = "change"
    <3>1. CASE Recheck(c, s)
      BY <1>0, <3>1 DEF Recheck, CommandState
    <3>2. CASE ForceStop(c, s)
      BY <1>0, <3>2 DEF ForceStop, CommandState
    <3> QED
      BY <1>9, <3>1, <3>2
  <2> QED
    BY <2>1, LoopAdvances
<1>10. CASE GiveUp(c, s)
  <2>1. /\ Same(c) /\ cmd[c].pc = "rejected" /\ cmd'[c].pc = "assert"
        /\ ~(cmd[c].force /\ cmd[c].phase = "Stop")
    BY <1>0, <1>10 DEF GiveUp, FailsByForce, CommandState
  <2>2. FoundStopped(cmd'[c]) = FoundStopped(cmd[c])
    BY <2>1 DEF FoundStopped, StopsFailed, Unstopped
  <2>3. FailsNone(cmd'[c])
    BY <2>1 DEF FailsNone
  <2> QED
    BY <2>2, <2>3 DEF Advances, Adds
<1>11. CASE HookScan(c, s)
  <2>1. /\ Same(c) /\ cmd'[c].failed = cmd[c].failed
        /\ cmd[c].pc = "hookScan" /\ cmd'[c].pc \in {"hookScan", "after"}
    BY <1>0, <1>11 DEF HookScan, CommandState
  <2>2. Unstopped(cmd[c]) = {}
    BY <2>1 DEF Unstopped
  <2> QED
    BY <2>1, <2>2, SameAdvances
<1>12. CASE DebugFlock(c, s)
  <2>1. cmd[c].job = "debug"
    BY <1>12 DEF DebugFlock, CourseOK, JobFits
  <2>2. CASE DirFree(c, s)
    <3>1. cmd'[c].job = cmd[c].job /\ cmd'[c].result = cmd[c].result /\ cmd[c].pc # "done"
      <4>1. UseFlock(c, s, "exec") /\ cmd[c].pc = "foreground"
        BY <1>12, <2>2 DEF DebugFlock
      <4> QED
        BY <1>0, <4>1 DEF UseFlock, CommandState
    <3> QED
      BY <2>1, <3>1, NoFailure DEF FailsNone
  <2>3. CASE ~DirFree(c, s)
    BY <1>12, <2>3, EndedAdvances DEF DebugFlock
  <2> QED
    BY <2>2, <2>3
<1> QED
  BY <1>1, <1>2, <1>3, <1>4, <1>5, <1>6, <1>7, <1>8, <1>9, <1>10, <1>11, <1>12 DEF StepAt

\* It begins another phase.
LEMMA BeginTurn ==
  ASSUME NEW r \in CommandState, NEW job, NEW phase, NEW q, NEW todo
  PROVE  LET b == Begin(r, job, phase, q, todo)
         IN  /\ b.pc = "lock" /\ b.job = job /\ b.phase = phase /\ b.targets = q
             /\ b.todo = todo /\ b.failed = r.failed /\ b.force = r.force
             /\ b.result = r.result
BY DEF Begin, CommandState

\* What a command does between two phases.
LEMMA TurnAdvances ==
  ASSUME TypeOK, NEW c \in Commands, CourseOK(cmd[c]), FailsNone(cmd[c]),
         \/ AfterStop(c) \/ AfterStart(c) \/ AfterStopLogs(c) \/ DebugState(c)
  PROVE  Advances(c)
<1>0. cmd[c] \in CommandState /\ cmd \in [Commands -> CommandState]
  BY FieldTypes DEF TypeOK
<1>1. cmd[c].pc # "done" /\ cmd[c].result # "startFailed"
  BY DEF FailsNone, AfterStop, AfterStart, AfterStopLogs, DebugState, Ending
<1>3. CASE AfterStop(c)
  <2>1. cmd[c].pc = "after" /\ cmd[c].phase = "Stop"
    BY <1>3 DEF AfterStop, Ending
  <2>2. CASE cmd[c].job # "restart"
    <3> DEFINE todo == Range(cmd[c].targets) \ Range(cmd[c].failed)
    <3>1. cmd' = [cmd EXCEPT ![c] = Begin(cmd[c], cmd[c].job, "StopLogs", cmd[c].targets, todo)]
      BY <1>3, <2>2 DEF AfterStop, Become
    <3> HIDE DEF todo
    <3>5. cmd'[c] = Begin(cmd[c], cmd[c].job, "StopLogs", cmd[c].targets, todo)
      BY <1>0, <3>1
    <3>2. /\ cmd'[c].job = cmd[c].job /\ cmd'[c].phase = "StopLogs"
          /\ cmd'[c].targets = cmd[c].targets /\ cmd'[c].force = cmd[c].force
          /\ cmd'[c].result = cmd[c].result
      BY <1>0, <3>5, BeginTurn
    <3>3. FoundStopped(cmd'[c]) = FoundStopped(cmd[c])
      BY <2>1, <3>2 DEF FoundStopped, StopsFailed, Unstopped
    <3>4. FailsNone(cmd'[c])
      BY <1>1, <3>2 DEF FailsNone
    <3> QED
      BY <3>3, <3>4 DEF Advances, Adds
  <2>3. CASE cmd[c].job = "restart" /\ cmd[c].failed = <<>>
    <3>1. cmd'[c] = Begin(cmd[c], "start", "Start", cmd[c].targets, Range(cmd[c].targets))
      BY <1>0, <1>3, <2>3 DEF AfterStop, Become
    <3>2. cmd'[c].job = "start" /\ cmd'[c].result = cmd[c].result
      BY <1>0, <3>1, BeginTurn
    <3> QED
      BY <1>1, <3>2, NoFailure
  <2>4. CASE cmd[c].job = "restart" /\ cmd[c].failed # <<>>
    BY <1>3, <2>4, EndedAdvances DEF AfterStop, Become
  <2> QED
    BY <2>2, <2>3, <2>4
<1>4. CASE AfterStart(c)
  <2>1. CASE cmd[c].failed = <<>>
    BY <1>4, <2>1, EndedAdvances DEF AfterStart, Become
  <2>2. CASE cmd[c].failed # <<>>
    <3> DEFINE r == [cmd[c] EXCEPT !.failed = <<>>]
    <3>1. cmd'[c] = Begin(r, "failStart", "Stop", cmd[c].failed, Range(cmd[c].failed))
      BY <1>0, <1>4, <2>2 DEF AfterStart, Become
    <3>2. <<>> \in Seq(Services)
      OBVIOUS
    <3>3. r \in CommandState /\ r.result = cmd[c].result /\ r.failed = <<>>
      BY <1>0, <3>2 DEF CommandState
    <3> HIDE DEF r
    <3>4. /\ cmd'[c].pc = "lock" /\ cmd'[c].job = "failStart" /\ cmd'[c].phase = "Stop"
          /\ cmd'[c].targets = cmd[c].failed /\ cmd'[c].todo = Range(cmd[c].failed)
          /\ cmd'[c].failed = <<>> /\ cmd'[c].result = cmd[c].result
      BY <3>1, <3>3, BeginTurn
    <3>5. FoundStopped(cmd'[c]) = {}
      BY <3>4 DEF FoundStopped, Unstopped
    <3>6. FailsNone(cmd'[c])
      BY <1>1, <3>4 DEF FailsNone
    <3> QED
      BY <3>5, <3>6 DEF Advances, Adds
  <2> QED
    BY <2>1, <2>2
<1>5. CASE AfterStopLogs(c)
  <2>1. CASE cmd[c].job = "failStart"
    <3>1. cmd'[c] = Ended(c, "startFailed") /\ cmd[c].phase = "StopLogs"
      BY <1>0, <1>5, <2>1 DEF AfterStopLogs, Ending, Become
    <3>2. /\ cmd'[c].pc = "done" /\ cmd'[c].phase = "Start" /\ cmd'[c].job = "start"
          /\ cmd'[c].targets = cmd[c].targets /\ cmd'[c].force = cmd[c].force
      BY <3>1 DEF Ended, Idle
    <3>3. FoundStopped(cmd'[c]) \subseteq FoundStopped(cmd[c])
      BY <2>1, <3>1, <3>2 DEF FoundStopped, StopsFailed, Unstopped
    <3>4. FailsNone(cmd'[c])
      BY <3>2 DEF FailsNone
    <3> QED
      BY <3>3, <3>4 DEF Advances, Adds
  <2>2. CASE /\ cmd[c].job # "failStart"
             /\ cmd' = [cmd EXCEPT ![c] = [cmd[c] EXCEPT !.pc = "preStart"]]
    <3>1. cmd'[c].job = cmd[c].job /\ cmd'[c].result = cmd[c].result
      BY <1>0, <2>2 DEF CommandState
    <3> QED
      BY <1>1, <2>2, <3>1, NoFailure
  <2>3. CASE \E how \in {"failed", "ok"} : cmd' = [cmd EXCEPT ![c] = Ended(c, how)]
    BY <2>3, EndedAdvances
  <2> QED
    BY <1>5, <2>1, <2>2, <2>3 DEF AfterStopLogs, Become
<1>6. CASE DebugState(c)
  <2>1. cmd[c].job = "debug"
    BY <1>6 DEF DebugState, CourseOK, JobFits
  <2>2. CASE cmd' = [cmd EXCEPT ![c] = [cmd[c] EXCEPT !.pc = "preStart"]]
    <3>1. cmd'[c].job = cmd[c].job /\ cmd'[c].result = cmd[c].result
      BY <1>0, <2>2 DEF CommandState
    <3> QED
      BY <1>1, <2>1, <3>1, NoFailure
  <2>3. CASE cmd' = [cmd EXCEPT ![c] = Begin(cmd[c], "debug", "Stop", cmd[c].targets,
                                             Range(cmd[c].targets))]
    <3>1. cmd'[c] = Begin(cmd[c], "debug", "Stop", cmd[c].targets, Range(cmd[c].targets))
      BY <1>0, <2>3
    <3>2. cmd'[c].job = "debug" /\ cmd'[c].result = cmd[c].result
      BY <1>0, <3>1, BeginTurn
    <3> QED
      BY <1>1, <3>2, NoFailure
  <2> QED
    BY <1>6, <2>2, <2>3 DEF DebugState, Become
<1> QED
  BY <1>3, <1>4, <1>5, <1>6

\* Any step of a command.
LEMMA StepAdvances ==
  ASSUME TypeOK, NEW c \in Commands, CourseOK(cmd[c]), FailsNone(cmd[c]),
         Step(c) \/ Failing(c) \/ Crash(c) \/ Killed(c)
  PROVE  Advances(c)
<1>0. cmd[c] \in CommandState /\ cmd \in [Commands -> CommandState]
  BY FieldTypes DEF TypeOK
<1> USE DEF Become
<1>1. CASE \E s \in Services : StepAt(c, s)
  BY <1>1, StepAtAdvances
<1>2. CASE AfterStop(c) \/ AfterStart(c) \/ AfterStopLogs(c) \/ DebugState(c)
  BY <1>2, TurnAdvances
<1>3. CASE RaiseLockHeld(c) \/ DebugExec(c) \/ Failing(c) \/ Crash(c)
  BY <1>3, EndedAdvances DEF RaiseLockHeld, DebugExec, Failing, HookFails, MessageFails, Crash
<1>4. CASE Locked(c) \/ Changed(c)
  <2>1. /\ Same(c) /\ cmd'[c].failed = cmd[c].failed /\ cmd'[c].todo = cmd[c].todo
        /\ cmd'[c].left = cmd[c].todo
        /\ cmd[c].pc \in {"lock", "change"} /\ cmd'[c].pc \in {"assert", "change"}
    <3>1. CASE Locked(c)
      BY <1>0, <3>1 DEF Locked, Same, CommandState
    <3>2. CASE Changed(c)
      BY <1>0, <3>2 DEF Changed, Same, CommandState
    <3> QED
      BY <1>4, <3>1, <3>2
  <2>2. Unstopped(cmd'[c]) = Unstopped(cmd[c])
    BY <2>1 DEF Unstopped, Same
  <2> QED
    BY <2>1, <2>2, SameAdvances DEF Same
<1>5. CASE Supervise(c)
  <2>1. /\ cmd[c].phase = "Start" /\ cmd[c].pc = "spawn"
        /\ cmd'[c].job = cmd[c].job /\ cmd'[c].result = cmd[c].result
    BY <1>0, <1>5 DEF Supervise, CourseOK, VisitsTodo, CommandState
  <2> QED
    BY <2>1, StartAdvances
<1>6. CASE BreakOut(c)
  <2>1. /\ cmd[c].pc = "rejected" /\ cmd'[c].pc \in {"preStart", "lock"}
        /\ cmd'[c].job = cmd[c].job /\ cmd'[c].result = cmd[c].result
        /\ cmd'[c].phase = cmd[c].phase /\ cmd'[c].failed = cmd[c].failed
        /\ cmd'[c].force = cmd[c].force /\ cmd'[c].targets = cmd[c].targets
        /\ cmd'[c].todo = cmd[c].todo
    <3> DEFINE x == [cmd[c] EXCEPT !.mode = "change", !.locks = {}, !.left = Range(cmd[c].targets)]
    <3>1. cmd'[c] = [x EXCEPT !.pc = IF cmd[c].phase = "Start" THEN "preStart" ELSE "lock"]
      BY <1>0, <1>6 DEF BreakOut, CommandState
    <3>2. /\ x.job = cmd[c].job /\ x.result = cmd[c].result
          /\ x.phase = cmd[c].phase /\ x.failed = cmd[c].failed
          /\ x.force = cmd[c].force /\ x.targets = cmd[c].targets /\ x.todo = cmd[c].todo
          /\ x \in CommandState
      BY <1>0, FieldTypes, RangeType DEF CommandState
    <3> HIDE DEF x
    <3> QED
      BY <1>6, <3>1, <3>2 DEF BreakOut, CommandState
  <2>2. Unstopped(cmd'[c]) = Unstopped(cmd[c])
    BY <2>1 DEF Unstopped
  <2> QED
    BY <2>1, <2>2, SameAdvances
<1>7. CASE AssertedAll(c)
  <2>1. /\ Same(c) /\ cmd'[c].failed = cmd[c].failed /\ cmd'[c].todo = cmd[c].todo
        /\ cmd[c].pc = "assert" /\ cmd[c].left = {}
        /\ \/ cmd[c].mode = "change" /\ cmd'[c].pc = "change"
           \/ cmd[c].mode = "change" /\ cmd[c].todo = {}
           \/ cmd[c].mode # "change" /\ cmd'[c].pc = "after"
    <3>1. CASE cmd[c].mode = "change" /\ cmd[c].todo # {}
      BY <1>0, <1>7, <3>1 DEF AssertedAll, Same, CommandState
    <3>2. CASE cmd[c].mode = "change" /\ cmd[c].todo = {} /\ cmd[c].phase = "Stop"
      BY <1>0, <1>7, <3>2 DEF AssertedAll, Same, CommandState
    <3>3. CASE cmd[c].mode = "change" /\ cmd[c].todo = {} /\ cmd[c].phase # "Stop"
      BY <1>0, <1>7, <3>3 DEF AssertedAll, Same, CommandState
    <3>4. CASE cmd[c].mode # "change"
      BY <1>0, <1>7, <3>4 DEF AssertedAll, Same, CommandState
    <3> QED
      BY <3>1, <3>2, <3>3, <3>4
  <2>2. cmd[c].mode \in {"check", "change"}
    BY <1>0 DEF CommandState
  <2>3. Unstopped(cmd[c]) \subseteq Unstopped(cmd'[c])
    BY <2>1, <2>2 DEF Unstopped, Same
  <2> QED
    BY <2>1, <2>3, SameAdvances DEF Same
<1>8. CASE PreStart(c)
  <2>1. /\ cmd[c].pc = "preStart" /\ (cmd[c].phase = "Start" \/ cmd[c].job = "debug")
        /\ cmd'[c].job = cmd[c].job /\ cmd'[c].result = cmd[c].result
    BY <1>0, <1>8 DEF PreStart, CourseOK, JobFits, CommandState
  <2> QED
    BY <2>1, StartAdvances, NoFailure DEF FailsNone
<1>9. CASE AllDown(c) \/ PostStop(c)
  <2>1. /\ Same(c) /\ cmd'[c].failed = cmd[c].failed
        /\ cmd[c].pc \in Afterwards /\ cmd'[c].pc \in Afterwards
    <3>1. CASE AllDown(c)
      BY <1>0, <3>1 DEF AllDown, Same, Afterwards, CommandState
    <3>2. CASE PostStop(c)
      BY <1>0, <3>2 DEF PostStop, Same, Afterwards, CommandState
    <3> QED
      BY <1>9, <3>1, <3>2
  <2>2. Unstopped(cmd'[c]) = Unstopped(cmd[c])
    BY <2>1 DEF Unstopped, Same, Afterwards
  <2> QED
    BY <2>1, <2>2, SameAdvances DEF Same, Afterwards
<1>10. CASE Killed(c)
  <2>1. CASE Active(c)
    BY <1>10, <2>1, EndedAdvances DEF Killed
  <2>2. CASE ~Active(c)
    <3>1. cmd' = cmd
      BY <1>0, <1>10, <2>2 DEF Killed
    <3> QED
      BY <3>1 DEF Advances, Adds
  <2> QED
    BY <2>1, <2>2
<1> QED
  BY <1>1, <1>2, <1>3, <1>4, <1>5, <1>6, <1>7, <1>8, <1>9, <1>10 DEF Step

(***************************************************************************)
(* FailedStartInv.                                                         *)
(***************************************************************************)
\* A new command has not failed to start anything.
LEMMA InvocationFailsNone ==
  ASSUME TypeOK, NEW c \in Commands, Invocation(c)
  PROVE  cmd'[c].job # "failStart" /\ cmd'[c].result # "startFailed"
<1>1. ASSUME NEW r \in CommandState, NEW job \in Jobs \cup {"restart"},
             NEW q, r.result = "none",
             cmd' = [cmd EXCEPT ![c] = FirstPhase(r, job, q)]
      PROVE  cmd'[c].job # "failStart" /\ cmd'[c].result # "startFailed"
  <2>1. cmd'[c] = FirstPhase(r, job, q)
    BY <1>1 DEF TypeOK
  <2>2. job # "failStart"
    BY PgctlAssumption
  <2>3. CASE job = "debug"
    <3>1. cmd'[c] = [r EXCEPT !.pc = "debugState", !.job = job, !.targets = q]
      BY <2>1, <2>3 DEF FirstPhase
    <3>2. cmd'[c].job = job /\ cmd'[c].result = r.result
      BY <3>1 DEF CommandState
    <3> QED
      BY <1>1, <2>2, <3>2
  <2>4. CASE job # "debug"
    <3> DEFINE phase == IF job = "start" THEN "Start" ELSE "Stop"
    <3>1. cmd'[c] = Begin(r, job, phase, q, Range(q))
      BY <2>1, <2>4 DEF FirstPhase
    <3>2. cmd'[c].job = job /\ cmd'[c].result = r.result
      BY <3>1, BeginTurn
    <3> QED
      BY <1>1, <2>2, <3>2
  <2> QED
    BY <2>3, <2>4
<1>2. ASSUME NEW f \in BOOLEAN
      PROVE  [Idle EXCEPT !.force = f] \in CommandState /\ [Idle EXCEPT !.force = f].result = "none"
  BY IdleType DEF CommandState, Idle
<1>3. ASSUME NEW o \in Services
      PROVE  /\ [Idle EXCEPT !.origin = o, !.inherits = TRUE] \in CommandState
             /\ [Idle EXCEPT !.origin = o, !.inherits = TRUE].result = "none"
  BY IdleType DEF CommandState, Idle
<1>4. ASSUME NEW job \in Jobs, NEW q \in Requests, NEW f \in Forces, Invoke(c, job, q, f)
      PROVE  cmd'[c].job # "failStart" /\ cmd'[c].result # "startFailed"
  <2> DEFINE r == [Idle EXCEPT !.force = f]
  <2>1. r \in CommandState /\ r.result = "none"
    BY <1>2, PgctlAssumption
  <2>2. cmd' = [cmd EXCEPT ![c] = FirstPhase(r, job, q)]
    BY <1>4 DEF Invoke, Become
  <2> HIDE DEF r
  <2> QED
    BY <1>1, <2>1, <2>2
<1>5. ASSUME NEW o \in Services, NEW job \in Jobs \cup {"restart"}, NEW q,
             Become(c, FirstPhase([Idle EXCEPT !.origin = o, !.inherits = TRUE], job, q))
      PROVE  cmd'[c].job # "failStart" /\ cmd'[c].result # "startFailed"
  <2> DEFINE r == [Idle EXCEPT !.origin = o, !.inherits = TRUE]
  <2>1. r \in CommandState /\ r.result = "none"
    BY <1>3
  <2>2. cmd' = [cmd EXCEPT ![c] = FirstPhase(r, job, q)]
    BY <1>5 DEF Become
  <2> HIDE DEF r
  <2> QED
    BY <1>1, <2>1, <2>2
<1> QED
  BY <1>4, <1>5 DEF Invocation, InvokeNested, PollRestart

\* A step does not take a command back to where it was before its invocation.
LEMMA StepAtGoesOn ==
  ASSUME TypeOK, NEW c \in Commands, NEW s \in Services, StepAt(c, s)
  PROVE  cmd'[c].pc # "idle"
<1>0. cmd[c] \in CommandState /\ cmd \in [Commands -> CommandState]
  BY FieldTypes DEF TypeOK
<1> USE DEF Become
<1>1. ASSUME NEW how, cmd' = [cmd EXCEPT ![c] = Ended(c, how)]
      PROVE  cmd'[c].pc # "idle"
  BY <1>0, <1>1, EndedFields
<1>2. CASE TakeLock(c, s)
  BY <1>0, <1>2 DEF TakeLock, CommandState
<1>3. CASE FindLockHeld(c, s)
  BY <1>0, <1>3 DEF FindLockHeld, CommandState
<1>4. CASE CleanUp(c, s)
  BY <1>0, <1>4 DEF CleanUp, Changing, CommandState
<1>5. CASE FindSupervised(c, s)
  BY <1>0, <1>5 DEF FindSupervised, CommandState
<1>6. CASE TakeFlock(c, s)
  BY <1>0, <1>6 DEF TakeFlock, UseFlock, CommandState
<1>7. CASE FindRunaway(c, s)
  BY <1>1, <1>7 DEF FindRunaway
<1>8. CASE Visited(c, s)
  BY <1>0, <1>8 DEF Visited, CommandState
<1>9. CASE Accept(c, s)
  BY <1>0, <1>9 DEF Accept, CommandState
<1>10. CASE Reject(c)
  BY <1>0, <1>10 DEF Reject, CommandState
<1>11. CASE cmd' = [cmd EXCEPT ![c] = [cmd[c] EXCEPT !.pc = "flock"]]
  BY <1>0, <1>11 DEF CommandState
<1>12. CASE AssertUnlocked(c, s)
  <2>1. CASE DirFree(c, s)
    BY <1>0, <1>12, <2>1 DEF AssertUnlocked, CommandState
  <2>2. CASE ~DirFree(c, s)
    BY <1>0, <1>12, <2>2 DEF AssertUnlocked, CommandState
  <2> QED
    BY <2>1, <2>2
<1>13. CASE Recheck(c, s)
  BY <1>0, <1>13 DEF Recheck, CommandState
<1>14. CASE ForceStop(c, s)
  BY <1>0, <1>14 DEF ForceStop, CommandState
<1>15. CASE GiveUp(c, s)
  BY <1>0, <1>15 DEF GiveUp, CommandState
<1>16. CASE HookScan(c, s)
  <2>1. CASE Down(s)
    BY <1>0, <1>16, <2>1 DEF HookScan, CommandState
  <2>2. CASE ~Down(s)
    BY <1>0, <1>16, <2>2 DEF HookScan, CommandState
  <2> QED
    BY <2>1, <2>2
<1>17. CASE DebugFlock(c, s)
  <2>1. CASE DirFree(c, s)
    <3>1. UseFlock(c, s, "exec")
      BY <1>17, <2>1 DEF DebugFlock
    <3> QED
      BY <1>0, <3>1 DEF UseFlock, CommandState
  <2>2. CASE ~DirFree(c, s)
    BY <1>1, <1>17, <2>2 DEF DebugFlock
  <2> QED
    BY <2>1, <2>2
<1> QED
  BY <1>2, <1>3, <1>4, <1>5, <1>6, <1>7, <1>8, <1>9, <1>10, <1>11, <1>12, <1>13, <1>14,
     <1>15, <1>16, <1>17
     DEF StepAt, BringUp, BringDown, KillLogger, AssertReady, AssertUnsupervised,
         AssertNoProcess

\* A step of a running command does not make it a new one.
LEMMA StepGoesOn ==
  ASSUME TypeOK, NEW c \in Commands, Step(c) \/ Failing(c) \/ Crash(c)
  PROVE  cmd'[c].pc # "idle"
<1>0. cmd[c] \in CommandState /\ cmd \in [Commands -> CommandState]
  BY FieldTypes DEF TypeOK
<1> USE DEF Become
<1>1. ASSUME NEW how, cmd' = [cmd EXCEPT ![c] = Ended(c, how)]
      PROVE  cmd'[c].pc # "idle"
  BY <1>0, <1>1, EndedFields
<1>2. ASSUME NEW r \in CommandState, NEW job, NEW phase, NEW q, NEW todo,
             cmd'[c] = Begin(r, job, phase, q, todo)
      PROVE  cmd'[c].pc # "idle"
  BY <1>2, BeginTurn
<1>3. CASE \E s \in Services : StepAt(c, s)
  BY <1>3, StepAtGoesOn
<1>4. CASE RaiseLockHeld(c) \/ DebugExec(c) \/ Failing(c) \/ Crash(c)
  BY <1>1, <1>4 DEF RaiseLockHeld, DebugExec, Failing, HookFails, MessageFails, Crash
<1>5. CASE Locked(c)
  BY <1>0, <1>5 DEF Locked, CommandState
<1>6. CASE Supervise(c)
  BY <1>0, <1>6 DEF Supervise, CommandState
<1>7. CASE Changed(c)
  BY <1>0, <1>7 DEF Changed, CommandState
<1>8. CASE BreakOut(c)
  <2> DEFINE x == [cmd[c] EXCEPT !.mode = "change", !.locks = {}, !.left = Range(cmd[c].targets)]
  <2>1. x \in CommandState
    BY <1>0, FieldTypes, RangeType DEF CommandState
  <2>2. cmd'[c] = [x EXCEPT !.pc = IF cmd[c].phase = "Start" THEN "preStart" ELSE "lock"]
    BY <1>0, <1>8 DEF BreakOut, CommandState
  <2> HIDE DEF x
  <2> QED
    BY <2>1, <2>2 DEF CommandState
<1>9. CASE AssertedAll(c)
  <2>1. CASE cmd' = [cmd EXCEPT ![c] = [cmd[c] EXCEPT !.pc = "change", !.left = cmd[c].todo]]
    BY <1>0, <2>1 DEF CommandState
  <2>2. CASE cmd' = [cmd EXCEPT ![c] = [cmd[c] EXCEPT !.pc = "hookScan", !.left = Services]]
    BY <1>0, <2>2 DEF CommandState
  <2>3. CASE cmd' = [cmd EXCEPT ![c] = [cmd[c] EXCEPT !.pc = "after", !.locks = {}]]
    BY <1>0, <2>3 DEF CommandState
  <2> QED
    BY <1>9, <2>1, <2>2, <2>3 DEF AssertedAll
<1>10. CASE PreStart(c)
  BY <1>0, <1>10 DEF PreStart, CommandState
<1>11. CASE AllDown(c)
  BY <1>0, <1>11 DEF AllDown, CommandState
<1>12. CASE PostStop(c)
  BY <1>0, <1>12 DEF PostStop, CommandState
<1>13. CASE cmd' = [cmd EXCEPT ![c] = [cmd[c] EXCEPT !.pc = "preStart"]]
  BY <1>0, <1>13 DEF CommandState
<1>14. CASE AfterStop(c)
  <2>1. CASE \E how : cmd' = [cmd EXCEPT ![c] = Ended(c, how)]
    BY <1>1, <2>1
  <2>2. CASE \E job, phase, q, todo : cmd'[c] = Begin(cmd[c], job, phase, q, todo)
    BY <1>0, <1>2, <2>2
  <2> QED
    BY <1>0, <1>14, <2>1, <2>2 DEF AfterStop
<1>15. CASE AfterStart(c)
  <2>1. [cmd[c] EXCEPT !.failed = <<>>] \in CommandState
    <3>1. <<>> \in Seq(Services)
      OBVIOUS
    <3> QED
      BY <1>0, <3>1 DEF CommandState
  <2>2. CASE cmd[c].failed = <<>>
    BY <1>1, <1>15, <2>2 DEF AfterStart
  <2>3. CASE cmd[c].failed # <<>>
    <3>1. cmd'[c] = Begin([cmd[c] EXCEPT !.failed = <<>>], "failStart", "Stop",
                          cmd[c].failed, Range(cmd[c].failed))
      BY <1>0, <1>15, <2>3 DEF AfterStart
    <3> QED
      BY <1>2, <2>1, <3>1
  <2> QED
    BY <2>2, <2>3
<1>16. CASE AfterStopLogs(c)
  BY <1>1, <1>13, <1>16 DEF AfterStopLogs
<1>17. CASE DebugState(c)
  <2>1. CASE cmd'[c] = Begin(cmd[c], "debug", "Stop", cmd[c].targets, Range(cmd[c].targets))
    BY <1>0, <1>2, <2>1
  <2> QED
    BY <1>0, <1>13, <1>17, <2>1 DEF DebugState
<1> QED
  BY <1>3, <1>4, <1>5, <1>6, <1>7, <1>8, <1>9, <1>10, <1>11, <1>12, <1>14, <1>15, <1>16,
     <1>17 DEF Step

\* A command that was never invoked takes no step, and none becomes such.
LEMMA IdleStays ==
  ASSUME TypeOK, NEW c \in Commands, cmd'[c].pc = "idle",
         Step(c) \/ Failing(c) \/ Crash(c) \/ Killed(c)
  PROVE  cmd[c].pc = "idle" /\ procs' = procs
<1>1. Killed(c)
  BY StepGoesOn
<1>2. CASE Active(c)
  BY <1>1, <1>2, EndedFields DEF Killed, TypeOK
<1>3. CASE ~Active(c)
  BY <1>1, <1>3 DEF Killed, TypeOK, pgVars
<1> QED
  BY <1>2, <1>3

\* What the scan of a service does not find is nothing, or what nobody sees.
LEMMA UnseenGone ==
  ASSUME TypeOK, NEW s \in Services, RolesSeen(s) = {}
  PROVE  Gone(s)
<1>1. procs[s] \subseteq Roles
  BY DEF TypeOK, PgTypeOK
<1> QED
  BY <1>1 DEF Gone, Unseen, RolesSeen, HaveOpen, BornWith, FdRoles, Roles

\* The steps of a command, its failure and its end keep FailedStartInv.
LEMMA CommandStepFailed ==
  ASSUME TypeOK, SafetyInv, StopInv, FailedStartInv, NEW c \in Commands,
         Step(c) \/ Failing(c) \/ Crash(c) \/ Killed(c)
  PROVE  FailedStartInv'
<1>1. CourseOK(cmd[c]) /\ FailsNone(cmd[c])
  BY DEF StopInv, FailedStartInv
<1>2. Advances(c) /\ \A d \in Commands \ {c} : cmd'[d] = cmd[d]
  BY <1>1, StepAdvances, StepFrame DEF Frame, SafetyInv, CommandInv, CommandOK
<1>3. \A d \in Commands : FailsNone(cmd'[d])
  BY <1>2 DEF Advances, FailedStartInv
<1>4. ASSUME NEW e \in Commands, \A d \in Commands \ {e} : cmd'[d].pc = "idle",
             NEW s \in FoundStopped(cmd'[e])
      PROVE  procs'[s] \subseteq Unseen
  <2>1. CASE e = c
    <3>1. \A d \in Commands \ {c} : cmd[d].pc = "idle"
      BY <1>2, <1>4, <2>1
    <3>2. CASE s \in FoundStopped(cmd[c])
      <4>1. procs[s] \subseteq Unseen
        BY <3>1, <3>2 DEF FailedStartInv
      <4>2. StopsFailed(cmd[c])
        BY <3>2 DEF FoundStopped
      <4>3. cmd[c].pc \notin {"spawn", "exec"}
        BY <1>1, <4>2 DEF CourseOK, JobFits, VisitsTodo, FailsNone, StopsFailed
      <4> QED
        BY <4>1, <4>3, StepStarts
    <3>3. CASE s \notin FoundStopped(cmd[c])
      <4>1. RolesSeen(s) = {} /\ UNCHANGED pgVars /\ s \in Services
        BY <1>2, <1>4, <2>1, <3>3 DEF Advances, Adds
      <4> QED
        BY <4>1, UnseenGone DEF Gone, pgVars
    <3> QED
      BY <3>2, <3>3
  <2>2. CASE e # c
    <3>1. cmd[c].pc = "idle" /\ procs' = procs
      BY <1>4, <2>2, IdleStays
    <3>2. cmd'[e] = cmd[e] /\ \A d \in Commands \ {e} : cmd[d].pc = "idle"
      BY <1>2, <1>4, <2>2, <3>1
    <3> QED
      BY <1>4, <3>1, <3>2 DEF FailedStartInv
  <2> QED
    BY <2>1, <2>2
<1> QED
  BY <1>3, <1>4 DEF FailedStartInv

\* So does the beginning of a command.
LEMMA InvocationFailed ==
  ASSUME TypeOK, FailedStartInv, NEW c \in Commands, Invocation(c)
  PROVE  FailedStartInv'
<1>1. cmd'[c].job # "failStart" /\ cmd'[c].result # "startFailed" /\ cmd'[c].pc # "idle"
  BY InvocationFailsNone, InvocationStarts
<1>2. \A d \in Commands \ {c} : cmd'[d] = cmd[d]
  BY InvocationFrame
<1>3. FailsNone(cmd'[c]) /\ FoundStopped(cmd'[c]) = {}
  BY <1>1 DEF FailsNone, FoundStopped, StopsFailed
<1> QED
  BY <1>1, <1>2, <1>3 DEF FailedStartInv

\* So does whatever s6 and the services do.
LEMMA EnvironmentFailed ==
  ASSUME TypeOK, FailedStartInv, NEW s \in Services, Environment(s),
         UNCHANGED <<cmd, doomed, shared>>
  PROVE  FailedStartInv'
<1>1. ASSUME NEW e \in Commands, \A d \in Commands \ {e} : cmd[d].pc = "idle",
             NEW t \in FoundStopped(cmd[e])
      PROVE  procs'[t] \subseteq Unseen
  <2>1. procs[t] \subseteq Unseen
    BY <1>1 DEF FailedStartInv
  <2>2. t \in Services
    BY <1>1, FieldTypes, RangeType DEF FoundStopped
  <2>3. Gone(t) /\ Quiet(t)
    BY <2>1 DEF Gone, Quiet, Unseen
  <2>4. Gone(t)'
    BY <2>2, <2>3, EnvironmentQuiet DEF TypeOK
  <2> QED
    BY <2>4 DEF Gone, Unseen
<1> QED
  BY <1>1 DEF FailedStartInv

\* A lone command that stops what it failed to start: what it has found
\* stopped stays so, and with force it gives none of the services up.
THEOREM FailedStarts == Spec => []FailedStartInv
<1>1. TypeOK /\ SafetyInv /\ StopInv /\ FailedStartInv /\ [Next]_vars => FailedStartInv'
  <2>1. ASSUME TypeOK, SafetyInv, StopInv, FailedStartInv, Next PROVE FailedStartInv'
    BY <2>1, CommandStepFailed, InvocationFailed, EnvironmentFailed DEF Next
  <2>2. ASSUME FailedStartInv, UNCHANGED vars PROVE FailedStartInv'
    BY <2>2 DEF vars, pgVars, FailedStartInv
  <2> QED
    BY <2>1, <2>2
<1>2. Init => FailedStartInv
  <2>1. ASSUME Init, NEW c \in Commands
        PROVE  cmd[c].job = "start" /\ cmd[c].result = "none"
    BY <2>1 DEF Init, Idle
  <2> QED
    BY <2>1 DEF FailedStartInv, FailsNone, FoundStopped, StopsFailed
<1> QED
  BY <1>1, <1>2, Typing, Safety, Stopping, PTL DEF Spec

\* When a lone start has reported services that it could not start, it has left
\* none of their processes (__show_failure(), cli.py): it has stopped them all.
THEOREM FailedStartsDown == Spec => []FailedStartIsDown
<1>1. FailedStartInv => FailedStartIsDown
  <2>1. ASSUME NEW c \in Commands, FailsNone(cmd[c]), cmd[c].result = "startFailed",
               cmd[c].force
        PROVE  FoundStopped(cmd[c]) = Range(cmd[c].targets)
    BY <2>1 DEF FailsNone, FoundStopped, StopsFailed, Unstopped
  <2> QED
    BY <2>1 DEF FailedStartInv, FailedStartIsDown
<1> QED
  BY <1>1, FailedStarts, PTL
=============================================================================
