---------------------------- MODULE PgctlProofs -----------------------------
(***************************************************************************)
(* Proofs about Pgctl: typing, and the two safety properties its locks are *)
(* there for, for any number of services and commands.                     *)
(***************************************************************************)
EXTENDS Pgctl, TLAPS

\* The elements of a sequence over S are in S.
LEMMA RangeType ==
  ASSUME NEW S, NEW q \in Seq(S)
  PROVE  Range(q) \subseteq S
BY DEF Range

\* A command that becomes a well-formed command leaves the commands so.
LEMMA BecomeType ==
  ASSUME TypeOK, NEW c \in Commands, NEW r \in CommandState, Become(c, r)
  PROVE  /\ cmd' \in [Commands -> CommandState]
         /\ doomed' \subseteq Commands /\ shared' \subseteq Services
BY DEF Become, TypeOK

\* A command that was never invoked has its type.
LEMMA IdleType == Idle \in CommandState
BY DEF Idle, CommandState

\* What the type of a command says of its parts.
LEMMA FieldTypes ==
  ASSUME TypeOK, NEW c \in Commands
  PROVE  /\ cmd[c] \in CommandState
         /\ cmd[c].targets \in Seq(Services) /\ cmd[c].failed \in Seq(Services)
         /\ cmd[c].todo \in SUBSET Services /\ cmd[c].left \in SUBSET Services
         /\ cmd[c].cleaned \in SUBSET Services /\ cmd[c].locks \in SUBSET Services
         /\ cmd[c].hook \in BOOLEAN /\ cmd[c].force \in BOOLEAN
         /\ cmd[c].job \in {"start", "failStart", "stop", "restart", "debug"}
<1>1. cmd[c] \in CommandState
  BY DEF TypeOK
<1>2. cmd[c].targets \in Seq(Services) /\ cmd[c].failed \in Seq(Services)
  BY <1>1 DEF CommandState
<1>3. /\ cmd[c].todo \in SUBSET Services /\ cmd[c].left \in SUBSET Services
      /\ cmd[c].cleaned \in SUBSET Services /\ cmd[c].locks \in SUBSET Services
  BY <1>1 DEF CommandState
<1>4. cmd[c].hook \in BOOLEAN /\ cmd[c].force \in BOOLEAN
  BY <1>1 DEF CommandState
<1>5. cmd[c].job \in {"start", "failStart", "stop", "restart", "debug"}
  BY <1>1 DEF CommandState
<1>6. QED
  BY <1>1, <1>2, <1>3, <1>4, <1>5

\* A command that ends keeps its type.
LEMMA EndedType ==
  ASSUME TypeOK, NEW c \in Commands,
         NEW how \in {"ok", "failed", "startFailed", "lockHeld", "runaway",
                      "exec", "crashed", "killed"}
  PROVE  Ended(c, how) \in CommandState
<1> DEFINE r1 == [Idle EXCEPT !.pc = "done"]
           r2 == [r1 EXCEPT !.result = how]
<1>1. /\ cmd[c].targets \in Seq(Services)
      /\ cmd[c].hook \in BOOLEAN /\ cmd[c].force \in BOOLEAN
  BY FieldTypes
<1>2. ASSUME NEW x \in CommandState
      PROVE  [x EXCEPT !.result = how] \in CommandState
  BY DEF CommandState
<1>3. ASSUME NEW x \in CommandState
      PROVE  [x EXCEPT !.targets = cmd[c].targets, !.hook = cmd[c].hook,
                       !.force = cmd[c].force] \in CommandState
  BY <1>1 DEF CommandState
<1>4. r1 \in CommandState
  BY IdleType DEF CommandState
<1> HIDE DEF r1
<1>5. r2 \in CommandState
  BY <1>2, <1>4
<1> HIDE DEF r2
<1>6. [r2 EXCEPT !.targets = cmd[c].targets, !.hook = cmd[c].hook,
                 !.force = cmd[c].force] \in CommandState
  BY <1>3, <1>5
<1>7. QED
  BY <1>6 DEF Ended, r1, r2

\* So does one that begins to change services.
LEMMA BeginType ==
  ASSUME NEW r \in CommandState,
         NEW job \in {"start", "failStart", "stop", "restart", "debug"},
         NEW phase \in {"Start", "Stop", "StopLogs"},
         NEW q \in Seq(Services), NEW todo \in SUBSET Services
  PROVE  Begin(r, job, phase, q, todo) \in CommandState
<1> DEFINE r0 == [r EXCEPT !.pc = "lock", !.mode = "check"]
           r1 == [r0 EXCEPT !.job = job]
           r2 == [r1 EXCEPT !.phase = phase, !.targets = q]
<1>1. Range(q) \in SUBSET Services
  BY RangeType
<1>2. ASSUME NEW x \in CommandState
      PROVE  [x EXCEPT !.phase = phase, !.targets = q] \in CommandState
  BY DEF CommandState
<1>3. ASSUME NEW x \in CommandState
      PROVE  [x EXCEPT !.todo = todo, !.left = Range(q)] \in CommandState
  BY <1>1 DEF CommandState
<1>4. ASSUME NEW x \in CommandState
      PROVE  [x EXCEPT !.job = job] \in CommandState
  BY DEF CommandState
<1>5. r0 \in CommandState
  BY DEF CommandState
<1> HIDE DEF r0
<1>6. r1 \in CommandState
  BY <1>4, <1>5
<1> HIDE DEF r1
<1>7. r2 \in CommandState
  BY <1>2, <1>6
<1> HIDE DEF r2
<1>8. [r2 EXCEPT !.todo = todo, !.left = Range(q)] \in CommandState
  BY <1>3, <1>7
<1>9. QED
  BY <1>8 DEF Begin, r0, r1, r2

\* And one that was just invoked.
LEMMA FirstPhaseType ==
  ASSUME NEW r \in CommandState,
         NEW job \in {"start", "stop", "restart", "debug"}, NEW q \in Seq(Services)
  PROVE  FirstPhase(r, job, q) \in CommandState
<1>1. [r EXCEPT !.pc = "debugState", !.job = job, !.targets = q] \in CommandState
  BY DEF CommandState
<1>2. Range(q) \in SUBSET Services
  BY RangeType
<1>3. QED
  BY <1>1, <1>2, BeginType DEF FirstPhase

(***************************************************************************)
(* The processes of the services.                                          *)
(***************************************************************************)
\* A playground as earlier commands left it has its types.
LEMMA PgInitType ==
  ASSUME NEW up \in SUBSET Services, PgInit(up)
  PROVE  PgTypeOK
BY DEF PgInit, PgTypeOK, Roles

\* The operations of pgctl on a service keep them.
LEMMA OperationType ==
  ASSUME PgTypeOK, NEW s \in Services, NEW killed \in BOOLEAN,
         \/ Spawn(s) \/ SvcUp(s) \/ SvcDownExit(s) \/ SvcKillLog(s)
         \/ KillSeen(s) \/ Foreground(s, killed)
  PROVE  PgTypeOK'
<1>1. CASE Spawn(s)
  BY <1>1 DEF Spawn, PgTypeOK, Roles
<1>2. CASE SvcUp(s)
  BY <1>2 DEF SvcUp, PgTypeOK
<1>3. CASE SvcDownExit(s)
  BY <1>3 DEF SvcDownExit, PgTypeOK
<1>4. CASE SvcKillLog(s)
  BY <1>4 DEF SvcKillLog, PgTypeOK
<1>5. CASE KillSeen(s)
  BY <1>5 DEF KillSeen, PgTypeOK, RolesSeen, HaveOpen, BornWith
<1>6. CASE Foreground(s, killed)
  BY <1>6 DEF Foreground, PgTypeOK, Roles
<1>7. QED
  BY <1>1, <1>2, <1>3, <1>4, <1>5, <1>6

\* A set of roles in which one is renamed is a set of roles.
LEMMA RenameType ==
  ASSUME NEW s, NEW gone, NEW from, NEW to \in Roles,
         procs[s] \in SUBSET Roles, dying[s] \in SUBSET Roles
  PROVE  /\ Rename(procs[s] \ {gone}, from, to) \in SUBSET Roles
         /\ StillDying(s, gone, from, to) \in SUBSET Roles
BY DEF Rename, StillDying

\* What s6 and the services do keeps the types.
LEMMA EnvironmentType ==
  ASSUME PgTypeOK, NEW s \in Services, Environment(s)
  PROVE  PgTypeOK'
<1> USE PlaygroundAssumption
<1>1. CASE Boot(s)
  BY <1>1 DEF Boot, PgTypeOK
<1>2. CASE StartRun(s)
  BY <1>2 DEF StartRun, PgTypeOK, Roles
<1>3. CASE NotifyReady(s)
  BY <1>3 DEF NotifyReady, PgTypeOK
<1>4. CASE RunGone(s)
  <2>1. "pollEnd" \in Roles
    BY DEF Roles
  <2>2. /\ Rename(procs[s] \ {"run"}, "poll", "pollEnd") \in SUBSET Roles
        /\ StillDying(s, "run", "poll", "pollEnd") \in SUBSET Roles
    BY <2>1, RenameType DEF PgTypeOK
  <2>3. QED
    BY <1>4, <2>2 DEF RunGone, PgTypeOK
<1>5. CASE SupGone(s)
  <2>1. "old" \in Roles
    BY DEF Roles
  <2>2. /\ Rename(procs[s] \ {"sup"}, "run", "old") \in SUBSET Roles
        /\ StillDying(s, "sup", "run", "old") \in SUBSET Roles
    BY <2>1, RenameType DEF PgTypeOK
  <2>3. QED
    BY <1>5, <2>2 DEF SupGone, PgTypeOK
<1>6. ASSUME NEW r \in Roles, OtherGone(s, r)
      PROVE  PgTypeOK'
  BY <1>6 DEF OtherGone, PgTypeOK
<1>7. ASSUME NEW r \in Roles, Fork(s, r)
      PROVE  PgTypeOK'
  BY <1>7 DEF Fork, PgTypeOK
<1>8. CASE SupKilled(s)
  BY <1>8 DEF SupKilled, PgTypeOK, Roles
<1>9. CASE LogBoot(s) \/ LogExit(s)
  BY <1>9 DEF LogBoot, LogExit, PgTypeOK
<1>10. QED
  BY <1>1, <1>2, <1>3, <1>4, <1>5, <1>6, <1>7, <1>8, <1>9 DEF Environment

(***************************************************************************)
(* The commands.                                                           *)
(***************************************************************************)
\* A command that a command becomes.
LEMMA InvocationType ==
  ASSUME TypeOK, NEW c \in Commands, Invocation(c)
  PROVE  TypeOK'
<1> USE PgctlAssumption
<1>1. ASSUME NEW job \in Jobs, NEW q \in Requests, NEW f \in Forces,
             Invoke(c, job, q, f)
      PROVE  TypeOK'
  <2>1. [Idle EXCEPT !.force = f] \in CommandState
    BY IdleType DEF CommandState
  <2>2. FirstPhase([Idle EXCEPT !.force = f], job, q) \in CommandState
    BY <2>1, FirstPhaseType
  <2>3. QED
    BY <1>1, <2>2, BecomeType DEF Invoke, TypeOK, PgTypeOK, pgVars
<1>2. ASSUME NEW o \in Services, NEW job \in Jobs, NEW q \in Requests,
             InvokeNested(c, o, job, q)
      PROVE  TypeOK'
  <2>1. [Idle EXCEPT !.origin = o, !.inherits = TRUE] \in CommandState
    BY IdleType DEF CommandState
  <2>2. FirstPhase([Idle EXCEPT !.origin = o, !.inherits = TRUE], job, q) \in CommandState
    BY <2>1, FirstPhaseType
  <2>3. QED
    BY <1>2, <2>2, BecomeType DEF InvokeNested, TypeOK, PgTypeOK, pgVars
<1>3. ASSUME NEW s \in Services, PollRestart(c, s)
      PROVE  TypeOK'
  <2>1. [Idle EXCEPT !.origin = s, !.inherits = TRUE] \in CommandState
    BY IdleType DEF CommandState
  <2>2. <<s>> \in Seq(Services)
    OBVIOUS
  <2>3. FirstPhase([Idle EXCEPT !.origin = s, !.inherits = TRUE], "restart", <<s>>)
          \in CommandState
    BY <2>1, <2>2, FirstPhaseType
  <2>4. /\ cmd' \in [Commands -> CommandState]
        /\ doomed' \subseteq Commands /\ shared' \subseteq Services
    BY <1>3, <2>3, BecomeType DEF PollRestart
  <2>5. PgTypeOK'
    BY <1>3 DEF PollRestart, TypeOK, PgTypeOK
  <2>6. QED
    BY <2>4, <2>5 DEF TypeOK
<1>4. QED
  BY <1>1, <1>2, <1>3 DEF Invocation

\* What a command becomes by a step that leaves the processes alone.
LEMMA QuietType ==
  ASSUME TypeOK, NEW c \in Commands, NEW r \in CommandState, Become(c, r),
         UNCHANGED pgVars
  PROVE  TypeOK'
BY BecomeType DEF TypeOK, PgTypeOK, pgVars

\* ... and by one that acts on a service.
LEMMA LoudType ==
  ASSUME TypeOK, NEW c \in Commands, NEW r \in CommandState,
         cmd' = [cmd EXCEPT ![c] = r], doomed' \subseteq Commands,
         shared' \subseteq Services, PgTypeOK'
  PROVE  TypeOK'
BY DEF TypeOK

\* ... and by one that takes a flock to start a service.
LEMMA UseFlockType ==
  ASSUME TypeOK, NEW c \in Commands, NEW s \in Services, NEW pc \in {"spawn", "exec"},
         UseFlock(c, s, pc), UNCHANGED pgVars
  PROVE  TypeOK'
<1>1. cmd[c] \in CommandState
  BY FieldTypes
<1>2. [cmd[c] EXCEPT !.pc = pc, !.flocked = s, !.inherits = FALSE] \in CommandState
  BY <1>1 DEF CommandState
<1>3. QED
  BY <1>2 DEF UseFlock, TypeOK, PgTypeOK, pgVars

\* A flock that tests free is afterwards shared exactly when somebody else had it.
LEMMA UseFlockShares ==
  ASSUME NEW c, NEW s, NEW pc, UseFlock(c, s, pc), DirFree(c, s)
  PROVE  shared' = IF NobodyElse(c, s) THEN shared \ {s} ELSE shared \cup {s}
BY DEF UseFlock, DirFree

\* So does a step of a command at one service.
LEMMA StepAtType ==
  ASSUME TypeOK, NEW c \in Commands, NEW s \in Services, StepAt(c, s)
  PROVE  TypeOK'
<1>0. cmd[c] \in CommandState
  BY FieldTypes
<1>1. CASE TakeLock(c, s)
  <2>1. [cmd[c] EXCEPT !.locks = @ \cup {s}, !.left = @ \ {s}] \in CommandState
    BY <1>0 DEF CommandState
  <2>2. QED
    BY <1>1, <2>1, QuietType DEF TakeLock
<1>2. CASE FindLockHeld(c, s)
  <2>1. [cmd[c] EXCEPT !.pc = "lockHeld"] \in CommandState
    BY <1>0 DEF CommandState
  <2>2. QED
    BY <1>2, <2>1, QuietType DEF FindLockHeld
<1>3. CASE FindSupervised(c, s)
  <2>1. [cmd[c] EXCEPT !.pc = "svcUp"] \in CommandState
    BY <1>0 DEF CommandState
  <2>2. QED
    BY <1>3, <2>1, QuietType DEF FindSupervised
<1>4. CASE TakeFlock(c, s)
  BY <1>4, UseFlockType DEF TakeFlock
<1>5. CASE FindRunaway(c, s)
  <2>1. Ended(c, "runaway") \in CommandState
    BY EndedType
  <2>2. QED
    BY <1>5, <2>1, QuietType DEF FindRunaway
<1>6. CASE AssertReady(c, s)
  <2>1. [cmd[c] EXCEPT !.pc = "assert", !.flocked = NoOne, !.left = @ \ {s},
                          !.todo = IF cmd[c].mode = "change" THEN @ \ {s} ELSE @] \in CommandState
    BY <1>0 DEF CommandState
  <2>2. [cmd[c] EXCEPT !.pc = "rejected", !.flocked = NoOne] \in CommandState
    BY <1>0 DEF CommandState
  <2>3. QED
    BY <1>6, <2>1, <2>2, QuietType DEF AssertReady, Accept, Reject
<1>7. CASE AssertUnsupervised(c, s)
  <2>1. [cmd[c] EXCEPT !.pc = "flock"] \in CommandState
    BY <1>0 DEF CommandState
  <2>2. [cmd[c] EXCEPT !.pc = "rejected", !.flocked = NoOne] \in CommandState
    BY <1>0 DEF CommandState
  <2>3. QED
    BY <1>7, <2>1, <2>2, QuietType DEF AssertUnsupervised, Reject
<1>8. CASE AssertUnlocked(c, s)
  <2>1. [cmd[c] EXCEPT !.pc = "scan", !.flocked = s, !.inherits = FALSE] \in CommandState
    BY <1>0 DEF CommandState
  <2>2. [cmd[c] EXCEPT !.pc = "rejected", !.inherits = FALSE] \in CommandState
    BY <1>0 DEF CommandState
  <2>3. QED
    BY <1>8, <2>1, <2>2, QuietType DEF AssertUnlocked
<1>9. CASE AssertNoProcess(c, s)
  <2>1. [cmd[c] EXCEPT !.pc = "assert", !.flocked = NoOne, !.left = @ \ {s},
                          !.todo = IF cmd[c].mode = "change" THEN @ \ {s} ELSE @] \in CommandState
    BY <1>0 DEF CommandState
  <2>2. [cmd[c] EXCEPT !.pc = "rejected", !.flocked = NoOne] \in CommandState
    BY <1>0 DEF CommandState
  <2>3. QED
    BY <1>9, <2>1, <2>2, QuietType DEF AssertNoProcess, Accept, Reject
<1>10. CASE Recheck(c, s)
  <2>1. [cmd[c] EXCEPT !.pc = "assert", !.left = @ \ {s}] \in CommandState
    BY <1>0 DEF CommandState
  <2>2. QED
    BY <1>10, <2>1, QuietType DEF Recheck
<1>11. CASE GiveUp(c, s)
  <2>1. [cmd[c] EXCEPT !.pc = "assert", !.left = @ \ {s}, !.todo = @ \ {s},
                          !.failed = Append(@, s)] \in CommandState
    <3> DEFINE x == [cmd[c] EXCEPT !.pc = "assert", !.left = @ \ {s}]
    <3>1. Append(cmd[c].failed, s) \in Seq(Services)
      BY FieldTypes
    <3>2. ASSUME NEW y \in CommandState
          PROVE  [y EXCEPT !.todo = cmd[c].todo \ {s},
                           !.failed = Append(cmd[c].failed, s)] \in CommandState
      BY <3>1, FieldTypes DEF CommandState
    <3>3. x \in CommandState
      BY <1>0 DEF CommandState
    <3> HIDE DEF x
    <3>4. [x EXCEPT !.todo = cmd[c].todo \ {s},
                    !.failed = Append(cmd[c].failed, s)] \in CommandState
      BY <3>2, <3>3
    <3>5. QED
      BY <3>4 DEF x
  <2>2. QED
    BY <1>11, <2>1, QuietType DEF GiveUp
<1>12. CASE HookScan(c, s)
  <2>1. [cmd[c] EXCEPT !.left = @ \ {s}] \in CommandState
    BY <1>0 DEF CommandState
  <2>2. [cmd[c] EXCEPT !.pc = "after", !.left = {}, !.locks = {}] \in CommandState
    BY <1>0 DEF CommandState
  <2>3. QED
    BY <1>12, <2>1, <2>2, QuietType DEF HookScan
<1>13. CASE DebugFlock(c, s)
  BY <1>13, UseFlockType, EndedType, QuietType DEF DebugFlock
<1>14. CASE CleanUp(c, s)
  <2>1. [cmd[c] EXCEPT !.cleaned = @ \cup {s}] \in CommandState
    BY <1>0 DEF CommandState
  <2>2. PgTypeOK'
    BY <1>14, OperationType DEF CleanUp, TypeOK, ForceCleanup
  <2>3. /\ cmd' = [cmd EXCEPT ![c] = [cmd[c] EXCEPT !.cleaned = @ \cup {s}]]
        /\ doomed' \subseteq Commands /\ shared' \subseteq Services
    BY <1>14 DEF CleanUp, TypeOK, ForceCleanup, CommandsSeen
  <2>4. QED
    BY <2>1, <2>2, <2>3, LoudType
<1>15. CASE BringUp(c, s)
  <2>1. [cmd[c] EXCEPT !.pc = "change", !.left = @ \ {s}] \in CommandState
    BY <1>0 DEF CommandState
  <2>2. PgTypeOK'
    BY <1>15, OperationType DEF BringUp, TypeOK
  <2>3. /\ cmd' = [cmd EXCEPT ![c] = [cmd[c] EXCEPT !.pc = "change", !.left = @ \ {s}]]
        /\ doomed' \subseteq Commands /\ shared' \subseteq Services
    BY <1>15 DEF BringUp, TypeOK, Visited, Become
  <2>4. QED
    BY <2>1, <2>2, <2>3, LoudType
<1>16. CASE BringDown(c, s)
  <2>1. [cmd[c] EXCEPT !.pc = "change", !.left = @ \ {s}] \in CommandState
    BY <1>0 DEF CommandState
  <2>2. PgTypeOK'
    BY <1>16, OperationType DEF BringDown, TypeOK
  <2>3. /\ cmd' = [cmd EXCEPT ![c] = [cmd[c] EXCEPT !.pc = "change", !.left = @ \ {s}]]
        /\ doomed' \subseteq Commands /\ shared' \subseteq Services
    BY <1>16 DEF BringDown, TypeOK, Visited, Become
  <2>4. QED
    BY <2>1, <2>2, <2>3, LoudType
<1>17. CASE KillLogger(c, s)
  <2>1. [cmd[c] EXCEPT !.pc = "change", !.left = @ \ {s}] \in CommandState
    BY <1>0 DEF CommandState
  <2>2. PgTypeOK'
    BY <1>17, OperationType DEF KillLogger, TypeOK
  <2>3. /\ cmd' = [cmd EXCEPT ![c] = [cmd[c] EXCEPT !.pc = "change", !.left = @ \ {s}]]
        /\ doomed' \subseteq Commands /\ shared' \subseteq Services
    BY <1>17 DEF KillLogger, TypeOK, Visited, Become
  <2>4. QED
    BY <2>1, <2>2, <2>3, LoudType
<1>18. CASE ForceStop(c, s)
  <2>1. [cmd[c] EXCEPT !.pc = "assert", !.left = @ \ {s}] \in CommandState
    BY <1>0 DEF CommandState
  <2>2. PgTypeOK'
    BY <1>18, OperationType DEF ForceStop, TypeOK, ForceCleanup
  <2>3. /\ cmd' = [cmd EXCEPT ![c] = [cmd[c] EXCEPT !.pc = "assert", !.left = @ \ {s}]]
        /\ doomed' \subseteq Commands /\ shared' \subseteq Services
    BY <1>18 DEF ForceStop, TypeOK, ForceCleanup, CommandsSeen
  <2>4. QED
    BY <2>1, <2>2, <2>3, LoudType
<1>19. QED
  BY <1>1, <1>2, <1>3, <1>4, <1>5, <1>6, <1>7, <1>8, <1>9, <1>10, <1>11, <1>12, <1>13, <1>14, <1>15, <1>16, <1>17, <1>18 DEF StepAt

\* And any other step of a command.
LEMMA StepType ==
  ASSUME TypeOK, NEW c \in Commands, Step(c)
  PROVE  TypeOK'
<1>0. cmd[c] \in CommandState /\ Range(cmd[c].targets) \in SUBSET Services
  BY FieldTypes, RangeType
<1>1. CASE RaiseLockHeld(c)
  <2>1. Ended(c, "lockHeld") \in CommandState
    BY EndedType
  <2>2. QED
    BY <1>1, <2>1, QuietType DEF RaiseLockHeld
<1>2. CASE Locked(c)
  <2>1. [cmd[c] EXCEPT !.left = cmd[c].todo,
                          !.pc = IF cmd[c].mode = "check" THEN "assert" ELSE "change"] \in CommandState
    BY <1>0 DEF CommandState
  <2>2. QED
    BY <1>2, <2>1, QuietType DEF Locked
<1>3. CASE Changed(c)
  <2>1. [cmd[c] EXCEPT !.pc = "assert", !.left = cmd[c].todo] \in CommandState
    BY <1>0 DEF CommandState
  <2>2. QED
    BY <1>3, <2>1, QuietType DEF Changed
<1>4. CASE BreakOut(c)
  <2>1. [cmd[c] EXCEPT !.pc = IF cmd[c].phase = "Start" THEN "preStart" ELSE "lock",
                       !.mode = "change", !.locks = {},
                       !.left = Range(cmd[c].targets)] \in CommandState
    <3> DEFINE x == [cmd[c] EXCEPT
                       !.pc = IF cmd[c].phase = "Start" THEN "preStart" ELSE "lock"]
    <3>1. ASSUME NEW y \in CommandState
          PROVE  [y EXCEPT !.mode = "change", !.locks = {},
                           !.left = Range(cmd[c].targets)] \in CommandState
      BY <1>0 DEF CommandState
    <3>2. x \in CommandState
      BY <1>0 DEF CommandState
    <3> HIDE DEF x
    <3>3. [x EXCEPT !.mode = "change", !.locks = {},
                    !.left = Range(cmd[c].targets)] \in CommandState
      BY <3>1, <3>2
    <3>4. QED
      BY <3>3 DEF x
  <2>2. QED
    BY <1>4, <2>1, QuietType DEF BreakOut
<1>5. CASE AssertedAll(c)
  <2>1. [cmd[c] EXCEPT !.pc = "change", !.left = cmd[c].todo] \in CommandState
    BY <1>0 DEF CommandState
  <2>2. [cmd[c] EXCEPT !.pc = "hookScan", !.left = Services] \in CommandState
    BY <1>0 DEF CommandState
  <2>3. [cmd[c] EXCEPT !.pc = "after", !.locks = {}] \in CommandState
    BY <1>0 DEF CommandState
  <2>4. QED
    BY <1>5, <2>1, <2>2, <2>3, QuietType DEF AssertedAll
<1>6. CASE PreStart(c)
  <2>1. [cmd[c] EXCEPT !.left = Range(cmd[c].targets),
                          !.pc = IF cmd[c].job = "debug" THEN "foreground" ELSE "lock"] \in CommandState
    BY <1>0 DEF CommandState
  <2>2. QED
    BY <1>6, <2>1, QuietType DEF PreStart
<1>7. CASE AllDown(c)
  <2>1. [cmd[c] EXCEPT !.pc = "postStop", !.hook = TRUE, !.locks = {}] \in CommandState
    BY <1>0 DEF CommandState
  <2>2. QED
    BY <1>7, <2>1, QuietType DEF AllDown
<1>8. CASE PostStop(c)
  <2>1. [cmd[c] EXCEPT !.pc = "after"] \in CommandState
    BY <1>0 DEF CommandState
  <2>2. QED
    BY <1>8, <2>1, QuietType DEF PostStop
<1>9. CASE AfterStop(c)
  <2>1. Begin(cmd[c], cmd[c].job, "StopLogs", cmd[c].targets,
              Range(cmd[c].targets) \ Range(cmd[c].failed)) \in CommandState
    BY <1>0, BeginType, FieldTypes
  <2>2. Begin(cmd[c], "start", "Start", cmd[c].targets, Range(cmd[c].targets)) \in CommandState
    BY <1>0, BeginType, FieldTypes
  <2>3. Ended(c, "failed") \in CommandState
    BY EndedType
  <2>4. QED
    BY <1>9, <2>1, <2>2, <2>3, QuietType DEF AfterStop
<1>10. CASE AfterStart(c)
  <2>1. [cmd[c] EXCEPT !.failed = <<>>] \in CommandState
    <3>1. <<>> \in Seq(Services)
      OBVIOUS
    <3>2. QED
      BY <1>0, <3>1 DEF CommandState
  <2>2. Begin([cmd[c] EXCEPT !.failed = <<>>], "failStart", "Stop",
              cmd[c].failed, Range(cmd[c].failed)) \in CommandState
    BY <2>1, BeginType, FieldTypes, RangeType
  <2>3. Ended(c, "ok") \in CommandState
    BY EndedType
  <2>4. QED
    BY <1>10, <2>2, <2>3, QuietType DEF AfterStart
<1>11. CASE AfterStopLogs(c)
  <2>1. Ended(c, "startFailed") \in CommandState
    BY EndedType
  <2>2. Ended(c, "failed") \in CommandState
    BY EndedType
  <2>3. Ended(c, "ok") \in CommandState
    BY EndedType
  <2>4. [cmd[c] EXCEPT !.pc = "preStart"] \in CommandState
    BY <1>0 DEF CommandState
  <2>5. QED
    BY <1>11, <2>1, <2>2, <2>3, <2>4, QuietType DEF AfterStopLogs
<1>12. CASE DebugState(c)
  <2>1. [cmd[c] EXCEPT !.pc = "preStart"] \in CommandState
    BY <1>0 DEF CommandState
  <2>2. Begin(cmd[c], "debug", "Stop", cmd[c].targets, Range(cmd[c].targets)) \in CommandState
    BY <1>0, BeginType, FieldTypes
  <2>3. QED
    BY <1>12, <2>1, <2>2, QuietType DEF DebugState
<1>13. CASE Supervise(c)
  <2>1. [cmd[c] EXCEPT !.pc = "svcUp", !.flocked = NoOne] \in CommandState
    BY <1>0 DEF CommandState
  <2>2. PgTypeOK'
    BY <1>13 DEF Supervise, Spawn, TypeOK, PgTypeOK, Roles
  <2>3. QED
    BY <1>13, <2>1, <2>2, LoudType DEF Supervise, Become, TypeOK
<1>14. CASE DebugExec(c)
  <2>1. Ended(c, "exec") \in CommandState
    BY EndedType
  <2>2. PgTypeOK'
    BY <1>14 DEF DebugExec, Foreground, TypeOK, PgTypeOK, Roles
  <2>3. QED
    BY <1>14, <2>1, <2>2, LoudType DEF DebugExec, Become, TypeOK
<1>15. CASE \E s \in Services : StepAt(c, s)
  BY <1>15, StepAtType
<1>16. QED
  BY <1>1, <1>2, <1>3, <1>4, <1>5, <1>6, <1>7, <1>8, <1>9, <1>10, <1>11, <1>12, <1>13, <1>14, <1>15 DEF Step

\* Every state of every behaviour is one of the declared states.
THEOREM Typing == Spec => []TypeOK
<1>1. Init => TypeOK
  <2>1. ASSUME Init PROVE TypeOK
    BY <2>1, IdleType, PgInitType, PgctlAssumption DEF Init, TypeOK
  <2>2. QED
    BY <2>1
<1>2. ASSUME TypeOK, [Next]_vars
      PROVE  TypeOK'
  <2>1. ASSUME NEW c \in Commands, Failing(c) \/ Crash(c)
        PROVE  TypeOK'
    BY <1>2, <2>1, EndedType, QuietType DEF Failing, HookFails, MessageFails, Crash
  <2>2. ASSUME NEW c \in Commands, Killed(c)
        PROVE  TypeOK'
    <3>1. Ended(c, "killed") \in CommandState /\ cmd[c] \in CommandState
      BY <1>2, EndedType, FieldTypes
    <3>2. QED
      BY <1>2, <2>2, <3>1 DEF Killed, TypeOK, PgTypeOK, pgVars
  <2>3. ASSUME NEW s \in Services, Environment(s), UNCHANGED <<cmd, doomed, shared>>
        PROVE  TypeOK'
    BY <1>2, <2>3, EnvironmentType DEF TypeOK
  <2>4. CASE UNCHANGED vars
    BY <1>2, <2>4 DEF vars, pgVars, TypeOK, PgTypeOK
  <2>5. QED
    BY <1>2, <2>1, <2>2, <2>3, <2>4, InvocationType, StepType DEF Next
<1>3. QED
  BY <1>1, <1>2, PTL DEF Spec

(***************************************************************************)
(* The inductive invariant.  CommandOK is what it says of one command, and *)
(* Frame what a step of command c does to the others and to the locks.     *)
(***************************************************************************)
CommandOK(r) == OwnsLocks(r) /\ UsesUpParentLock(r) /\ VisitsTargets(r)

Frame(c) ==
  /\ \A d \in Commands \ {c} : cmd'[d] = cmd[d]
  /\ \A t \in cmd'[c].locks :
       t \in cmd[c].locks \/ \A d \in Commands : t \notin cmd[d].locks
  /\ \A t \in Services : Holds(c, t)' => Holds(c, t) \/ DirFree(c, t)
  /\ cmd'[c].pc \in {"spawn", "exec"} =>
       LET s == cmd'[c].flocked
       IN  /\ s \in Services /\ procs' = procs
           /\ shared' = IF NobodyElse(c, s) THEN shared \ {s} ELSE shared \cup {s}

\* A sequence to which something was appended is not empty.
LEMMA AppendNotEmpty ==
  ASSUME NEW S, NEW q \in Seq(S), NEW e \in S
  PROVE  Append(q, e) # <<>>
<1>1. Len(Append(q, e)) = Len(q) + 1 /\ Len(q) \in Nat /\ Len(<<>>) = 0
  OBVIOUS
<1>2. QED
  BY <1>1

\* What a command that has ended holds: nothing.
LEMMA EndedFields ==
  ASSUME NEW c, NEW how
  PROVE  /\ Ended(c, how).pc = "done" /\ Ended(c, how).phase = "Start"
         /\ Ended(c, how).locks = {} /\ Ended(c, how).flocked = NoOne
         /\ Ended(c, how).inherits = FALSE
         /\ Ended(c, how).left = {} /\ Ended(c, how).todo = {}
BY DEF Ended, Idle

\* What a command that begins to change services is about to do.
LEMMA BeginFields ==
  ASSUME NEW r \in CommandState, NEW job, NEW phase, NEW q, NEW todo
  PROVE  LET b == Begin(r, job, phase, q, todo)
         IN  /\ b.pc = "lock" /\ b.mode = "check" /\ b.job = job
             /\ b.phase = phase /\ b.targets = q /\ b.todo = todo
             /\ b.left = Range(q) /\ b.failed = r.failed
             /\ b.origin = r.origin /\ b.inherits = r.inherits
             /\ b.flocked = r.flocked /\ b.locks = r.locks
BY DEF Begin, CommandState

\* A command that ends keeps the invariant and disturbs no other.
LEMMA EndedStep ==
  ASSUME TypeOK, NEW c \in Commands, NEW how,
         cmd' = [cmd EXCEPT ![c] = Ended(c, how)]
  PROVE  CommandOK(cmd'[c]) /\ Frame(c)
<1> DEFINE e == Ended(c, how)
<1>1. cmd'[c] = e /\ \A d \in Commands \ {c} : cmd'[d] = cmd[d]
  BY DEF TypeOK
<1>2. /\ e.pc = "done" /\ e.phase = "Start" /\ e.locks = {}
      /\ e.flocked = NoOne /\ e.inherits = FALSE
      /\ e.left = {} /\ e.todo = {}
  BY EndedFields
<1> HIDE DEF e
<1>3. CommandOK(cmd'[c])
  BY <1>1, <1>2 DEF CommandOK, OwnsLocks, UsesUpParentLock, VisitsTargets, Critical
<1>4. \A t \in Services : ~Holds(c, t)'
  BY <1>1, <1>2, PgctlAssumption DEF Holds
<1>5. QED
  BY <1>1, <1>2, <1>3, <1>4 DEF Frame

\* So does one that begins a phase, if the flock of a parent is one that it
\* cannot come to start its own service with.
LEMMA BeginStep ==
  ASSUME TypeOK, NEW c \in Commands, NEW r \in CommandState,
         NEW job, NEW phase, NEW q \in Seq(Services), NEW todo \in SUBSET Services,
         cmd' = [cmd EXCEPT ![c] = Begin(r, job, phase, q, todo)],
         r.origin = cmd[c].origin, r.inherits = cmd[c].inherits,
         r.flocked = cmd[c].flocked, r.locks = cmd[c].locks,
         phase = "Start" => todo \subseteq Range(q),
         r.inherits =>
           /\ job = "debug" => "nested" \in Faults
           /\ phase = "Start" => "nested" \in Faults \/ r.origin \notin Range(q)
           /\ phase = "Stop" => r.failed # <<>> \/ todo = Range(q)
  PROVE  CommandOK(cmd'[c]) /\ Frame(c)
<1> DEFINE b == Begin(r, job, phase, q, todo)
<1>1. cmd'[c] = b /\ \A d \in Commands \ {c} : cmd'[d] = cmd[d]
  BY DEF TypeOK
<1>2. /\ b.pc = "lock" /\ b.mode = "check" /\ b.job = job
      /\ b.phase = phase /\ b.targets = q /\ b.todo = todo
      /\ b.left = Range(q) /\ b.failed = r.failed
      /\ b.origin = r.origin /\ b.inherits = r.inherits
      /\ b.flocked = r.flocked /\ b.locks = r.locks
  BY BeginFields
<1> HIDE DEF b
<1>3. CommandOK(cmd'[c])
  BY <1>1, <1>2 DEF CommandOK, OwnsLocks, UsesUpParentLock, VisitsTargets, Critical
<1>4. QED
  BY <1>1, <1>2, <1>3 DEF Frame, Holds

\* What a command does between two phases.
LEMMA TurnStep ==
  ASSUME TypeOK, NEW c \in Commands, CommandOK(cmd[c]),
         \/ AfterStop(c) \/ AfterStart(c) \/ AfterStopLogs(c) \/ DebugState(c)
         \/ Killed(c)
  PROVE  CommandOK(cmd'[c]) /\ Frame(c)
<1>0. /\ cmd \in [Commands -> CommandState] /\ cmd[c] \in CommandState
      /\ cmd[c].targets \in Seq(Services) /\ cmd[c].failed \in Seq(Services)
      /\ Range(cmd[c].targets) \in SUBSET Services
      /\ Range(cmd[c].failed) \in SUBSET Services
  BY FieldTypes, RangeType DEF TypeOK
<1>1. CASE AfterStop(c)
  <2>1. cmd[c].inherits /\ cmd[c].job = "restart" =>
          cmd[c].failed # <<>> \/ cmd[c].todo = {}
    BY <1>1 DEF AfterStop, Ending, CommandOK, UsesUpParentLock
  <2>2. CASE cmd[c].job # "restart"
    <3>1. cmd' = [cmd EXCEPT ![c] = Begin(cmd[c], cmd[c].job, "StopLogs", cmd[c].targets,
                                          Range(cmd[c].targets) \ Range(cmd[c].failed))]
      BY <1>1, <2>2 DEF AfterStop, Become
    <3>2. cmd[c].inherits /\ cmd[c].job = "debug" => "nested" \in Faults
      BY DEF CommandOK, UsesUpParentLock
    <3> DEFINE todo == Range(cmd[c].targets) \ Range(cmd[c].failed)
    <3>3. todo \in SUBSET Services
      BY <1>0
    <3>4. cmd' = [cmd EXCEPT ![c] = Begin(cmd[c], cmd[c].job, "StopLogs",
                                          cmd[c].targets, todo)]
      BY <3>1
    <3> HIDE DEF todo
    <3>5. "StopLogs" # "Start" /\ "StopLogs" # "Stop"
      OBVIOUS
    <3>6. QED
      BY <1>0, <3>2, <3>3, <3>4, <3>5, BeginStep
  <2>3. CASE cmd[c].job = "restart" /\ cmd[c].failed = <<>>
    <3>1. cmd' = [cmd EXCEPT ![c] = Begin(cmd[c], "start", "Start", cmd[c].targets,
                                          Range(cmd[c].targets))]
      BY <1>1, <2>3 DEF AfterStop, Become
    <3>2. cmd[c].inherits => Range(cmd[c].targets) = {}
      BY <1>1, <2>3 DEF AfterStop, Ending, CommandOK, UsesUpParentLock
    <3>3. QED
      BY <1>0, <3>1, <3>2, BeginStep
  <2>4. CASE cmd[c].job = "restart" /\ cmd[c].failed # <<>>
    BY <1>1, <2>4, EndedStep DEF AfterStop, Become
  <2>5. QED
    BY <2>2, <2>3, <2>4
<1>2. CASE AfterStart(c)
  <2>1. CASE cmd[c].failed = <<>>
    BY <1>2, <2>1, EndedStep DEF AfterStart, Become
  <2>2. CASE cmd[c].failed # <<>>
    <3> DEFINE r == [cmd[c] EXCEPT !.failed = <<>>]
    <3>1. cmd' = [cmd EXCEPT ![c] = Begin(r, "failStart", "Stop", cmd[c].failed,
                                          Range(cmd[c].failed))]
      BY <1>2, <2>2 DEF AfterStart, Become
    <3>2. <<>> \in Seq(Services)
      OBVIOUS
    <3>3. /\ r \in CommandState /\ r.origin = cmd[c].origin
          /\ r.inherits = cmd[c].inherits /\ r.flocked = cmd[c].flocked
          /\ r.locks = cmd[c].locks
      BY <1>0, <3>2 DEF CommandState
    <3> HIDE DEF r
    <3>4. QED
      BY <1>0, <3>1, <3>3, BeginStep
  <2>3. QED
    BY <2>1, <2>2
<1>3. CASE AfterStopLogs(c)
  <2>1. CASE cmd' = [cmd EXCEPT ![c] = [cmd[c] EXCEPT !.pc = "preStart"]]
    <3>1. CommandOK(cmd'[c])
      BY <1>0, <1>3, <2>1 DEF AfterStopLogs, Ending, CommandState, CommandOK, OwnsLocks,
           UsesUpParentLock, VisitsTargets, Critical
    <3>2. Frame(c)
      BY <1>0, <2>1 DEF CommandState, Frame, Holds
    <3>3. QED
      BY <3>1, <3>2
  <2>2. ASSUME NEW how, cmd' = [cmd EXCEPT ![c] = Ended(c, how)]
        PROVE  CommandOK(cmd'[c]) /\ Frame(c)
    BY <2>2, EndedStep
  <2>3. \/ cmd' = [cmd EXCEPT ![c] = Ended(c, "startFailed")]
        \/ cmd' = [cmd EXCEPT ![c] = Ended(c, "failed")]
        \/ cmd' = [cmd EXCEPT ![c] = Ended(c, "ok")]
        \/ cmd' = [cmd EXCEPT ![c] = [cmd[c] EXCEPT !.pc = "preStart"]]
    BY <1>3 DEF AfterStopLogs, Become
  <2>4. QED
    BY <2>1, <2>2, <2>3
<1>4. CASE DebugState(c)
  <2>1. CASE \A s \in Range(cmd[c].targets) : Down(s)
    <3>1. cmd' = [cmd EXCEPT ![c] = [cmd[c] EXCEPT !.pc = "preStart"]]
      BY <1>4, <2>1 DEF DebugState, Become
    <3>2. CommandOK(cmd'[c])
      BY <1>0, <1>4, <3>1 DEF DebugState, CommandState, CommandOK, OwnsLocks,
           UsesUpParentLock, VisitsTargets, Critical
    <3>3. Frame(c)
      BY <1>0, <3>1 DEF CommandState, Frame, Holds
    <3>4. QED
      BY <3>2, <3>3
  <2>2. CASE ~\A s \in Range(cmd[c].targets) : Down(s)
    <3>1. cmd' = [cmd EXCEPT ![c] = Begin(cmd[c], "debug", "Stop", cmd[c].targets,
                                          Range(cmd[c].targets))]
      BY <1>4, <2>2 DEF DebugState, Become
    <3>2. cmd[c].inherits => "nested" \in Faults
      BY <1>4 DEF DebugState, CommandOK, UsesUpParentLock
    <3>3. QED
      BY <1>0, <3>1, <3>2, BeginStep
  <2>3. QED
    BY <2>1, <2>2
<1>5. CASE Killed(c)
  <2>1. CASE Active(c)
    BY <1>5, <2>1, EndedStep DEF Killed
  <2>2. CASE ~Active(c)
    <3>1. cmd' = cmd
      BY <1>0, <1>5, <2>2 DEF Killed
    <3>2. CommandOK(cmd'[c])
      BY <3>1
    <3>3. Frame(c)
      BY <2>2, <3>1 DEF Frame, Holds, Active
    <3>4. QED
      BY <3>2, <3>3
  <2>3. QED
    BY <2>1, <2>2
<1>6. QED
  BY <1>1, <1>2, <1>3, <1>4, <1>5

\* CommandOK is kept by the steps at one service.
LEMMA StepAtOK ==
  ASSUME TypeOK, NEW c \in Commands, NEW s \in Services, CommandOK(cmd[c]),
         StepAt(c, s)
  PROVE  CommandOK(cmd'[c])
<1>0. cmd[c] \in CommandState /\ cmd \in [Commands -> CommandState]
  BY FieldTypes DEF TypeOK
<1> USE <1>0, PgctlAssumption DEF CommandOK, OwnsLocks, UsesUpParentLock, VisitsTargets, Critical, CommandState
<1>1. CASE TakeLock(c, s)
  BY <1>1 DEF TakeLock, IsNext, Become
<1>2. CASE FindLockHeld(c, s)
  BY <1>2 DEF FindLockHeld, IsNext, Become
<1>3. CASE CleanUp(c, s)
  BY <1>3 DEF CleanUp, Changing, IsNext, ForceCleanup
<1>4. CASE FindSupervised(c, s)
  BY <1>4 DEF FindSupervised, Changing, IsNext, Become
<1>5. CASE TakeFlock(c, s)
  BY <1>5 DEF TakeFlock, Changing, IsNext, UseFlock
<1>6. CASE FindRunaway(c, s)
  BY <1>6, EndedStep DEF FindRunaway, Changing, IsNext, Become
<1>7. CASE BringUp(c, s)
  BY <1>7 DEF BringUp, Visited, IsNext, Become
<1>8. CASE BringDown(c, s)
  BY <1>8 DEF BringDown, Changing, Visited, IsNext, Become
<1>9. CASE KillLogger(c, s)
  BY <1>9 DEF KillLogger, Changing, Visited, IsNext, Become
<1>10. CASE AssertReady(c, s)
  <2>1. CASE cmd' = [cmd EXCEPT ![c] = [cmd[c] EXCEPT !.pc = "assert", !.flocked = NoOne, !.left = @ \ {s},
                        !.todo = IF cmd[c].mode = "change" THEN @ \ {s} ELSE @]]
    BY <1>10, <2>1 DEF AssertReady, Asserting, IsNext
  <2>2. CASE cmd' = [cmd EXCEPT ![c] = [cmd[c] EXCEPT !.pc = "rejected", !.flocked = NoOne]]
    BY <1>10, <2>2 DEF AssertReady, Asserting, IsNext
  <2>3. QED
    BY <1>10, <2>1, <2>2 DEF AssertReady, Accept, Reject, Become
<1>11. CASE AssertUnsupervised(c, s)
  <2>1. CASE cmd' = [cmd EXCEPT ![c] = [cmd[c] EXCEPT !.pc = "flock"]]
    BY <1>11, <2>1 DEF AssertUnsupervised, Asserting, IsNext
  <2>2. CASE cmd' = [cmd EXCEPT ![c] = [cmd[c] EXCEPT !.pc = "rejected", !.flocked = NoOne]]
    BY <1>11, <2>2 DEF AssertUnsupervised, Asserting, IsNext
  <2>3. QED
    BY <1>11, <2>1, <2>2 DEF AssertUnsupervised, Reject, Become
<1>12. CASE AssertUnlocked(c, s)
  <2>1. CASE cmd' = [cmd EXCEPT ![c] = [cmd[c] EXCEPT !.pc = "scan", !.flocked = s, !.inherits = FALSE]]
    BY <1>12, <2>1 DEF AssertUnlocked, Asserting, IsNext
  <2>2. CASE cmd' = [cmd EXCEPT ![c] = [cmd[c] EXCEPT !.pc = "rejected", !.inherits = FALSE]]
    BY <1>12, <2>2 DEF AssertUnlocked, Asserting, IsNext
  <2>3. QED
    BY <1>12, <2>1, <2>2 DEF AssertUnlocked, Become
<1>13. CASE AssertNoProcess(c, s)
  <2>1. CASE cmd' = [cmd EXCEPT ![c] = [cmd[c] EXCEPT !.pc = "assert", !.flocked = NoOne, !.left = @ \ {s},
                        !.todo = IF cmd[c].mode = "change" THEN @ \ {s} ELSE @]]
    BY <1>13, <2>1 DEF AssertNoProcess, Asserting, IsNext
  <2>2. CASE cmd' = [cmd EXCEPT ![c] = [cmd[c] EXCEPT !.pc = "rejected", !.flocked = NoOne]]
    BY <1>13, <2>2 DEF AssertNoProcess, Asserting, IsNext
  <2>3. QED
    BY <1>13, <2>1, <2>2 DEF AssertNoProcess, Accept, Reject, Become
<1>14. CASE Recheck(c, s)
  BY <1>14 DEF Recheck, Rejected, IsNext, Become
<1>15. CASE ForceStop(c, s)
  BY <1>15 DEF ForceStop, Rejected, IsNext, ForceCleanup
<1>16. CASE GiveUp(c, s)
  <2>1. Append(cmd[c].failed, s) # <<>>
    BY FieldTypes, AppendNotEmpty
  <2>2. QED
    BY <1>16, <2>1 DEF GiveUp, Rejected, IsNext, Become
<1>17. CASE HookScan(c, s)
  <2>1. CASE cmd' = [cmd EXCEPT ![c] = [cmd[c] EXCEPT !.left = @ \ {s}]]
    BY <1>17, <2>1 DEF HookScan
  <2>2. CASE cmd' = [cmd EXCEPT ![c] = [cmd[c] EXCEPT !.pc = "after", !.left = {}, !.locks = {}]]
    BY <1>17, <2>2 DEF HookScan
  <2>3. QED
    BY <1>17, <2>1, <2>2 DEF HookScan, Become
<1>18. CASE DebugFlock(c, s)
  <2>1. CASE cmd' = [cmd EXCEPT ![c] = [cmd[c] EXCEPT !.pc = "exec", !.flocked = s, !.inherits = FALSE]]
    BY <1>18, <2>1 DEF DebugFlock
  <2>2. CASE cmd' = [cmd EXCEPT ![c] = Ended(c, "runaway")]
    BY <1>18, <2>2, EndedStep DEF DebugFlock
  <2>3. QED
    BY <1>18, <2>1, <2>2 DEF DebugFlock, Become, UseFlock
<1>19. QED
  BY <1>1, <1>2, <1>3, <1>4, <1>5, <1>6, <1>7, <1>8, <1>9, <1>10, <1>11, <1>12, <1>13, <1>14, <1>15, <1>16, <1>17, <1>18 DEF StepAt

\* And by all steps of the command.
LEMMA StepOK ==
  ASSUME TypeOK, NEW c \in Commands, CommandOK(cmd[c]),
         Step(c) \/ Failing(c) \/ Crash(c) \/ Killed(c)
  PROVE  CommandOK(cmd'[c])
<1>0. cmd[c] \in CommandState /\ cmd \in [Commands -> CommandState]
  BY FieldTypes DEF TypeOK
<1> USE <1>0, PgctlAssumption DEF CommandOK, OwnsLocks, UsesUpParentLock, VisitsTargets, Critical, CommandState
<1>1. CASE RaiseLockHeld(c)
  BY <1>1, EndedStep DEF RaiseLockHeld, Become
<1>2. CASE Locked(c)
  BY <1>2 DEF Locked, Become
<1>3. CASE Supervise(c)
  BY <1>3 DEF Supervise, Become
<1>4. CASE Changed(c)
  BY <1>4 DEF Changed, Become
<1>5. CASE BreakOut(c)
  BY <1>5 DEF BreakOut, Become
<1>6. CASE AssertedAll(c)
  <2>1. CASE cmd[c].mode = "change" /\ cmd[c].todo # {}
    BY <1>6, <2>1 DEF AssertedAll, Become
  <2>2. CASE cmd[c].mode = "change" /\ cmd[c].todo = {} /\ cmd[c].phase = "Stop"
    <3>1. cmd' = [cmd EXCEPT ![c] = [cmd[c] EXCEPT !.pc = "hookScan", !.left = Services]]
      BY <1>6, <2>2 DEF AssertedAll, Become
    <3>2. /\ cmd'[c].pc = "hookScan" /\ cmd'[c].mode = "change"
          /\ cmd'[c].phase = "Stop" /\ cmd'[c].todo = {}
      BY <2>2, <3>1
    <3>3. /\ cmd'[c].targets = cmd[c].targets /\ cmd'[c].locks = cmd[c].locks
          /\ cmd'[c].job = cmd[c].job /\ cmd'[c].inherits = cmd[c].inherits
          /\ cmd'[c].failed = cmd[c].failed
      BY <3>1
    <3> HIDE DEF CommandState
    <3>4. QED
      BY <1>6, <2>2, <3>2, <3>3 DEF AssertedAll
  <2>3. CASE cmd[c].mode = "change" /\ cmd[c].todo = {} /\ cmd[c].phase # "Stop"
    BY <1>6, <2>3 DEF AssertedAll, Become
  <2>4. CASE cmd[c].mode # "change"
    BY <1>6, <2>4 DEF AssertedAll, Become
  <2>5. QED
    BY <2>1, <2>2, <2>3, <2>4
<1>7. CASE PreStart(c)
  BY <1>7 DEF PreStart, Become
<1>8. CASE AllDown(c)
  BY <1>8 DEF AllDown, Become
<1>9. CASE PostStop(c)
  BY <1>9 DEF PostStop, Become
<1>10. CASE DebugExec(c)
  BY <1>10, EndedStep DEF DebugExec, Become
<1>11. CASE Failing(c)
  BY <1>11, EndedStep DEF Failing, HookFails, MessageFails, Become
<1>12. CASE Crash(c)
  BY <1>12, EndedStep DEF Crash, Become
<1>13. CASE \E s \in Services : StepAt(c, s)
  BY <1>13, StepAtOK
<1>14. CASE \/ AfterStop(c) \/ AfterStart(c) \/ AfterStopLogs(c) \/ DebugState(c)
           \/ Killed(c)
  BY <1>14, TurnStep
<1>15. QED
  BY <1>1, <1>2, <1>3, <1>4, <1>5, <1>6, <1>7, <1>8, <1>9, <1>10, <1>11, <1>12, <1>13, <1>14 DEF Step

\* A step at one service stays within its frame.
LEMMA StepAtFrame ==
  ASSUME TypeOK, NEW c \in Commands, NEW s \in Services, CommandOK(cmd[c]),
         StepAt(c, s)
  PROVE  Frame(c)
<1>0. cmd[c] \in CommandState /\ cmd \in [Commands -> CommandState]
  BY FieldTypes DEF TypeOK
<1> USE <1>0, PgctlAssumption DEF Frame, Holds, CommandState
<1>1. CASE TakeLock(c, s)
  BY <1>1 DEF TakeLock, IsNext, Become
<1>2. CASE FindLockHeld(c, s)
  BY <1>2 DEF FindLockHeld, IsNext, Become
<1>3. CASE CleanUp(c, s)
  BY <1>3 DEF CleanUp, Changing, IsNext, ForceCleanup
<1>4. CASE FindSupervised(c, s)
  BY <1>4 DEF FindSupervised, Changing, IsNext, Become
<1>5. CASE TakeFlock(c, s)
  <2>1. UseFlock(c, s, "spawn") /\ DirFree(c, s) /\ procs' = procs
    BY <1>5 DEF TakeFlock, pgVars
  <2>2. shared' = IF NobodyElse(c, s) THEN shared \ {s} ELSE shared \cup {s}
    BY <2>1, UseFlockShares
  <2>3. /\ cmd'[c] = [cmd[c] EXCEPT !.pc = "spawn", !.flocked = s, !.inherits = FALSE]
        /\ \A d \in Commands \ {c} : cmd'[d] = cmd[d]
    BY <2>1 DEF UseFlock
  <2>4. /\ cmd'[c].pc = "spawn" /\ cmd'[c].flocked = s /\ cmd'[c].inherits = FALSE
        /\ cmd'[c].locks = cmd[c].locks
    BY <2>3
  <2>5. QED
    BY <2>1, <2>2, <2>3, <2>4
<1>6. CASE FindRunaway(c, s)
  BY <1>6, EndedStep DEF FindRunaway, Changing, IsNext, Become
<1>7. CASE BringUp(c, s)
  BY <1>7 DEF BringUp, Visited, IsNext, Become
<1>8. CASE BringDown(c, s)
  BY <1>8 DEF BringDown, Changing, Visited, IsNext, Become
<1>9. CASE KillLogger(c, s)
  BY <1>9 DEF KillLogger, Changing, Visited, IsNext, Become
<1>10. CASE AssertReady(c, s)
  <2>1. CASE cmd' = [cmd EXCEPT ![c] = [cmd[c] EXCEPT !.pc = "assert", !.flocked = NoOne, !.left = @ \ {s},
                        !.todo = IF cmd[c].mode = "change" THEN @ \ {s} ELSE @]]
    BY <1>10, <2>1 DEF AssertReady, Asserting, IsNext
  <2>2. CASE cmd' = [cmd EXCEPT ![c] = [cmd[c] EXCEPT !.pc = "rejected", !.flocked = NoOne]]
    BY <1>10, <2>2 DEF AssertReady, Asserting, IsNext
  <2>3. QED
    BY <1>10, <2>1, <2>2 DEF AssertReady, Accept, Reject, Become
<1>11. CASE AssertUnsupervised(c, s)
  <2>1. CASE cmd' = [cmd EXCEPT ![c] = [cmd[c] EXCEPT !.pc = "flock"]]
    BY <1>11, <2>1 DEF AssertUnsupervised, Asserting, IsNext
  <2>2. CASE cmd' = [cmd EXCEPT ![c] = [cmd[c] EXCEPT !.pc = "rejected", !.flocked = NoOne]]
    BY <1>11, <2>2 DEF AssertUnsupervised, Asserting, IsNext
  <2>3. QED
    BY <1>11, <2>1, <2>2 DEF AssertUnsupervised, Reject, Become
<1>12. CASE AssertUnlocked(c, s)
  <2>1. CASE DirFree(c, s)
    BY <1>12, <2>1 DEF AssertUnlocked, Become
  <2>2. CASE ~DirFree(c, s)
    BY <1>12, <2>2 DEF AssertUnlocked, Become
  <2>3. QED
    BY <2>1, <2>2
<1>13. CASE AssertNoProcess(c, s)
  <2>1. CASE cmd' = [cmd EXCEPT ![c] = [cmd[c] EXCEPT !.pc = "assert", !.flocked = NoOne, !.left = @ \ {s},
                        !.todo = IF cmd[c].mode = "change" THEN @ \ {s} ELSE @]]
    BY <1>13, <2>1 DEF AssertNoProcess, Asserting, IsNext
  <2>2. CASE cmd' = [cmd EXCEPT ![c] = [cmd[c] EXCEPT !.pc = "rejected", !.flocked = NoOne]]
    BY <1>13, <2>2 DEF AssertNoProcess, Asserting, IsNext
  <2>3. QED
    BY <1>13, <2>1, <2>2 DEF AssertNoProcess, Accept, Reject, Become
<1>14. CASE Recheck(c, s)
  BY <1>14 DEF Recheck, Rejected, IsNext, Become
<1>15. CASE ForceStop(c, s)
  BY <1>15 DEF ForceStop, Rejected, IsNext, ForceCleanup
<1>16. CASE GiveUp(c, s)
  BY <1>16 DEF GiveUp, Rejected, IsNext, Become
<1>17. CASE HookScan(c, s)
  <2>1. CASE cmd' = [cmd EXCEPT ![c] = [cmd[c] EXCEPT !.left = @ \ {s}]]
    BY <1>17, <2>1 DEF HookScan
  <2>2. CASE cmd' = [cmd EXCEPT ![c] = [cmd[c] EXCEPT !.pc = "after", !.left = {}, !.locks = {}]]
    BY <1>17, <2>2 DEF HookScan
  <2>3. QED
    BY <1>17, <2>1, <2>2 DEF HookScan, Become
<1>18. CASE DebugFlock(c, s)
  <2>1. CASE DirFree(c, s)
    <3>1. UseFlock(c, s, "exec") /\ procs' = procs
      BY <1>18, <2>1 DEF DebugFlock, pgVars
    <3>2. /\ cmd'[c] = [cmd[c] EXCEPT !.pc = "exec", !.flocked = s, !.inherits = FALSE]
          /\ \A d \in Commands \ {c} : cmd'[d] = cmd[d]
      BY <3>1 DEF UseFlock
    <3>3. /\ cmd'[c].pc = "exec" /\ cmd'[c].flocked = s /\ cmd'[c].inherits = FALSE
          /\ cmd'[c].locks = cmd[c].locks
      BY <3>2
    <3>4. shared' = IF NobodyElse(c, s) THEN shared \ {s} ELSE shared \cup {s}
      BY <2>1, <3>1, UseFlockShares
    <3>5. QED
      BY <2>1, <3>1, <3>2, <3>3, <3>4
  <2>2. CASE ~DirFree(c, s)
    BY <1>18, <2>2, EndedStep DEF DebugFlock, Become
  <2>3. QED
    BY <2>1, <2>2
<1>19. QED
  BY <1>1, <1>2, <1>3, <1>4, <1>5, <1>6, <1>7, <1>8, <1>9, <1>10, <1>11, <1>12, <1>13, <1>14, <1>15, <1>16, <1>17, <1>18 DEF StepAt

\* And so does every step.
LEMMA StepFrame ==
  ASSUME TypeOK, NEW c \in Commands, CommandOK(cmd[c]),
         Step(c) \/ Failing(c) \/ Crash(c) \/ Killed(c)
  PROVE  Frame(c)
<1>0. cmd[c] \in CommandState /\ cmd \in [Commands -> CommandState]
  BY FieldTypes DEF TypeOK
<1> USE <1>0, PgctlAssumption DEF Frame, Holds, CommandState
<1>1. CASE RaiseLockHeld(c)
  BY <1>1, EndedStep DEF RaiseLockHeld, Become
<1>2. CASE Locked(c)
  BY <1>2 DEF Locked, Become
<1>3. CASE Supervise(c)
  BY <1>3 DEF Supervise, Become
<1>4. CASE Changed(c)
  BY <1>4 DEF Changed, Become
<1>5. CASE BreakOut(c)
  BY <1>5 DEF BreakOut, Become
<1>6. CASE AssertedAll(c)
  <2>1. CASE cmd' = [cmd EXCEPT ![c] = [cmd[c] EXCEPT !.pc = "change", !.left = cmd[c].todo]]
    BY <1>6, <2>1 DEF AssertedAll
  <2>2. CASE cmd' = [cmd EXCEPT ![c] = [cmd[c] EXCEPT !.pc = "hookScan", !.left = Services]]
    BY <1>6, <2>2 DEF AssertedAll
  <2>3. CASE cmd' = [cmd EXCEPT ![c] = [cmd[c] EXCEPT !.pc = "after", !.locks = {}]]
    BY <1>6, <2>3 DEF AssertedAll
  <2>4. QED
    BY <1>6, <2>1, <2>2, <2>3 DEF AssertedAll, Become
<1>7. CASE PreStart(c)
  BY <1>7 DEF PreStart, Become
<1>8. CASE AllDown(c)
  BY <1>8 DEF AllDown, Become
<1>9. CASE PostStop(c)
  BY <1>9 DEF PostStop, Become
<1>10. CASE DebugExec(c)
  BY <1>10, EndedStep DEF DebugExec, Become
<1>11. CASE Failing(c)
  BY <1>11, EndedStep DEF Failing, HookFails, MessageFails, Become
<1>12. CASE Crash(c)
  BY <1>12, EndedStep DEF Crash, Become
<1>13. CASE \E s \in Services : StepAt(c, s)
  BY <1>13, StepAtFrame
<1>14. CASE \/ AfterStop(c) \/ AfterStart(c) \/ AfterStopLogs(c) \/ DebugState(c)
           \/ Killed(c)
  BY <1>14, TurnStep
<1>15. QED
  BY <1>1, <1>2, <1>3, <1>4, <1>5, <1>6, <1>7, <1>8, <1>9, <1>10, <1>11, <1>12, <1>13, <1>14 DEF Step

\* A new command has no lock but, perhaps, the flock of a service that runs.
LEMMA InvocationFrame ==
  ASSUME TypeOK, NEW c \in Commands, Invocation(c)
  PROVE  /\ CommandOK(cmd'[c])
         /\ \A d \in Commands \ {c} : cmd'[d] = cmd[d]
         /\ cmd'[c].locks = {} /\ cmd'[c].pc \notin {"spawn", "exec"}
         /\ \A t \in Services : Holds(c, t)' => procs[t] \cap FdRoles # {}
<1> DEFINE Fresh(r) ==
      /\ r.pc \in {"lock", "debugState"} /\ r.locks = {} /\ r.flocked = NoOne
      /\ CommandOK(r)
<1>1. ASSUME NEW r \in CommandState, NEW job, NEW q \in Seq(Services),
             r.pc = "idle", r.locks = {}, r.flocked = NoOne,
             r.phase = "Start", r.left = {}, r.todo = {},
             r.inherits /\ job # "restart" => "nested" \in Faults
      PROVE  /\ Fresh(FirstPhase(r, job, q))
             /\ FirstPhase(r, job, q).inherits = r.inherits
             /\ FirstPhase(r, job, q).origin = r.origin
  <2>1. CASE job = "debug"
    <3> DEFINE f == FirstPhase(r, job, q)
    <3>1. f = [r EXCEPT !.pc = "debugState", !.job = job, !.targets = q]
      BY <2>1 DEF FirstPhase
    <3>2. /\ f.pc = "debugState" /\ f.locks = r.locks /\ f.flocked = r.flocked
          /\ f.phase = r.phase /\ f.left = r.left /\ f.todo = r.todo
          /\ f.inherits = r.inherits /\ f.origin = r.origin
      BY <3>1 DEF CommandState
    <3> HIDE DEF f
    <3>3. f.inherits => "nested" \in Faults
      BY <1>1, <2>1, <3>2
    <3>4. QED
      BY <1>1, <3>2, <3>3 DEF f, CommandOK, OwnsLocks, UsesUpParentLock, VisitsTargets, Critical
  <2>2. CASE job # "debug"
    <3> DEFINE phase == IF job = "start" THEN "Start" ELSE "Stop"
               b == Begin(r, job, phase, q, Range(q))
    <3>1. FirstPhase(r, job, q) = b
      BY <2>2 DEF FirstPhase
    <3>2. /\ b.pc = "lock" /\ b.mode = "check" /\ b.job = job
          /\ b.phase = phase /\ b.targets = q /\ b.todo = Range(q)
          /\ b.left = Range(q)
          /\ b.origin = r.origin /\ b.inherits = r.inherits
          /\ b.flocked = r.flocked /\ b.locks = r.locks
      BY BeginFields
    <3>3. phase = "Start" => job = "start"
      OBVIOUS
    <3> HIDE DEF b, phase
    <3>4. QED
      BY <1>1, <2>2, <3>1, <3>2, <3>3 DEF CommandOK, OwnsLocks, UsesUpParentLock,
         VisitsTargets, Critical
  <2>3. QED
    BY <2>1, <2>2
<1>2. ASSUME NEW r, Become(c, r), Fresh(r),
             r.inherits => r.origin \in Services /\ procs[r.origin] \cap FdRoles # {}
      PROVE  /\ CommandOK(cmd'[c])
             /\ \A d \in Commands \ {c} : cmd'[d] = cmd[d]
             /\ cmd'[c].locks = {} /\ cmd'[c].pc \notin {"spawn", "exec"}
             /\ \A t \in Services : Holds(c, t)' => procs[t] \cap FdRoles # {}
  <2>1. cmd'[c] = r /\ \A d \in Commands \ {c} : cmd'[d] = cmd[d]
    BY <1>2 DEF Become, TypeOK
  <2>2. QED
    BY <1>2, <2>1, PgctlAssumption DEF Holds
<1> HIDE DEF Fresh
<1>3. ASSUME NEW job \in Jobs, NEW q \in Requests, NEW f \in Forces, Invoke(c, job, q, f)
      PROVE  \E r : /\ Become(c, r) /\ Fresh(r) /\ ~r.inherits
  <2> DEFINE r == [Idle EXCEPT !.force = f]
  <2>1. /\ r \in CommandState /\ r.pc = "idle" /\ r.locks = {} /\ r.flocked = NoOne
        /\ r.phase = "Start" /\ r.left = {} /\ r.todo = {} /\ r.inherits = FALSE
    BY IdleType, PgctlAssumption DEF Idle, CommandState
  <2>2. Become(c, FirstPhase(r, job, q))
    BY <1>3 DEF Invoke
  <2>3. q \in Seq(Services)
    BY PgctlAssumption
  <2> HIDE DEF r
  <2>4. QED
    BY <1>1, <2>1, <2>2, <2>3
<1>4. ASSUME NEW o \in Services, NEW job \in Jobs, NEW q \in Requests,
             InvokeNested(c, o, job, q)
      PROVE  \E r : /\ Become(c, r) /\ Fresh(r)
                    /\ r.origin = o /\ procs[o] \cap FdRoles # {}
  <2> DEFINE r == [Idle EXCEPT !.origin = o, !.inherits = TRUE]
  <2>1. /\ r \in CommandState /\ r.pc = "idle" /\ r.locks = {} /\ r.flocked = NoOne
        /\ r.phase = "Start" /\ r.left = {} /\ r.todo = {} /\ r.origin = o
    BY IdleType DEF Idle, CommandState
  <2>2. /\ Become(c, FirstPhase(r, job, q))
        /\ "nested" \in Faults
    BY <1>4 DEF InvokeNested
  <2>3. q \in Seq(Services)
    BY PgctlAssumption
  <2>4. procs[o] \cap FdRoles # {}
    BY <1>4 DEF InvokeNested, FdRoles, Roles, RunRoles
  <2> HIDE DEF r
  <2>5. QED
    BY <1>1, <2>1, <2>2, <2>3, <2>4
<1>5. ASSUME NEW s \in Services, PollRestart(c, s)
      PROVE  \E r : /\ Become(c, r) /\ Fresh(r)
                    /\ r.origin = s /\ procs[s] \cap FdRoles # {}
  <2> DEFINE r == [Idle EXCEPT !.origin = s, !.inherits = TRUE]
  <2>1. /\ r \in CommandState /\ r.pc = "idle" /\ r.locks = {} /\ r.flocked = NoOne
        /\ r.phase = "Start" /\ r.left = {} /\ r.todo = {} /\ r.origin = s
    BY IdleType DEF Idle, CommandState
  <2>2. Become(c, FirstPhase(r, "restart", <<s>>))
    BY <1>5 DEF PollRestart
  <2>3. <<s>> \in Seq(Services)
    OBVIOUS
  <2>4. procs[s] \cap FdRoles # {}
    BY <1>5 DEF PollRestart, FdRoles, Roles
  <2> HIDE DEF r
  <2>5. QED
    BY <1>1, <2>1, <2>2, <2>3, <2>4
<1>6. QED
  BY <1>2, <1>3, <1>4, <1>5 DEF Invocation

(***************************************************************************)
(* What becomes of the processes.                                          *)
(***************************************************************************)
\* A step of a command starts at most one process that has the flock, where
\* the command took the flock; its invocation ends one at most.
LEMMA StepProcs ==
  ASSUME NEW c \in Commands,
         Step(c) \/ Failing(c) \/ Crash(c) \/ Killed(c)
  PROVE  \/ procs' = procs
         \/ /\ cmd[c].pc \in {"spawn", "exec"}
            /\ \E r \in {"sup", "fg"} :
                 procs' = [procs EXCEPT ![cmd[c].flocked] = @ \cup {r}]
<1>1. ASSUME NEW s \in Services, StepAt(c, s) PROVE procs' = procs
  <2>1. CASE CleanUp(c, s) \/ ForceStop(c, s)
    BY <2>1 DEF CleanUp, ForceStop, ForceCleanup, KillSeen
  <2>2. CASE BringUp(c, s) \/ BringDown(c, s) \/ KillLogger(c, s)
    BY <2>2 DEF BringUp, BringDown, KillLogger, SvcUp, SvcDownExit, SvcKillLog
  <2>3. CASE UNCHANGED pgVars
    BY <2>3 DEF pgVars
  <2>4. QED
    BY <1>1, <2>1, <2>2, <2>3 DEF StepAt, TakeLock, FindLockHeld, FindSupervised,
       TakeFlock, FindRunaway, AssertReady, AssertUnsupervised, AssertUnlocked,
       AssertNoProcess, Recheck, GiveUp, HookScan, DebugFlock
<1>2. CASE Supervise(c) \/ DebugExec(c)
  BY <1>2 DEF Supervise, DebugExec, Spawn, Foreground
<1>3. CASE UNCHANGED pgVars
  BY <1>3 DEF pgVars
<1>4. QED
  BY <1>1, <1>2, <1>3 DEF Step, Failing, HookFails, MessageFails, Crash, Killed, RaiseLockHeld, Locked, Changed,
     BreakOut, AssertedAll, PreStart, AllDown, PostStop, AfterStop, AfterStart,
     AfterStopLogs, DebugState

\* Only a command that takes a flock to start something changes what counts as shared.
LEMMA StepShared ==
  ASSUME NEW c \in Commands, Step(c) \/ Failing(c) \/ Crash(c) \/ Killed(c)
  PROVE  \/ shared' = shared
         \/ \E s \in Services, pc \in {"spawn", "exec"} :
              (TakeFlock(c, s) \/ DebugFlock(c, s)) /\ DirFree(c, s) /\ UseFlock(c, s, pc)
<1> DEFINE Shares == \E s \in Services, pc \in {"spawn", "exec"} :
              (TakeFlock(c, s) \/ DebugFlock(c, s)) /\ DirFree(c, s) /\ UseFlock(c, s, pc)
<1>1. ASSUME NEW s \in Services, StepAt(c, s)
      PROVE  shared' = shared \/ Shares
  <2>1. CASE TakeFlock(c, s)
    <3>1. DirFree(c, s) /\ UseFlock(c, s, "spawn")
      BY <2>1 DEF TakeFlock
    <3>2. QED
      BY <2>1, <3>1
  <2>2. CASE DebugFlock(c, s)
    <3>1. shared' = shared \/ (DirFree(c, s) /\ UseFlock(c, s, "exec"))
      BY <2>2 DEF DebugFlock, Become
    <3>2. QED
      BY <2>2, <3>1
  <2>3. CASE CleanUp(c, s) \/ ForceStop(c, s)
    BY <2>3 DEF CleanUp, ForceStop, ForceCleanup
  <2>4. QED
    BY <1>1, <2>1, <2>2, <2>3 DEF StepAt, TakeLock, FindLockHeld, FindSupervised,
       FindRunaway, BringUp, BringDown, KillLogger, Visited, AssertReady, AssertUnsupervised,
       AssertUnlocked, AssertNoProcess, Accept, Reject, Recheck, GiveUp, HookScan, Become
<1> HIDE DEF Shares
<1>2. shared' = shared \/ Shares
  BY <1>1 DEF Step, Failing, HookFails, MessageFails, Crash, Killed, RaiseLockHeld, Locked,
     Supervise, Changed, BreakOut, AssertedAll, PreStart, AllDown, PostStop, AfterStop,
     AfterStart, AfterStopLogs, DebugState, DebugExec, Become
<1>3. QED
  BY <1>2 DEF Shares

\* An invocation ends pgctl-poll-ready at most.
LEMMA InvocationProcs ==
  ASSUME NEW c \in Commands, Invocation(c)
  PROVE  /\ shared' = shared
         /\ \/ procs' = procs
            \/ \E s \in Services, r \in {"poll", "pollEnd"} :
                 procs' = [procs EXCEPT ![s] = @ \ {r}]
BY DEF Invocation, Invoke, InvokeNested, PollRestart, Become, pgVars

\* No process gets the flock but from one that has it, and every process that
\* starts or ends leaves s6-supervise and the run scripts as InstanceInv says.
LEMMA EnvironmentProcs ==
  ASSUME PgTypeOK, NEW s \in Services, Environment(s), UNCHANGED shared
  PROVE  /\ \A t \in Services : procs[t] \cap FdRoles = {} => procs'[t] \cap FdRoles = {}
         /\ InstanceInv => InstanceInv'
<1> DEFINE Good == /\ \A t \in Services :
                        procs[t] \cap FdRoles = {} => procs'[t] \cap FdRoles = {}
                   /\ InstanceInv => InstanceInv'
<1> USE DEF PgTypeOK, InstanceInv, FdRoles, Roles
<1>1. CASE UNCHANGED procs
  BY <1>1
<1>2. CASE StartRun(s)
  BY <1>2 DEF StartRun
<1>3. CASE RunGone(s)
  BY <1>3 DEF RunGone, Rename
<1>4. CASE SupGone(s)
  BY <1>4 DEF SupGone, Rename
<1>5. ASSUME NEW r \in Roles, OtherGone(s, r) PROVE Good
  BY <1>5 DEF OtherGone
<1>6. ASSUME NEW r \in Roles, Fork(s, r) PROVE Good
  BY <1>6, PlaygroundAssumption DEF Fork, RunRoles
<1>7. QED
  BY <1>1, <1>2, <1>3, <1>4, <1>5, <1>6 DEF Environment, Boot, NotifyReady, SupKilled,
     LogBoot, LogExit

(***************************************************************************)
(* The invariant is inductive.                                             *)
(***************************************************************************)
\* The invariant holds at first.
LEMMA SafetyInit ==
  ASSUME Init
  PROVE  SafetyInv
<1>1. \A c \in Commands : /\ cmd[c].pc = "idle" /\ cmd[c].phase = "Start"
                          /\ cmd[c].left = {} /\ cmd[c].todo = {}
                          /\ cmd[c].locks = {} /\ cmd[c].inherits = FALSE
  BY DEF Init, Idle
<1>2. CommandInv /\ LockInv /\ FlockInv
  BY <1>1 DEF CommandInv, LockInv, FlockInv, OwnsLocks, UsesUpParentLock,
     VisitsTargets, Critical
<1>3. InstanceInv
  BY DEF Init, PgInit, InstanceInv
<1>4. QED
  BY <1>2, <1>3 DEF SafetyInv

\* It is kept by the steps of commands,
LEMMA CommandStepSafe ==
  ASSUME TypeOK, SafetyInv, NEW c \in Commands,
         Step(c) \/ Failing(c) \/ Crash(c) \/ Killed(c)
  PROVE  SafetyInv'
<1>1. CommandOK(cmd[c])
  BY DEF SafetyInv, CommandInv, CommandOK
<1>2. CommandOK(cmd'[c]) /\ Frame(c)
  BY <1>1, StepOK, StepFrame
<1>3. CommandInv'
  BY <1>2 DEF SafetyInv, CommandInv, CommandOK, Frame
<1>4. LockInv'
  <2>1. \A d \in Commands \ {c} : cmd'[d] = cmd[d]
    BY <1>2 DEF Frame
  <2>2. \A d \in Commands \ {c} : cmd'[c].locks \cap cmd[d].locks = {}
    BY <1>2 DEF Frame, SafetyInv, LockInv
  <2>3. QED
    BY <2>1, <2>2 DEF SafetyInv, LockInv
<1>5. \A d \in Commands : cmd[d].pc \in {"spawn", "exec"} =>
        /\ cmd[d].flocked \in Services
        /\ cmd[d].flocked \notin shared => NobodyElse(d, cmd[d].flocked)
  BY DEF SafetyInv, FlockInv
<1>0. \/ shared' = shared
      \/ \E s \in Services :
           /\ shared' = IF NobodyElse(c, s) THEN shared \ {s} ELSE shared \cup {s}
           /\ procs' = procs
  BY StepShared, UseFlockShares DEF TakeFlock, DebugFlock, pgVars
<1>6. \A t \in Services : t \in shared /\ t \notin shared' => NobodyElse(c, t) /\ procs' = procs
  BY <1>0
<1>7. InstanceInv'
  <2>1. CASE procs' = procs
    <3>1. ASSUME NEW t \in Services, t \notin shared'
          PROVE  t \notin shared \/ procs[t] \cap {"sup", "run", "old", "fg"} = {}
      BY <1>6, <3>1 DEF NobodyElse, FdRoles, Roles
    <3>2. QED
      BY <2>1, <3>1 DEF SafetyInv, InstanceInv
  <2>2. CASE cmd[c].pc \in {"spawn", "exec"} /\ procs' # procs
    <3> DEFINE t == cmd[c].flocked
    <3>1. PICK r \in {"sup", "fg"} : procs' = [procs EXCEPT ![t] = @ \cup {r}]
      BY <2>2, StepProcs
    <3>2. t \in Services /\ (t \notin shared => procs[t] \cap FdRoles = {})
      BY <1>5, <2>2 DEF NobodyElse
    <3>3. procs \in [Services -> SUBSET Roles]
      BY DEF TypeOK, PgTypeOK
    <3>4. shared' = shared
      BY <1>0, <2>2
    <3> HIDE DEF t
    <3>5. QED
      BY <3>1, <3>2, <3>3, <3>4 DEF SafetyInv, InstanceInv, FdRoles, Roles
  <2>3. QED
    BY <2>1, <2>2, StepProcs
<1>8. FlockInv'
  <2>1. ASSUME NEW d \in Commands, cmd'[d].pc \in {"spawn", "exec"}
        PROVE  (/\ cmd[d].flocked \in Services
                /\ cmd[d].flocked \notin shared => NobodyElse(d, cmd[d].flocked))'
    <3>1. CASE d = c
      <4>1. /\ cmd'[c].flocked \in Services /\ procs' = procs
            /\ cmd'[c].flocked \notin shared' => NobodyElse(c, cmd'[c].flocked)
        BY <1>2, <2>1, <3>1 DEF Frame
      <4>2. \A e \in Commands \ {c} : cmd'[e] = cmd[e]
        BY <1>2 DEF Frame
      <4>3. QED
        BY <3>1, <4>1, <4>2 DEF NobodyElse, Holds
    <3>2. CASE d # c
      <4>0. PICK t : t = cmd[d].flocked
        OBVIOUS
      <4>1. cmd'[d] = cmd[d] /\ \A e \in Commands \ {c} : cmd'[e] = cmd[e]
        BY <1>2, <3>2 DEF Frame
      <4>2. t \in Services /\ (t \notin shared => NobodyElse(d, t))
        BY <1>5, <2>1, <4>0, <4>1
      <4>3. ASSUME t \notin shared'
            PROVE  NobodyElse(d, t)'
        <5>1. Holds(d, t)
          BY <4>0 DEF Holds
        <5>2. t \notin shared
          BY <1>6, <3>2, <4>2, <4>3, <5>1 DEF NobodyElse
        <5>3. procs[t] \cap FdRoles = {} /\ \A e \in Commands \ {d} : ~Holds(e, t)
          BY <4>2, <5>2 DEF NobodyElse
        <5>4. ~DirFree(c, t)
          BY <3>2, <5>1, <5>3 DEF DirFree, NobodyElse, ParentLock, Holds
        <5>5. ~Holds(c, t)'
          BY <1>2, <3>2, <4>2, <5>3, <5>4 DEF Frame
        <5>6. procs'[t] = procs[t]
          <6>1. CASE procs' = procs
            BY <6>1
          <6>2. CASE cmd[c].pc \in {"spawn", "exec"}
            <7>1. cmd[c].flocked # t
              BY <3>2, <5>3 DEF Holds
            <7>2. procs \in [Services -> SUBSET Roles]
              BY DEF TypeOK, PgTypeOK
            <7>3. QED
              BY <4>2, <7>1, <7>2, StepProcs
          <6>3. QED
            BY <6>1, <6>2, StepProcs
        <5>7. \A e \in Commands \ {c, d} : ~Holds(e, t)'
          BY <4>1, <5>3 DEF Holds
        <5>8. QED
          BY <5>3, <5>5, <5>6, <5>7 DEF NobodyElse
      <4>4. cmd'[d].flocked = t
        BY <4>0, <4>1
      <4>5. QED
        BY <4>2, <4>3, <4>4
    <3>3. QED
      BY <3>1, <3>2
  <2>2. QED
    BY <2>1 DEF FlockInv
<1>9. QED
  BY <1>3, <1>4, <1>7, <1>8 DEF SafetyInv

\* by their invocations,
LEMMA InvocationSafe ==
  ASSUME TypeOK, SafetyInv, NEW c \in Commands, Invocation(c)
  PROVE  SafetyInv'
<1>1. /\ CommandOK(cmd'[c])
      /\ \A d \in Commands \ {c} : cmd'[d] = cmd[d]
      /\ cmd'[c].locks = {} /\ cmd'[c].pc \notin {"spawn", "exec"}
      /\ \A t \in Services : Holds(c, t)' => procs[t] \cap FdRoles # {}
  BY InvocationFrame
<1>2. procs \in [Services -> SUBSET Roles]
  BY DEF TypeOK, PgTypeOK
<1>3. CommandInv' /\ LockInv'
  BY <1>1 DEF SafetyInv, CommandInv, LockInv, CommandOK
<1>4. InstanceInv'
  BY <1>2, InvocationProcs DEF SafetyInv, InstanceInv
<1>5. \A t \in Services : procs[t] \cap FdRoles = {} => procs'[t] \cap FdRoles = {}
  BY <1>2, InvocationProcs
<1>6. FlockInv'
  BY <1>1, <1>5, InvocationProcs DEF SafetyInv, FlockInv, NobodyElse, Holds
<1>7. QED
  BY <1>3, <1>4, <1>6 DEF SafetyInv

\* and by s6, the services and the kernel.
LEMMA EnvironmentSafe ==
  ASSUME TypeOK, SafetyInv, NEW s \in Services, Environment(s),
         UNCHANGED <<cmd, doomed, shared>>
  PROVE  SafetyInv'
<1>1. /\ \A t \in Services : procs[t] \cap FdRoles = {} => procs'[t] \cap FdRoles = {}
      /\ InstanceInv'
  BY EnvironmentProcs DEF TypeOK, SafetyInv
<1>2. CommandInv' /\ LockInv'
  BY DEF SafetyInv, CommandInv, LockInv
<1>3. FlockInv'
  BY <1>1 DEF SafetyInv, FlockInv, NobodyElse, Holds
<1>4. QED
  BY <1>1, <1>2, <1>3 DEF SafetyInv

\* Whatever commands, services and faults there are, nested commands of a service's
\* own processes among them: the locks are kept as CommandInv and LockInv say; what
\* is started is started under a flock that nobody else has, and s6-supervise and the
\* run scripts exclude each other, unless a process of the service started it with
\* the flock that it inherited (`shared`).
THEOREM Safety == Spec => []SafetyInv
<1>1. TypeOK /\ SafetyInv /\ [Next]_vars => SafetyInv'
  <2>1. ASSUME TypeOK, SafetyInv, Next PROVE SafetyInv'
    BY <2>1, CommandStepSafe, InvocationSafe, EnvironmentSafe DEF Next
  <2>2. ASSUME SafetyInv, UNCHANGED vars PROVE SafetyInv'
    BY <2>2 DEF vars, pgVars, SafetyInv, CommandInv, LockInv, InstanceInv, FlockInv, NobodyElse, Holds
  <2>3. QED
    BY <2>1, <2>2
<1>2. Init => SafetyInv
  BY SafetyInit
<1>3. QED
  BY <1>1, <1>2, Typing, PTL DEF Spec

\* Two commands are never in a critical section for the same service.
THEOREM Exclusion == Spec => []ExclusiveManagement
<1>1. SafetyInv => ExclusiveManagement
  <2>1. ASSUME SafetyInv, NEW c \in Commands PROVE Managed(c) \subseteq cmd[c].locks
    BY <2>1 DEF SafetyInv, CommandInv, OwnsLocks, Managed
  <2>2. QED
    BY <2>1 DEF SafetyInv, LockInv, ExclusiveManagement
<1>2. QED
  BY <1>1, Safety, PTL

\* A service never has two run scripts at once, but for one that was last started by
\* one of its own processes beside others: service.py:278 does not test their flock.
THEOREM SingleInstance == Spec => []OneInstance
<1>1. SafetyInv => OneInstance
  BY DEF SafetyInv, InstanceInv, OneInstance, AtMostOne, RunRoles
<1>2. QED
  BY <1>1, Safety, PTL

\* The flock of a parent is used to start something only if run scripts invoke commands.
LEMMA UntestedIsNested ==
  ASSUME SafetyInv, NEW c \in Commands, NEW s \in Services,
         TakeFlock(c, s) \/ DebugFlock(c, s), "nested" \notin Faults
  PROVE  ~ParentLock(c, s)
<1>1. CommandOK(cmd[c])
  BY DEF SafetyInv, CommandInv, CommandOK
<1>2. CASE TakeFlock(c, s)
  BY <1>1, <1>2 DEF TakeFlock, Changing, IsNext, ParentLock, CommandOK, UsesUpParentLock,
     VisitsTargets
<1>3. CASE DebugFlock(c, s)
  BY <1>1, <1>3 DEF DebugFlock, ParentLock, CommandOK, UsesUpParentLock
<1>4. QED
  BY <1>2, <1>3

\* Whoever starts something has tested the flock, unless a run script invoked it.
THEOREM TestsTheFlock == Spec => StartsUnderTestedFlock
<1>1. ASSUME SafetyInv
      PROVE  [\A c \in Commands, s \in Services :
                TakeFlock(c, s) \/ DebugFlock(c, s)
                  => "nested" \in Faults \/ ~ParentLock(c, s)]_vars
  BY <1>1, UntestedIsNested
<1>2. QED
  BY <1>1, Safety, PTL DEF StartsUnderTestedFlock

\* So no service is ever excepted from OneInstance if run scripts invoke no commands.
THEOREM NobodyShares == "nested" \notin Faults => (Spec => [](shared = {}))
<1> SUFFICES ASSUME "nested" \notin Faults PROVE Spec => [](shared = {})
  OBVIOUS
<1>1. Init => shared = {}
  BY DEF Init
<1>2. SafetyInv /\ shared = {} /\ [Next]_vars => (shared = {})'
  <2> SUFFICES ASSUME SafetyInv, shared = {}, [Next]_vars PROVE shared' = {}
    OBVIOUS
  <2>1. ASSUME NEW c \in Commands, Step(c) \/ Failing(c) \/ Crash(c) \/ Killed(c)
        PROVE  shared' = {}
    <3>1. ASSUME NEW s \in Services, NEW pc, TakeFlock(c, s) \/ DebugFlock(c, s),
                 DirFree(c, s), UseFlock(c, s, pc)
          PROVE  shared' = {}
      BY <3>1, UntestedIsNested DEF DirFree, UseFlock
    <3>2. QED
      BY <2>1, <3>1, StepShared
  <2>2. ASSUME NEW c \in Commands, Invocation(c) PROVE shared' = {}
    BY <2>2, InvocationProcs
  <2>3. QED
    BY <2>1, <2>2 DEF Next, vars
<1>3. QED
  BY <1>1, <1>2, Safety, PTL DEF Spec
=============================================================================
