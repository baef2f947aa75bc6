--------------------------- MODULE OverlapProofs ----------------------------
(***************************************************************************)
(* Commands that overlap.  They take their locks in the order of their     *)
(* requests and hold none between two critical sections; so any number of  *)
(* commands that list the services in one order are never turned away in a *)
(* circle.  However many stops overlap, the post-stop hook is not lost     *)
(* between them.  And of two stops that list the services in one order one *)
(* gets its locks, also if each of them takes its locks several times.     *)
(***************************************************************************)
EXTENDS LockProofs, FiniteSetTheorems, WellFoundedInduction

(***************************************************************************)
(* Positions.                                                              *)
(***************************************************************************)
\* What a sequence names stands at its position.
LEMMA PositionIs ==
  ASSUME NEW S, NEW q \in Seq(S), NEW s \in Range(q)
  PROVE  /\ Position(q, s) \in DOMAIN q /\ q[Position(q, s)] = s
         /\ Position(q, s) \in Nat
<1>1. \E i \in DOMAIN q : q[i] = s
  BY DEF Range
<1>2. Position(q, s) \in DOMAIN q /\ q[Position(q, s)] = s
  BY <1>1 DEF Position
<1> QED
  BY <1>2

(***************************************************************************)
(* One step of a command.                                                  *)
(***************************************************************************)
Taking == {"lock", "lockHeld"}

\* It ends.
LEMMA EndedInOrder ==
  ASSUME TypeOK, NEW c \in Commands, NEW how,
         cmd' = [cmd EXCEPT ![c] = Ended(c, how)]
  PROVE  TakesInOrder(cmd'[c])
<1>1. cmd'[c] = Ended(c, how)
  BY DEF TypeOK
<1> QED
  BY <1>1, EndedFields DEF TakesInOrder

\* It does not take locks.
LEMMA ElseInOrder ==
  ASSUME NEW r, r.pc \notin Taking, r.pc \in Critical \/ r.locks = {}
  PROVE  TakesInOrder(r)
BY DEF TakesInOrder, Taking

\* It begins to take them.
LEMMA BeginsInOrder ==
  ASSUME NEW r, r.locks = {}, r.left = Range(r.targets)
  PROVE  TakesInOrder(r)
BY DEF TakesInOrder

\* It takes the next one.
LEMMA NextInOrder ==
  ASSUME TypeOK, NEW c \in Commands, NEW s \in Services, TakesInOrder(cmd[c]),
         TakeLock(c, s)
  PROVE  TakesInOrder(cmd'[c])
<1> DEFINE q == cmd[c].targets
<1>1. /\ cmd'[c].pc = "lock" /\ cmd'[c].targets = q
      /\ cmd'[c].locks = cmd[c].locks \cup {s} /\ cmd'[c].left = cmd[c].left \ {s}
  BY FieldTypes DEF TakeLock, Become, TypeOK, CommandState
<1>2. /\ s \in cmd[c].left /\ cmd[c].locks \cup cmd[c].left \subseteq Range(q)
      /\ \A t \in cmd[c].locks, u \in cmd[c].left : Position(q, t) < Position(q, u)
      /\ \A t \in cmd[c].left : Position(q, s) <= Position(q, t)
  BY DEF TakeLock, IsNext, TakesInOrder
<1>3. ASSUME NEW t \in cmd[c].locks \cup {s}, NEW u \in cmd[c].left \ {s}
      PROVE  Position(q, t) < Position(q, u)
  <2>1. CASE t \in cmd[c].locks
    BY <1>2, <2>1
  <2>2. CASE t = s
    <3>1. Position(q, s) \in Nat /\ Position(q, u) \in Nat /\ Position(q, s) # Position(q, u)
      <4>1. q \in Seq(Services) /\ s \in Range(q) /\ u \in Range(q)
        BY <1>2, FieldTypes
      <4> HIDE DEF q
      <4> QED
        BY <4>1, PositionIs
    <3>2. Position(q, s) <= Position(q, u)
      BY <1>2
    <3> QED
      BY <2>2, <3>1, <3>2
  <2> QED
    BY <2>1, <2>2
<1> QED
  BY <1>1, <1>2, <1>3 DEF TakesInOrder

\* A step at a service.
LEMMA StepAtInOrder ==
  ASSUME TypeOK, NEW c \in Commands, NEW s \in Services, TakesInOrder(cmd[c]),
         StepAt(c, s)
  PROVE  TakesInOrder(cmd'[c])
<1>0. cmd[c] \in CommandState /\ cmd \in [Commands -> CommandState]
  BY FieldTypes DEF TypeOK
<1> USE <1>0 DEF CommandState
<1>1. CASE TakeLock(c, s)
  BY <1>1, NextInOrder
<1>2. CASE FindLockHeld(c, s)
  BY <1>2 DEF FindLockHeld, Become, TakesInOrder
<1>3. CASE FindRunaway(c, s)
  BY <1>3, EndedInOrder DEF FindRunaway, Become
<1>4. CASE \/ CleanUp(c, s) \/ FindSupervised(c, s) \/ TakeFlock(c, s)
           \/ BringUp(c, s) \/ BringDown(c, s) \/ KillLogger(c, s)
  <2>1. cmd'[c].pc \in {"change", "svcUp", "spawn"}
    <3>1. CASE CleanUp(c, s)
      BY <3>1 DEF CleanUp, Changing
    <3>2. CASE FindSupervised(c, s)
      BY <3>2 DEF FindSupervised, Become
    <3>3. CASE TakeFlock(c, s)
      BY <3>3 DEF TakeFlock, UseFlock
    <3>4. CASE BringUp(c, s) \/ BringDown(c, s) \/ KillLogger(c, s)
      BY <3>4 DEF BringUp, BringDown, KillLogger, Visited, Become
    <3> QED
      BY <1>4, <3>1, <3>2, <3>3, <3>4
  <2> QED
    BY <2>1, ElseInOrder DEF Taking, Critical
<1>5. CASE \/ AssertReady(c, s) \/ AssertUnsupervised(c, s) \/ AssertUnlocked(c, s)
           \/ AssertNoProcess(c, s) \/ Recheck(c, s) \/ ForceStop(c, s) \/ GiveUp(c, s)
  <2>1. cmd'[c].pc \in {"assert", "flock", "scan", "rejected"}
    <3>0. ASSUME Accept(c, s) \/ Reject(c)
          PROVE  cmd'[c].pc \in {"assert", "rejected"}
      <4>1. CASE Accept(c, s)
        BY <4>1 DEF Accept, Become
      <4>2. CASE Reject(c)
        BY <4>2 DEF Reject, Become
      <4> QED
        BY <3>0, <4>1, <4>2
    <3>1. CASE AssertReady(c, s) \/ AssertNoProcess(c, s)
      BY <3>0, <3>1 DEF AssertReady, AssertNoProcess
    <3>2. CASE AssertUnsupervised(c, s)
      <4>1. CASE Reject(c)
        BY <3>0, <4>1
      <4>2. CASE Become(c, [cmd[c] EXCEPT !.pc = "flock"])
        BY <4>2 DEF Become
      <4> QED
        BY <3>2, <4>1, <4>2 DEF AssertUnsupervised
    <3>3. CASE AssertUnlocked(c, s)
      BY <3>3 DEF AssertUnlocked, Become
    <3>4. CASE Recheck(c, s)
      BY <3>4 DEF Recheck, Become
    <3>5. CASE ForceStop(c, s)
      BY <3>5 DEF ForceStop
    <3>6. CASE GiveUp(c, s)
      BY <3>6 DEF GiveUp, Become
    <3> QED
      BY <1>5, <3>1, <3>2, <3>3, <3>4, <3>5, <3>6
  <2> QED
    BY <2>1, ElseInOrder DEF Taking, Critical
<1>6. CASE HookScan(c, s)
  <2>1. \/ cmd'[c].pc = "hookScan"
        \/ cmd'[c].pc = "after" /\ cmd'[c].locks = {}
    BY <1>6 DEF HookScan, Become
  <2> QED
    BY <2>1, ElseInOrder DEF Taking, Critical
<1>7. CASE DebugFlock(c, s)
  <2>1. CASE DirFree(c, s)
    <3>1. cmd'[c].pc = "exec" /\ cmd'[c].locks = cmd[c].locks /\ cmd[c].pc = "foreground"
      <4>1. UseFlock(c, s, "exec") /\ cmd[c].pc = "foreground"
        BY <1>7, <2>1 DEF DebugFlock
      <4> QED
        BY <4>1 DEF UseFlock
    <3>2. cmd[c].locks = {}
      BY <3>1 DEF TakesInOrder, Critical
    <3> QED
      BY <3>1, <3>2, ElseInOrder DEF Taking
  <2>2. CASE ~DirFree(c, s)
    BY <1>7, <2>2, EndedInOrder DEF DebugFlock, Become
  <2> QED
    BY <2>1, <2>2
<1> QED
  BY <1>1, <1>2, <1>3, <1>4, <1>5, <1>6, <1>7 DEF StepAt

\* What comes after __change_state(): the command ends, or begins anew.
LEMMA TurnInOrder ==
  ASSUME TypeOK, NEW c \in Commands, TakesInOrder(cmd[c]),
         \/ AfterStop(c) \/ AfterStart(c) \/ AfterStopLogs(c) \/ DebugState(c)
  PROVE  TakesInOrder(cmd'[c])
<1>0. cmd[c] \in CommandState /\ cmd \in [Commands -> CommandState]
  BY FieldTypes DEF TypeOK
<1>1. cmd[c].locks = {}
  BY DEF AfterStop, AfterStart, AfterStopLogs, DebugState, Ending, TakesInOrder, Critical
<1>2. ASSUME NEW r \in CommandState, r.locks = {}, NEW job, NEW phase, NEW q, NEW todo,
             cmd' = [cmd EXCEPT ![c] = Begin(r, job, phase, q, todo)]
      PROVE  TakesInOrder(cmd'[c])
  <2>1. cmd'[c] = Begin(r, job, phase, q, todo)
    BY <1>0, <1>2
  <2>2. cmd'[c].locks = {} /\ cmd'[c].left = Range(q) /\ cmd'[c].targets = q
    BY <1>2, <2>1, BeginFields
  <2> QED
    BY <2>2, BeginsInOrder
<1>3. CASE AfterStop(c)
  <2>1. CASE cmd[c].job # "restart"
    BY <1>0, <1>1, <1>2, <1>3, <2>1 DEF AfterStop, Become
  <2>2. CASE cmd[c].job = "restart" /\ cmd[c].failed = <<>>
    BY <1>0, <1>1, <1>2, <1>3, <2>2 DEF AfterStop, Become
  <2>3. CASE cmd[c].job = "restart" /\ cmd[c].failed # <<>>
    BY <1>3, <2>3, EndedInOrder DEF AfterStop, Become
  <2> QED
    BY <2>1, <2>2, <2>3
<1>4. CASE AfterStart(c)
  <2>1. CASE cmd[c].failed = <<>>
    BY <1>4, <2>1, EndedInOrder DEF AfterStart, Become
  <2>2. CASE cmd[c].failed # <<>>
    <3> DEFINE r == [cmd[c] EXCEPT !.failed = <<>>]
    <3>0. <<>> \in Seq(Services)
      OBVIOUS
    <3>1. r \in CommandState /\ r.locks = {}
      <4>1. r \in CommandState
        BY <1>0, <3>0 DEF CommandState
      <4>2. r.locks = cmd[c].locks
        BY <1>0 DEF CommandState
      <4> QED
        BY <1>1, <4>1, <4>2
    <3>2. cmd' = [cmd EXCEPT ![c] = Begin(r, "failStart", "Stop", cmd[c].failed,
                                          Range(cmd[c].failed))]
      BY <1>4, <2>2 DEF AfterStart, Become
    <3> HIDE DEF r
    <3> QED
      BY <1>2, <3>1, <3>2
  <2> QED
    BY <2>1, <2>2
<1>5. CASE AfterStopLogs(c)
  <2>1. CASE \E how : cmd' = [cmd EXCEPT ![c] = Ended(c, how)]
    BY <2>1, EndedInOrder
  <2>2. CASE cmd' = [cmd EXCEPT ![c] = [cmd[c] EXCEPT !.pc = "preStart"]]
    BY <1>0, <1>1, <2>2, ElseInOrder DEF Taking, CommandState
  <2> QED
    BY <1>5, <2>1, <2>2 DEF AfterStopLogs, Become
<1>6. CASE DebugState(c)
  <2>1. CASE cmd' = [cmd EXCEPT ![c] = [cmd[c] EXCEPT !.pc = "preStart"]]
    BY <1>0, <1>1, <2>1, ElseInOrder DEF Taking, CommandState
  <2>2. CASE cmd' = [cmd EXCEPT ![c] = Begin(cmd[c], "debug", "Stop", cmd[c].targets,
                                             Range(cmd[c].targets))]
    BY <1>0, <1>1, <1>2, <2>2
  <2> QED
    BY <1>6, <2>1, <2>2 DEF DebugState, Become
<1> QED
  BY <1>3, <1>4, <1>5, <1>6

\* Any step of a command, and any end of it.
LEMMA StepInOrder ==
  ASSUME TypeOK, NEW c \in Commands, TakesInOrder(cmd[c]),
         Step(c) \/ Failing(c) \/ Crash(c) \/ Killed(c)
  PROVE  TakesInOrder(cmd'[c])
<1>0. cmd[c] \in CommandState /\ cmd \in [Commands -> CommandState]
  BY FieldTypes DEF TypeOK
<1> USE <1>0 DEF CommandState
<1>1. CASE RaiseLockHeld(c) \/ DebugExec(c) \/ Failing(c) \/ Crash(c)
  BY <1>1, EndedInOrder
     DEF RaiseLockHeld, DebugExec, Failing, HookFails, MessageFails, Crash, Become
<1>2. CASE Killed(c)
  <2>1. CASE Active(c)
    BY <1>2, <2>1, EndedInOrder DEF Killed
  <2>2. CASE ~Active(c)
    BY <1>2, <2>2 DEF Killed
  <2> QED
    BY <2>1, <2>2
<1>3. CASE Locked(c) \/ Supervise(c) \/ Changed(c)
  <2>1. cmd'[c].pc \in {"assert", "change", "svcUp"}
    <3>1. CASE Locked(c)
      BY <3>1 DEF Locked, Become
    <3>2. CASE Supervise(c)
      BY <3>2 DEF Supervise, Become
    <3>3. CASE Changed(c)
      BY <3>3 DEF Changed, Become
    <3> QED
      BY <1>3, <3>1, <3>2, <3>3
  <2> QED
    BY <2>1, ElseInOrder DEF Taking, Critical
<1>4. CASE BreakOut(c)
  <2>1. cmd'[c].locks = {} /\ cmd'[c].left = Range(cmd'[c].targets)
    BY <1>4 DEF BreakOut, Become
  <2> QED
    BY <2>1, BeginsInOrder
<1>5. CASE PreStart(c)
  <2>1. /\ cmd'[c].locks = cmd[c].locks /\ cmd'[c].left = Range(cmd'[c].targets)
        /\ cmd[c].pc = "preStart"
    BY <1>5 DEF PreStart, Become
  <2>2. cmd[c].locks = {}
    BY <2>1 DEF TakesInOrder, Critical
  <2> QED
    BY <2>1, <2>2, BeginsInOrder
<1>6. CASE AssertedAll(c)
  <2>1. \/ cmd'[c].pc \in {"change", "hookScan"}
        \/ cmd'[c].pc = "after" /\ cmd'[c].locks = {}
    BY <1>6 DEF AssertedAll, Become
  <2> QED
    BY <2>1, ElseInOrder DEF Taking, Critical
<1>7. CASE AllDown(c)
  <2>1. cmd'[c].pc = "postStop" /\ cmd'[c].locks = {}
    BY <1>7 DEF AllDown, Become
  <2> QED
    BY <2>1, ElseInOrder DEF Taking
<1>8. CASE PostStop(c)
  <2>1. cmd'[c].pc = "after" /\ cmd'[c].locks = cmd[c].locks /\ cmd[c].pc = "postStop"
    BY <1>8 DEF PostStop, Become
  <2>2. cmd[c].locks = {}
    BY <2>1 DEF TakesInOrder, Critical
  <2> QED
    BY <2>1, <2>2, ElseInOrder DEF Taking
<1>9. CASE \E s \in Services : StepAt(c, s)
  BY <1>9, StepAtInOrder
<1>10. CASE AfterStop(c) \/ AfterStart(c) \/ AfterStopLogs(c) \/ DebugState(c)
  BY <1>10, TurnInOrder
<1> QED
  BY <1>1, <1>2, <1>3, <1>4, <1>5, <1>6, <1>7, <1>8, <1>9, <1>10 DEF Step

\* A command that is invoked has no lock.
LEMMA FirstInOrder ==
  ASSUME NEW r \in CommandState, r.locks = {}, NEW job, NEW q
  PROVE  TakesInOrder(FirstPhase(r, job, q))
<1>1. CASE job = "debug"
  <2>1. FirstPhase(r, job, q).pc = "debugState" /\ FirstPhase(r, job, q).locks = {}
    BY <1>1 DEF FirstPhase, CommandState
  <2> QED
    BY <2>1, ElseInOrder DEF Taking
<1>2. CASE job # "debug"
  <2>1. PICK phase : FirstPhase(r, job, q) = Begin(r, job, phase, q, Range(q))
    BY <1>2 DEF FirstPhase
  <2>2. LET b == Begin(r, job, phase, q, Range(q))
        IN  b.locks = {} /\ b.left = Range(q) /\ b.targets = q
    BY BeginFields
  <2> QED
    BY <2>1, <2>2, BeginsInOrder
<1> QED
  BY <1>1, <1>2

\* An invocation.
LEMMA InvokedInOrder ==
  ASSUME TypeOK, NEW c \in Commands, Invocation(c)
  PROVE  TakesInOrder(cmd'[c])
<1>1. ASSUME NEW r \in CommandState, r.locks = {}, NEW job, NEW q,
             Become(c, FirstPhase(r, job, q))
      PROVE  TakesInOrder(cmd'[c])
  <2>1. cmd'[c] = FirstPhase(r, job, q)
    BY <1>1 DEF Become, TypeOK
  <2> QED
    BY <1>1, <2>1, FirstInOrder
<1>2. ASSUME NEW job \in Jobs, NEW q \in Requests, NEW f \in Forces, Invoke(c, job, q, f)
      PROVE  TakesInOrder(cmd'[c])
  <2>1. [Idle EXCEPT !.force = f] \in CommandState /\ [Idle EXCEPT !.force = f].locks = {}
    BY IdleType, PgctlAssumption DEF CommandState, Idle
  <2> QED
    BY <1>1, <1>2, <2>1 DEF Invoke
<1>3. ASSUME NEW o \in Services
      PROVE  /\ [Idle EXCEPT !.origin = o, !.inherits = TRUE] \in CommandState
             /\ [Idle EXCEPT !.origin = o, !.inherits = TRUE].locks = {}
  BY IdleType DEF CommandState, Idle
<1>4. ASSUME NEW o \in Services, NEW job \in Jobs, NEW q \in Requests,
             InvokeNested(c, o, job, q)
      PROVE  TakesInOrder(cmd'[c])
  BY <1>1, <1>3, <1>4 DEF InvokeNested
<1>5. ASSUME NEW s \in Services, PollRestart(c, s)
      PROVE  TakesInOrder(cmd'[c])
  BY <1>1, <1>3, <1>5 DEF PollRestart
<1> QED
  BY <1>2, <1>4, <1>5 DEF Invocation

(***************************************************************************)
(* Theorems.                                                               *)
(***************************************************************************)
\* Every command takes its locks in the order of its request, and none
\* while it still has some of an earlier critical section.
THEOREM LocksInOrder == Spec => []LockOrderInv
<1>1. Init => LockOrderInv
  <2> SUFFICES ASSUME Init, NEW c \in Commands PROVE TakesInOrder(cmd[c])
    BY DEF LockOrderInv
  <2>1. cmd[c].pc = "idle" /\ cmd[c].locks = {}
    BY DEF Init, Idle
  <2> QED
    BY <2>1, ElseInOrder DEF Taking
<1>2. TypeOK /\ SafetyInv /\ LockOrderInv /\ [Next]_vars => LockOrderInv'
  <2> SUFFICES ASSUME TypeOK, SafetyInv, LockOrderInv, [Next]_vars, NEW d \in Commands
               PROVE  TakesInOrder(cmd'[d])
    BY DEF LockOrderInv
  <2>0. TakesInOrder(cmd[d])
    BY DEF LockOrderInv
  <2>1. ASSUME NEW c \in Commands,
               Invocation(c) \/ Step(c) \/ Failing(c) \/ Killed(c) \/ Crash(c)
        PROVE  TakesInOrder(cmd'[d])
    <3>1. CASE d = c
      BY <2>0, <2>1, <3>1, StepInOrder, InvokedInOrder
    <3>2. CASE d # c
      <4>1. CommandOK(cmd[c])
        BY DEF SafetyInv, CommandInv, CommandOK
      <4>2. cmd'[d] = cmd[d]
        BY <2>1, <3>2, <4>1, StepFrame, InvocationFrame DEF Frame
      <4> QED
        BY <2>0, <4>2
    <3> QED
      BY <3>1, <3>2
  <2>2. CASE UNCHANGED cmd
    BY <2>0, <2>2
  <2> QED
    BY <2>1, <2>2 DEF Next, vars
<1> QED
  BY <1>1, <1>2, Typing, Safety, PTL DEF Spec

\* Ranks do not rise for ever.
LEMMA NoAscent ==
  ASSUME NEW S, NEW n \in Nat, NEW rank \in [S -> 1..n],
         NEW W, W \subseteq S, W # {}
  PROVE  \E s \in W : \A t \in W : ~(rank[s] < rank[t])
<1> DEFINE below == {n - rank[s] : s \in W}
<1>1. below \subseteq Nat /\ below # {}
  <2>1. ASSUME NEW s \in W PROVE n - rank[s] \in Nat
    <3>1. rank[s] \in 1..n
      OBVIOUS
    <3> QED
      BY <3>1
  <2> QED
    BY <2>1
<1>2. PICK k \in below : \A l \in below : <<l, k>> \notin OpToRel(<, Nat)
  <2> HIDE DEF below
  <2> QED
    BY <1>1, WFMin, NatLessThanWellFounded, Zenon
<1>3. \A l \in below : ~(l < k)
  <2> HIDE DEF below
  <2>1. ASSUME NEW l \in below, l < k PROVE <<l, k>> \in OpToRel(<, Nat)
    <3>1. l \in Nat /\ k \in Nat
      BY <1>1
    <3> QED
      BY <2>1, <3>1, Zenon DEF OpToRel
  <2> QED
    BY <1>2, <2>1
<1>4. PICK s \in W : k = n - rank[s]
  OBVIOUS
<1>5. ASSUME NEW t \in W PROVE ~(rank[s] < rank[t])
  <2>1. rank[s] \in 1..n /\ rank[t] \in 1..n
    OBVIOUS
  <2>2. ~(n - rank[t] < n - rank[s])
    BY <1>3, <1>4
  <2> QED
    BY <2>1, <2>2
<1> QED
  BY <1>5

\* What a command has is in front of what it takes next, in every order that
\* its request follows.
LEMMA NextIsHigher ==
  ASSUME TypeOK, LockOrderInv, NEW d \in Commands, cmd[d].pc \in Taking,
         NEW n \in Nat, NEW rank \in [Services -> 1..n], Follows(d, rank),
         NEW s \in cmd[d].locks, NEW t \in cmd[d].left
  PROVE  rank[s] < rank[t]
<1> DEFINE q == cmd[d].targets
<1>1. q \in Seq(Services)
  BY FieldTypes
<1>2. /\ s \in Range(q) /\ t \in Range(q)
      /\ Position(q, s) < Position(q, t)
  BY DEF LockOrderInv, TakesInOrder, Taking
<1>3. \A i, j \in DOMAIN q : i < j => rank[q[i]] < rank[q[j]]
  BY DEF Follows
<1> HIDE DEF q
<1>4. /\ Position(q, s) \in DOMAIN q /\ q[Position(q, s)] = s
      /\ Position(q, t) \in DOMAIN q /\ q[Position(q, t)] = t
  BY <1>1, <1>2, PositionIs
<1> QED
  BY <1>2, <1>3, <1>4

\* Any number of commands that list their services in one order are never
\* turned away in a circle: whoever wants the service of the highest rank that is
\* wanted and taken, the command that has it does not wait for one of them.
THEOREM SomeoneGoesOn == Spec => []NoCircle
<1>1. TypeOK /\ LockOrderInv => NoCircle
  <2> SUFFICES ASSUME TypeOK, LockOrderInv,
                      NEW rank \in [Services -> 1..Cardinality(Services)],
                      NEW group \in SUBSET Commands, group # {},
                      \A c \in group : Follows(c, rank),
                      \A c \in group : \E d \in group : TurnsAway(d, c)
               PROVE  FALSE
    BY DEF NoCircle
  <2>0. \E c \in group : TRUE
    OBVIOUS
  <2> DEFINE Wants(c, s) == cmd[c].pc \in Taking /\ s \in cmd[c].left
             wanted == {s \in Services : \E c, d \in group : Wants(c, s) /\ s \in cmd[d].locks}
  <2>1. Cardinality(Services) \in Nat
    BY FS_CardinalityType, PlaygroundAssumption
  <2>2. ASSUME NEW c \in group
        PROVE  \E s \in wanted : Wants(c, s)
    <3>1. PICK d \in group : TurnsAway(d, c)
      OBVIOUS
    <3> QED
      BY <3>1 DEF TurnsAway, IsNext, Taking
  <2>3. wanted # {} /\ wanted \subseteq Services
    <3>1. PICK c \in group : TRUE
      BY <2>0
    <3>2. PICK s \in wanted : Wants(c, s)
      BY <2>2
    <3> QED
      BY <3>2
  <2>4. PICK s \in wanted : \A t \in wanted : ~(rank[s] < rank[t])
    <3> HIDE DEF wanted
    <3> QED
      BY <2>1, <2>3, NoAscent
  <2>5. PICK d \in group : s \in cmd[d].locks
    OBVIOUS
  <2>6. PICK t \in wanted : Wants(d, t)
    BY <2>2
  <2>7. rank[s] < rank[t]
    BY <2>1, <2>5, <2>6, NextIsHigher
  <2> QED
    BY <2>4, <2>7
<1> QED
  BY <1>1, LocksInOrder, Typing, PTL

(***************************************************************************)
(* Commands that only stop: the post-stop hook.                            *)
(***************************************************************************)
\* Nothing but s6-supervise answers for a service.
NoneSupervised == \A s \in Services : "sup" \notin procs[s]

\* What a step of command c may do: a service that it sends down it waits for, and
\* once it waits for a service it does so until that is down, and then scans.
Heeds(c) ==
  /\ Stops(cmd'[c])
  /\ \A s \in Services :
       /\ superv'[s] # superv[s] =>
            superv'[s] = "exiting" /\ SvOk(s) /\ s \in WaitsFor(cmd'[c])
       /\ "sup" \in dying'[s] => "sup" \in dying[s] \/ s \in WaitsFor(cmd'[c])
       /\ s \in WaitsFor(cmd[c]) /\ "sup" \in procs[s]
            => Lost(cmd'[c]) \/ s \in WaitsFor(cmd'[c])
  /\ WillScan(cmd[c]) /\ NoneSupervised
       => Lost(cmd'[c]) \/ cmd'[c].hook \/ WillScan(cmd'[c])
  /\ cmd[c].hook => cmd'[c].hook
  /\ Lost(cmd[c]) => Lost(cmd'[c])

\* A command that stops services, at work.
LEMMA NotIdle ==
  ASSUME NEW c \in Commands, Stops(cmd[c]), cmd[c].pc \notin {"idle", "done"}
  PROVE  /\ cmd[c].pc \in (Critical \ {"spawn", "svcUp"})
                            \cup {"lock", "lockHeld", "postStop", "after"}
         /\ cmd[c].phase # "Start" /\ cmd[c].job = "stop" /\ cmd[c].force /\ ~Lost(cmd[c])
         /\ cmd[c].pc = "change" => cmd[c].mode = "change"
<1>1. Idle.pc = "idle"
  BY DEF Idle
<1> QED
  BY <1>1 DEF Stops

\* A command that ends, but not while it waits or scans, unless it is killed.
LEMMA EndedHeeds ==
  ASSUME TypeOK, NEW c \in Commands, NEW how,
         cmd' = [cmd EXCEPT ![c] = Ended(c, how)],
         UNCHANGED <<superv, dying>>,
         how \in {"killed", "crashed"} \/ (~WillScan(cmd[c]) /\ ~Lost(cmd[c]))
  PROVE  Heeds(c)
<1>1. cmd'[c] = Ended(c, how)
  BY DEF TypeOK
<1>2. /\ Ended(c, how).pc = "done" /\ Ended(c, how).hook = cmd[c].hook
      /\ Ended(c, how).result = how
  BY DEF Ended, Idle
<1> QED
  BY <1>1, <1>2 DEF Heeds, Stops, WaitsFor, Lost

\* A service whose processes have been scanned for in vain has no s6-supervise.
LEMMA ScannedGone ==
  ASSUME NEW s \in Services, RolesSeen(s) = {}
  PROVE  "sup" \notin procs[s]
BY DEF RolesSeen, HaveOpen, FdRoles, Roles

\* Without s6-supervise a service is down.
LEMMA NoneIsDown ==
  ASSUME NEW s \in Services, "sup" \notin procs[s]
  PROVE  Down(s)
BY DEF Down, SvState, SvStat, SvOk

\* A service that has not reached its state is waited for.
LEMMA RejectHeeds ==
  ASSUME TypeOK, NEW c \in Commands, Stops(cmd[c]), cmd[c].pc \in {"assert", "scan"},
         Reject(c), UNCHANGED pgVars
  PROVE  Heeds(c)
<1>1. /\ cmd[c] \in CommandState /\ cmd \in [Commands -> CommandState]
      /\ cmd[c].phase # "Start" /\ cmd[c].job = "stop" /\ cmd[c].force /\ ~Lost(cmd[c])
  BY NotIdle, FieldTypes DEF TypeOK
<1>2. cmd'[c] = [cmd[c] EXCEPT !.pc = "rejected", !.flocked = NoOne]
  BY <1>1 DEF Reject, Become
<1>3. Stops(cmd'[c])
  BY <1>1, <1>2 DEF Stops, CommandState, Critical, Lost
<1>4. /\ cmd'[c].hook = cmd[c].hook /\ WillScan(cmd'[c]) = WillScan(cmd[c])
      /\ WaitsFor(cmd'[c]) = WaitsFor(cmd[c])
  BY <1>1, <1>2 DEF CommandState, WillScan, WaitsFor, Critical
<1> QED
  BY <1>1, <1>3, <1>4 DEF Heeds, pgVars

\* A step for one of the services.
LEMMA StepAtHeeds ==
  ASSUME TypeOK, NEW c \in Commands, NEW s \in Services, Stops(cmd[c]), CourseOK(cmd[c]),
         StepAt(c, s)
  PROVE  Heeds(c)
<1>0. /\ cmd[c] \in CommandState /\ cmd \in [Commands -> CommandState]
      /\ superv \in [Services -> {"booting", "serving", "exiting"}]
      /\ dying \in [Services -> SUBSET Roles]
  BY FieldTypes DEF TypeOK, PgTypeOK
<1>a. cmd[c].pc \notin {"idle", "done"}
  BY DEF StepAt, TakeLock, FindLockHeld, CleanUp, FindSupervised, TakeFlock, FindRunaway,
         BringUp, BringDown, KillLogger, AssertReady, AssertUnsupervised, AssertUnlocked,
         AssertNoProcess, Recheck, ForceStop, GiveUp, HookScan, DebugFlock, Changing,
         Asserting, Rejected
<1>b. /\ cmd[c].pc \in (Critical \ {"spawn", "svcUp"})
                         \cup {"lock", "lockHeld", "postStop", "after"}
      /\ cmd[c].phase # "Start" /\ cmd[c].job = "stop" /\ cmd[c].force /\ ~Lost(cmd[c])
      /\ cmd[c].pc = "change" => cmd[c].mode = "change"
  BY <1>a, NotIdle
<1>c. cmd[c].mode = "change" /\ cmd[c].pc \in Critical \ {"hookScan"} => cmd[c].left \subseteq cmd[c].todo
  BY DEF CourseOK, VisitsTodo
<1> USE <1>0, <1>b DEF Heeds, Stops, WillScan, WaitsFor, Critical, Lost, Become, pgVars,
                       CommandState
<1>1. CASE TakeLock(c, s)
  BY <1>1 DEF TakeLock
<1>2. CASE FindLockHeld(c, s)
  BY <1>2 DEF FindLockHeld
<1>3. CASE BringDown(c, s)
  <2>1. /\ cmd[c].pc = "change" /\ cmd[c].phase = "Stop" /\ s \in cmd[c].left
        /\ SvcDownExit(s) /\ cmd' = [cmd EXCEPT ![c] = [cmd[c] EXCEPT !.pc = "change", !.left = @ \ {s}]]
    BY <1>3 DEF BringDown, Changing, IsNext, Visited
  <2>2. s \in WaitsFor(cmd'[c]) /\ WaitsFor(cmd'[c]) = WaitsFor(cmd[c])
    BY <1>c, <2>1
  <2>3. \A t \in Services : superv'[t] # superv[t] => t = s /\ superv'[t] = "exiting" /\ SvOk(s)
    BY <2>1 DEF SvcDownExit
  <2>4. dying' = dying
    BY <2>1 DEF SvcDownExit
  <2>5. Stops(cmd'[c]) /\ WillScan(cmd'[c]) /\ cmd'[c].hook = cmd[c].hook
    BY <2>1
  <2> QED
    BY <2>2, <2>3, <2>4, <2>5
<1>4. CASE KillLogger(c, s)
  BY <1>4 DEF KillLogger, Changing, IsNext, Visited, SvcKillLog
<1>5. CASE AssertUnsupervised(c, s)
  <2>1. CASE cmd' = [cmd EXCEPT ![c] = [cmd[c] EXCEPT !.pc = "flock"]]
    BY <1>5, <2>1 DEF AssertUnsupervised, Asserting
  <2>2. CASE Reject(c)
    BY <1>5, <2>2, RejectHeeds DEF AssertUnsupervised, Asserting
  <2> QED
    BY <1>5, <2>1, <2>2 DEF AssertUnsupervised
<1>6. CASE AssertUnlocked(c, s)
  <2>1. CASE DirFree(c, s)
    BY <1>6, <2>1 DEF AssertUnlocked, Asserting
  <2>2. CASE ~DirFree(c, s)
    BY <1>6, <2>2 DEF AssertUnlocked, Asserting
  <2> QED
    BY <2>1, <2>2
<1>7. CASE AssertNoProcess(c, s)
  <2>1. CASE RolesSeen(s) = {} /\ CommandsSeen(c, s) = {}
    <3>1. "sup" \notin procs[s]
      BY <2>1, ScannedGone
    <3>2. /\ UNCHANGED <<superv, dying>> /\ cmd[c].pc = "scan"
          /\ cmd'[c] = [cmd[c] EXCEPT !.pc = "assert", !.flocked = NoOne, !.left = @ \ {s},
                                      !.todo = IF cmd[c].mode = "change" THEN @ \ {s} ELSE @]
      BY <1>7, <2>1 DEF AssertNoProcess, Asserting, Accept
    <3>3. CASE cmd[c].mode = "change"
      <4>1. cmd'[c] = [cmd[c] EXCEPT !.pc = "assert", !.flocked = NoOne, !.left = @ \ {s},
                                     !.todo = @ \ {s}]
        BY <3>2, <3>3
      <4> QED
        BY <3>1, <3>2, <3>3, <4>1
    <3>4. CASE cmd[c].mode # "change"
      <4>1. cmd'[c] = [cmd[c] EXCEPT !.pc = "assert", !.flocked = NoOne, !.left = @ \ {s}]
        BY <3>2, <3>4
      <4> QED
        BY <3>2, <3>4, <4>1
    <3> QED
      BY <3>3, <3>4
  <2>2. CASE ~(RolesSeen(s) = {} /\ CommandsSeen(c, s) = {})
    BY <1>7, <2>2, RejectHeeds DEF AssertNoProcess, Asserting
  <2> QED
    BY <2>1, <2>2
<1>8. CASE Recheck(c, s)
  BY <1>8 DEF Recheck, Rejected
<1>9. CASE ForceStop(c, s)
  <2>1. /\ cmd[c].pc = "rejected" /\ cmd[c].mode = "change" /\ s \in cmd[c].left
        /\ cmd[c].phase = "Stop" /\ KillSeen(s)
        /\ cmd' = [cmd EXCEPT ![c].pc = "assert", ![c].left = @ \ {s}]
    BY <1>9 DEF ForceStop, Rejected, FailsByForce, IsNext, ForceCleanup
  <2>2. s \in WaitsFor(cmd'[c]) /\ WaitsFor(cmd'[c]) = WaitsFor(cmd[c])
    BY <1>c, <2>1
  <2>3. \A t \in Services : dying'[t] # dying[t] => t = s
    BY <2>1 DEF KillSeen
  <2>4. superv' = superv
    BY <2>1 DEF KillSeen
  <2>5. Stops(cmd'[c]) /\ WillScan(cmd'[c]) /\ cmd'[c].hook = cmd[c].hook
    BY <2>1
  <2> QED
    BY <2>2, <2>3, <2>4, <2>5
<1>10. CASE GiveUp(c, s)
  <2>1. cmd[c].phase = "StopLogs" /\ UNCHANGED <<superv, dying>> /\ cmd[c].pc = "rejected"
    BY <1>10 DEF GiveUp, Rejected, FailsByForce
  <2>2. cmd'[c] = [cmd[c] EXCEPT !.pc = "assert", !.left = @ \ {s}, !.todo = @ \ {s},
                                 !.failed = Append(@, s)]
    BY <1>10 DEF GiveUp
  <2> QED
    BY <2>1, <2>2
<1>11. CASE HookScan(c, s)
  <2>1. CASE Down(s)
    BY <1>11, <2>1 DEF HookScan
  <2>2. CASE ~Down(s)
    <3>1. ~NoneSupervised
      BY <2>2, NoneIsDown DEF NoneSupervised
    <3> QED
      BY <1>11, <2>2, <3>1 DEF HookScan
  <2> QED
    BY <2>1, <2>2
<1>12. CASE CleanUp(c, s) \/ FindSupervised(c, s) \/ TakeFlock(c, s) \/ FindRunaway(c, s)
            \/ BringUp(c, s) \/ AssertReady(c, s) \/ DebugFlock(c, s)
  BY <1>12 DEF CleanUp, FindSupervised, TakeFlock, FindRunaway, BringUp, AssertReady,
               DebugFlock, Changing, Asserting
<1> QED
  BY <1>1, <1>2, <1>3, <1>4, <1>5, <1>6, <1>7, <1>8, <1>9, <1>10, <1>11, <1>12 DEF StepAt

\* A step of a command that stops services, or its end.
LEMMA StepHeeds ==
  ASSUME OnlyStops, TypeOK, NEW c \in Commands, Stops(cmd[c]), CourseOK(cmd[c]),
         Step(c) \/ Failing(c) \/ Crash(c) \/ Killed(c)
  PROVE  Heeds(c)
<1>0. /\ cmd[c] \in CommandState /\ cmd \in [Commands -> CommandState]
      /\ cmd[c].todo \in SUBSET Services
  BY FieldTypes DEF TypeOK
<1>1. CASE Killed(c)
  <2>1. CASE Active(c)
    BY <1>1, <2>1, EndedHeeds DEF Killed, pgVars
  <2>2. CASE ~Active(c)
    <3>1. cmd' = cmd /\ UNCHANGED <<superv, dying>>
      BY <1>0, <1>1, <2>2 DEF Killed, pgVars
    <3> QED
      BY <3>1 DEF Heeds
  <2> QED
    BY <2>1, <2>2
<1>2. CASE Crash(c)
  BY <1>2, EndedHeeds DEF Crash, Become, pgVars
<1>3. CASE \E s \in Services : StepAt(c, s)
  BY <1>3, StepAtHeeds
<1>4. CASE cmd[c].pc \in {"idle", "done"} /\ ~Killed(c)
  <2>1. ~(\E s \in Services : StepAt(c, s)) /\ ~Crash(c) /\ ~Failing(c)
    BY <1>4
       DEF StepAt, TakeLock, FindLockHeld, CleanUp, FindSupervised, TakeFlock, FindRunaway,
           BringUp, BringDown, KillLogger, AssertReady, AssertUnsupervised, AssertUnlocked,
           AssertNoProcess, Recheck, ForceStop, GiveUp, HookScan, DebugFlock, Changing,
           Asserting, Rejected, Crash, Active, Failing, HookFails, MessageFails
  <2>2. ~Step(c)
    BY <1>4, <2>1
       DEF Step, RaiseLockHeld, Locked, Supervise, Changed, BreakOut, AssertedAll, PreStart,
           AllDown, PostStop, AfterStop, AfterStart, AfterStopLogs, DebugState, DebugExec,
           Ending
  <2> QED
    BY <1>4, <2>1, <2>2
<1>5. CASE cmd[c].pc \notin {"idle", "done"} /\ (Failing(c) \/ Step(c)) /\ ~\E s \in Services : StepAt(c, s)
  <2>1. /\ cmd[c].pc \in (Critical \ {"spawn", "svcUp"})
                           \cup {"lock", "lockHeld", "postStop", "after"}
        /\ cmd[c].phase # "Start" /\ cmd[c].job = "stop" /\ cmd[c].force /\ ~Lost(cmd[c])
        /\ cmd[c].pc = "change" => cmd[c].mode = "change"
    BY <1>5, NotIdle
  <2>2. CASE Failing(c)
    <3>1. HookFails(c)
      BY <2>2 DEF Failing, MessageFails, OnlyStops
    <3>2. cmd[c].pc = "postStop" /\ cmd' = [cmd EXCEPT ![c] = Ended(c, "failed")]
          /\ UNCHANGED <<superv, dying>>
      BY <2>1, <3>1 DEF HookFails, Become, pgVars, Critical
    <3>3. ~WillScan(cmd[c])
      BY <3>2 DEF WillScan, Critical
    <3> QED
      BY <2>1, <3>2, <3>3, EndedHeeds
  <2>3. CASE RaiseLockHeld(c)
    <3>1. ~WillScan(cmd[c]) /\ UNCHANGED <<superv, dying>>
          /\ cmd' = [cmd EXCEPT ![c] = Ended(c, "lockHeld")]
      BY <2>3 DEF RaiseLockHeld, WillScan, Critical, Become, pgVars
    <3> QED
      BY <2>1, <3>1, EndedHeeds
  <2>4. CASE AfterStopLogs(c)
    <3>1. ~WillScan(cmd[c]) /\ UNCHANGED <<superv, dying>>
      BY <2>4 DEF AfterStopLogs, Ending, WillScan, Critical, pgVars
    <3>2. \E how : cmd' = [cmd EXCEPT ![c] = Ended(c, how)]
      BY <2>1, <2>4 DEF AfterStopLogs, Become
    <3> QED
      BY <2>1, <3>1, <3>2, EndedHeeds
  <2>5. CASE AfterStop(c)
    <3>1. /\ cmd[c].pc = "after" /\ UNCHANGED <<superv, dying>>
          /\ cmd'[c] = Begin(cmd[c], "stop", "StopLogs", cmd[c].targets,
                             Range(cmd[c].targets) \ Range(cmd[c].failed))
      BY <1>0, <2>1, <2>5 DEF AfterStop, Ending, Become, pgVars
    <3>2. /\ cmd'[c].pc = "lock" /\ cmd'[c].phase = "StopLogs" /\ cmd'[c].job = "stop"
          /\ cmd'[c].force = cmd[c].force /\ cmd'[c].result = cmd[c].result
          /\ cmd'[c].hook = cmd[c].hook
      BY <1>0, <3>1 DEF Begin, CommandState
    <3> QED
      BY <2>1, <3>1, <3>2 DEF Heeds, Stops, WillScan, WaitsFor, Critical, Lost
  <2>6. CASE AssertedAll(c)
    <3>1. cmd[c].pc = "assert" /\ UNCHANGED <<superv, dying>>
      BY <2>6 DEF AssertedAll, pgVars
    <3>2. CASE cmd[c].mode = "change" /\ cmd[c].todo # {}
      <4>1. cmd'[c] = [cmd[c] EXCEPT !.pc = "change", !.left = cmd[c].todo]
        BY <1>0, <2>6, <3>2 DEF AssertedAll, Become
      <4> QED
        BY <1>0, <2>1, <3>1, <3>2, <4>1
           DEF Heeds, Stops, WillScan, WaitsFor, Critical, Lost, CommandState
    <3>3. CASE cmd[c].mode = "change" /\ cmd[c].todo = {} /\ cmd[c].phase = "Stop"
      <4>1. cmd'[c] = [cmd[c] EXCEPT !.pc = "hookScan", !.left = Services]
        BY <1>0, <2>6, <3>3 DEF AssertedAll, Become
      <4> QED
        BY <1>0, <2>1, <3>1, <3>3, <4>1
           DEF Heeds, Stops, WillScan, WaitsFor, Critical, Lost, CommandState
    <3>4. CASE ~(cmd[c].mode = "change" /\ (cmd[c].todo # {} \/ cmd[c].phase = "Stop"))
      <4>1. cmd'[c] = [cmd[c] EXCEPT !.pc = "after", !.locks = {}]
        BY <1>0, <2>6, <3>4 DEF AssertedAll, Become
      <4> QED
        BY <1>0, <2>1, <3>1, <3>4, <4>1
           DEF Heeds, Stops, WillScan, WaitsFor, Critical, Lost, CommandState
    <3> QED
      BY <3>2, <3>3, <3>4
  <2>7. CASE Locked(c)
    <3>1. CASE cmd[c].mode = "check"
      BY <1>0, <2>1, <2>7, <3>1
         DEF Locked, Become, pgVars, Heeds, Stops, WillScan, WaitsFor, Critical, Lost, CommandState
    <3>2. CASE cmd[c].mode # "check"
      BY <1>0, <2>1, <2>7, <3>2
         DEF Locked, Become, pgVars, Heeds, Stops, WillScan, WaitsFor, Critical, Lost, CommandState
    <3> QED
      BY <3>1, <3>2
  <2>8. CASE Changed(c)
    BY <1>0, <2>1, <2>8
       DEF Changed, Become, pgVars, Heeds, Stops, WillScan, WaitsFor, Critical, Lost, CommandState
  <2>9. CASE BreakOut(c)
    BY <1>0, <2>1, <2>9
       DEF BreakOut, Become, pgVars, Heeds, Stops, WillScan, WaitsFor, Critical, Lost, CommandState
  <2>10. CASE AllDown(c)
    BY <1>0, <2>1, <2>10
       DEF AllDown, Become, pgVars, Heeds, Stops, WillScan, WaitsFor, Critical, Lost, CommandState
  <2>11. CASE PostStop(c)
    BY <1>0, <2>1, <2>11
       DEF PostStop, Become, pgVars, Heeds, Stops, WillScan, WaitsFor, Critical, Lost, CommandState
  <2>12. CASE Supervise(c) \/ PreStart(c) \/ AfterStart(c) \/ DebugState(c) \/ DebugExec(c)
    BY <2>1, <2>12
       DEF Supervise, PreStart, AfterStart, Ending, DebugState, DebugExec, Critical
  <2> QED
    BY <1>5, <2>2, <2>3, <2>4, <2>5, <2>6, <2>7, <2>8, <2>9, <2>10, <2>11, <2>12 DEF Step
<1> QED
  BY <1>1, <1>2, <1>3, <1>4, <1>5

(***************************************************************************)
(* HookInv is inductive.                                                   *)
(***************************************************************************)
\* A step of a command, or its end.
LEMMA CommandStepHooks ==
  ASSUME OnlyStops, TypeOK, SafetyInv, StopInv, HookInv, NEW c \in Commands,
         Step(c) \/ Failing(c) \/ Crash(c) \/ Killed(c)
  PROVE  HookInv'
<1>1. Stops(cmd[c]) /\ CourseOK(cmd[c]) /\ CommandOK(cmd[c])
  BY DEF HookInv, StopInv, SafetyInv, CommandInv, CommandOK
<1>2. Heeds(c)
  BY <1>1, StepHeeds
<1>3. \A d \in Commands \ {c} : cmd'[d] = cmd[d]
  BY <1>1, StepFrame DEF Frame
<1>4. procs' = procs
  <2>1. cmd[c].pc \notin {"spawn", "exec"}
    BY <1>1 DEF Stops, Idle, Critical
  <2> QED
    BY <2>1, StepProcs
<1>5. \A d \in Commands : Stops(cmd'[d])
  BY <1>2, <1>3 DEF Heeds, HookInv
<1>6. \A s \in Services : "sup" \in procs'[s] => superv'[s] # "booting"
  BY <1>2, <1>4 DEF Heeds, HookInv
<1>7. ASSUME NEW s \in Services, "sup" \in procs[s], superv'[s] = "exiting" \/ "sup" \in dying'[s]
      PROVE  \E d \in Commands : Lost(cmd'[d]) \/ s \in WaitsFor(cmd'[d])
  <2>1. CASE GoingDown(s)
    <3>1. PICK d \in Commands : Lost(cmd[d]) \/ s \in WaitsFor(cmd[d])
      BY <2>1 DEF HookInv
    <3> QED
      BY <1>2, <1>3, <1>7, <3>1 DEF Heeds
  <2>2. CASE ~GoingDown(s)
    <3>1. s \in WaitsFor(cmd'[c])
      BY <1>2, <1>7, <2>2 DEF Heeds, GoingDown
    <3> QED
      BY <3>1
  <2> QED
    BY <2>1, <2>2
<1>8. ASSUME \A s \in Services : "sup" \notin procs[s]
      PROVE  \E d \in Commands : Lost(cmd'[d]) \/ cmd'[d].hook \/ WillScan(cmd'[d])
  <2>1. PICK d \in Commands : Lost(cmd[d]) \/ cmd[d].hook \/ WillScan(cmd[d])
    BY <1>8 DEF HookInv
  <2> QED
    BY <1>2, <1>3, <1>8, <2>1 DEF Heeds, NoneSupervised
<1> QED
  BY <1>4, <1>5, <1>6, <1>7, <1>8 DEF HookInv, GoingDown

\* A new command begins to stop its services.
LEMMA InvocationHooks ==
  ASSUME OnlyStops, TypeOK, HookInv, NEW c \in Commands, Invocation(c)
  PROVE  HookInv'
<1>1. \E r \in CommandState, q \in Requests :
        /\ r.force /\ r.result = "none"
        /\ cmd' = [cmd EXCEPT ![c] = FirstPhase(r, "stop", q)]
  <2>1. ~\E s \in Services : PollRestart(c, s)
    BY DEF OnlyStops, PollRestart
  <2>2. ASSUME NEW q \in Requests, NEW f \in Forces, Invoke(c, "stop", q, f)
        PROVE  \E r \in CommandState : /\ r.force /\ r.result = "none"
                 /\ cmd' = [cmd EXCEPT ![c] = FirstPhase(r, "stop", q)]
    <3>1. f = TRUE
      BY PgctlAssumption DEF OnlyStops
    <3> DEFINE r == [Idle EXCEPT !.force = f]
    <3>2. r \in CommandState /\ r.force /\ r.result = "none"
      BY <3>1, IdleType DEF Idle, CommandState
    <3>3. cmd' = [cmd EXCEPT ![c] = FirstPhase(r, "stop", q)]
      BY <2>2 DEF Invoke, Become
    <3> QED
      BY <3>2, <3>3
  <2>3. ASSUME NEW o \in Services, NEW q \in Requests, InvokeNested(c, o, "stop", q)
        PROVE  \E r \in CommandState : /\ r.force /\ r.result = "none"
                 /\ cmd' = [cmd EXCEPT ![c] = FirstPhase(r, "stop", q)]
    <3> DEFINE r == [Idle EXCEPT !.origin = o, !.inherits = TRUE]
    <3>1. r \in CommandState /\ r.force /\ r.result = "none"
      BY IdleType DEF Idle, CommandState
    <3>2. cmd' = [cmd EXCEPT ![c] = FirstPhase(r, "stop", q)]
      BY <2>3 DEF InvokeNested, Become
    <3> QED
      BY <3>1, <3>2
  <2> QED
    BY <2>1, <2>2, <2>3 DEF Invocation, OnlyStops
<1>2. PICK r \in CommandState, q \in Requests :
        /\ r.force /\ r.result = "none"
        /\ cmd' = [cmd EXCEPT ![c] = FirstPhase(r, "stop", q)]
  BY <1>1
<1>3. FirstPhase(r, "stop", q) = Begin(r, "stop", "Stop", q, Range(q))
  BY DEF FirstPhase
<1>4. /\ cmd'[c] = Begin(r, "stop", "Stop", q, Range(q))
      /\ \A d \in Commands \ {c} : cmd'[d] = cmd[d]
  BY <1>2, <1>3 DEF TypeOK
<1>5. /\ cmd'[c].pc = "lock" /\ cmd'[c].phase = "Stop" /\ cmd'[c].job = "stop"
      /\ cmd'[c].force /\ cmd'[c].result = "none"
  <2>1. PICK b : b = Begin(r, "stop", "Stop", q, Range(q))
    OBVIOUS
  <2>2. /\ b.pc = "lock" /\ b.phase = "Stop" /\ b.job = "stop"
        /\ b.force = r.force /\ b.result = r.result
    BY <2>1 DEF Begin, CommandState
  <2> QED
    BY <1>2, <1>4, <2>1, <2>2
<1>6. cmd[c].pc = "idle" /\ UNCHANGED pgVars
  BY DEF OnlyStops, Invocation, Invoke, InvokeNested, PollRestart, MayInvoke
<1>7. cmd[c] = Idle
  BY <1>6 DEF HookInv, Stops, Critical
<1>8. ~Lost(cmd[c]) /\ ~cmd[c].hook /\ ~WillScan(cmd[c]) /\ WaitsFor(cmd[c]) = {}
  BY <1>7 DEF Idle, Lost, WillScan, WaitsFor
<1>9. Stops(cmd'[c])
  BY <1>5 DEF Stops, Lost
<1>10. \A d \in Commands : Stops(cmd'[d])
  BY <1>4, <1>9 DEF HookInv
<1>11. ASSUME NEW s \in Services, GoingDown(s)
       PROVE  \E d \in Commands : Lost(cmd'[d]) \/ s \in WaitsFor(cmd'[d])
  BY <1>4, <1>8, <1>11 DEF HookInv
<1>12. ASSUME \A s \in Services : "sup" \notin procs[s]
       PROVE  \E d \in Commands : Lost(cmd'[d]) \/ cmd'[d].hook \/ WillScan(cmd'[d])
  BY <1>4, <1>8, <1>12 DEF HookInv
<1> QED
  BY <1>6, <1>10, <1>11, <1>12 DEF HookInv, GoingDown, pgVars

\* s6-supervise is not asked to exit, killed or started, and is gone only if it
\* was asked or killed.
LEMMA EnvironmentGone ==
  ASSUME OnlyStops, TypeOK, HookInv, NEW s \in Services, Environment(s), NEW t \in Services
  PROVE  /\ "sup" \in procs'[t] =>
              /\ "sup" \in procs[t] /\ superv'[t] = superv[t]
              /\ "sup" \in dying'[t] => "sup" \in dying[t]
         /\ "sup" \in procs[t] /\ "sup" \notin procs'[t] => GoingDown(t)
<1> USE DEF TypeOK, PgTypeOK, GoingDown, Roles
<1>1. ~Boot(s) /\ ~SupKilled(s)
  BY DEF HookInv, Boot, OnlyStops, SupKilled
<1>2. CASE StartRun(s)
  BY <1>2 DEF StartRun
<1>3. CASE NotifyReady(s) \/ LogBoot(s) \/ LogExit(s)
  BY <1>3 DEF NotifyReady, LogBoot, LogExit
<1>4. CASE RunGone(s)
  BY <1>4 DEF RunGone, StillDying, Rename
<1>5. CASE SupGone(s)
  BY <1>5 DEF SupGone, StillDying, Rename
<1>6. CASE \E r \in Roles : OtherGone(s, r)
  BY <1>6 DEF OtherGone
<1>7. CASE \E r \in Roles : Fork(s, r)
  BY <1>7, PlaygroundAssumption DEF Fork
<1> QED
  BY <1>1, <1>2, <1>3, <1>4, <1>5, <1>6, <1>7 DEF Environment

\* A step of a service or of s6.
LEMMA EnvironmentHooks ==
  ASSUME OnlyStops, TypeOK, HookInv, NEW s \in Services, Environment(s), UNCHANGED cmd
  PROVE  HookInv'
<1>1. \A t \in Services : "sup" \in procs'[t] => superv'[t] # "booting"
  BY EnvironmentGone DEF HookInv
<1>2. \A t \in Services : GoingDown(t)' => GoingDown(t)
  BY EnvironmentGone DEF GoingDown
<1>3. ASSUME \A t \in Services : "sup" \notin procs'[t]
      PROVE  \E d \in Commands : Lost(cmd[d]) \/ cmd[d].hook \/ WillScan(cmd[d])
  <2>1. CASE \A t \in Services : "sup" \notin procs[t]
    BY <2>1 DEF HookInv
  <2>2. CASE \E t \in Services : "sup" \in procs[t]
    <3>1. PICK t \in Services : GoingDown(t)
      BY <1>3, <2>2, EnvironmentGone
    <3>2. PICK d \in Commands : Lost(cmd[d]) \/ t \in WaitsFor(cmd[d])
      BY <3>1 DEF HookInv
    <3> QED
      BY <3>2 DEF WaitsFor
  <2> QED
    BY <2>1, <2>2
<1> QED
  BY <1>1, <1>2, <1>3 DEF HookInv

\* Something is up, nothing goes down.
LEMMA HooksInit ==
  ASSUME OnlyStops, Init
  PROVE  HookInv
<1>1. \A c \in Commands : cmd[c] = Idle
  BY DEF Init
<1>2. PICK up \in InitiallyUp : PgInit(up)
  BY DEF Init
<1>3. PICK t \in Services : t \in up
  BY PgctlAssumption DEF OnlyStops
<1>4. \A s \in Services :
        /\ "sup" \in procs[s] => s \in up
        /\ s \in up => "sup" \in procs[s] /\ superv[s] = "serving"
        /\ dying[s] = {}
  BY <1>2 DEF PgInit
<1> QED
  BY <1>1, <1>3, <1>4 DEF HookInv, Stops, GoingDown

\* As long as commands only stop what was up, somebody waits for every service
\* that goes down, and somebody is to look at all of them once all are down.
THEOREM SomeoneScans == OnlyStops => (Spec => []HookInv)
<1> SUFFICES ASSUME OnlyStops PROVE Spec => []HookInv
  OBVIOUS
<1>1. TypeOK /\ SafetyInv /\ StopInv /\ HookInv /\ [Next]_vars => HookInv'
  <2>1. ASSUME TypeOK, SafetyInv, StopInv, HookInv, Next PROVE HookInv'
    BY <2>1, CommandStepHooks, InvocationHooks, EnvironmentHooks DEF Next
  <2>2. ASSUME HookInv, UNCHANGED vars PROVE HookInv'
    BY <2>2 DEF vars, pgVars, HookInv, GoingDown
  <2> QED
    BY <2>1, <2>2
<1>2. Init => HookInv
  BY HooksInit
<1> QED
  BY <1>1, <1>2, Typing, Safety, Stopping, PTL DEF Spec

\* The post-stop hook (cli.py:335) is not lost between any number of commands that
\* stop any services of a playground that is up, none of them with --no-force.
THEOREM HookRuns == OnlyStops => (Spec => []HookNotLost)
<1>1. HookInv => HookNotLost
  <2> SUFFICES ASSUME HookInv,
                      \A c \in Commands : ~Active(c) /\ ~Lost(cmd[c]),
                      \A s \in Services : SvState(s) = "unsupervised"
               PROVE  \E c \in Commands : cmd[c].hook
    BY DEF HookNotLost, Lost
  <2>1. \A s \in Services : "sup" \notin procs[s]
    BY DEF SvState, SvStat, SvOk, HookInv
  <2>2. \A c \in Commands : ~WillScan(cmd[c])
    BY DEF Active, WillScan, Critical
  <2> QED
    BY <2>1, <2>2 DEF HookInv
<1> QED
  BY <1>1, SomeoneScans, PTL

(***************************************************************************)
(* Two stops that list services in one order: one step of either.          *)
(***************************************************************************)
\* What a step of command c may do: it stops what it was asked to stop, is turned
\* away only by a lock, and takes none once it was.
Persists(c) ==
  /\ OnlyStopping(cmd'[c])
  /\ cmd'[c].targets = cmd[c].targets
  /\ cmd[c].pc # "idle" => cmd'[c].pc # "idle"
  /\ TurnedAway(cmd'[c]) => TurnedAway(cmd[c]) \/ \E s \in Services : FindLockHeld(c, s)
  /\ TurnedAway(cmd[c]) => cmd'[c].locks \subseteq cmd[c].locks

\* A command at work, that may have found a lock held.
AtWork(r) == r.pc \notin {"idle", "done"}

\* It works on, at the same job.
LEMMA WorksOn ==
  ASSUME NEW c \in Commands, OnlyStopping(cmd[c]),
         AtWork(cmd[c]), cmd[c].pc # "lockHeld", AtWork(cmd'[c]),
         cmd'[c].pc = "lockHeld" => \E s \in Services : FindLockHeld(c, s),
         cmd'[c].job = cmd[c].job, cmd'[c].phase # "Start",
         cmd'[c].targets = cmd[c].targets, cmd'[c].result = cmd[c].result
  PROVE  Persists(c)
BY DEF Persists, OnlyStopping, TurnedAway, AtWork

\* It ends.
LEMMA EndedPersists ==
  ASSUME TypeOK, NEW c \in Commands, OnlyStopping(cmd[c]), AtWork(cmd[c]),
         NEW how, how # "lockHeld" \/ cmd[c].pc = "lockHeld",
         cmd' = [cmd EXCEPT ![c] = Ended(c, how)]
  PROVE  Persists(c)
<1>1. cmd'[c] = Ended(c, how)
  BY DEF TypeOK
<1>2. /\ Ended(c, how).pc = "done" /\ Ended(c, how).result = how
      /\ Ended(c, how).locks = {} /\ Ended(c, how).targets = cmd[c].targets
  BY DEF Ended, Idle
<1> QED
  BY <1>1, <1>2 DEF Persists, OnlyStopping, TurnedAway, AtWork

\* A step for one of the services.
LEMMA StepAtPersists ==
  ASSUME TypeOK, NEW c \in Commands, NEW s \in Services, OnlyStopping(cmd[c]),
         CourseOK(cmd[c]), StepAt(c, s)
  PROVE  Persists(c)
<1>0. cmd[c] \in CommandState /\ cmd \in [Commands -> CommandState]
  BY FieldTypes DEF TypeOK
<1>1. AtWork(cmd[c]) /\ cmd[c].pc # "lockHeld"
  BY DEF StepAt, TakeLock, FindLockHeld, CleanUp, FindSupervised, TakeFlock, FindRunaway,
         BringUp, BringDown, KillLogger, AssertReady, AssertUnsupervised, AssertUnlocked,
         AssertNoProcess, Recheck, ForceStop, GiveUp, HookScan, DebugFlock, Changing,
         Asserting, Rejected, AtWork
<1>2. cmd[c].job = "stop" /\ cmd[c].phase # "Start"
  BY <1>1 DEF OnlyStopping, AtWork
<1>3. /\ cmd'[c].pc \notin {"idle", "done"}
      /\ cmd'[c].pc = "lockHeld" => FindLockHeld(c, s)
      /\ cmd'[c].job = cmd[c].job /\ cmd'[c].phase = cmd[c].phase
      /\ cmd'[c].targets = cmd[c].targets /\ cmd'[c].result = cmd[c].result
  <2> USE <1>0, <1>2 DEF CommandState, Become
  <2>1. CASE TakeLock(c, s)
    BY <2>1 DEF TakeLock
  <2>2. CASE FindLockHeld(c, s)
    BY <2>2 DEF FindLockHeld
  <2>3. CASE BringDown(c, s)
    BY <2>3 DEF BringDown, Visited
  <2>4. CASE KillLogger(c, s) \/ BringUp(c, s)
    <3>1. Visited(c, s)
      BY <2>4 DEF KillLogger, BringUp
    <3> QED
      BY <3>1 DEF Visited
  <2>5. CASE Reject(c)
    BY <2>5 DEF Reject
  <2>6. CASE Accept(c, s)
    <3>1. cmd' = [cmd EXCEPT ![c] = [cmd[c] EXCEPT !.pc = "assert", !.flocked = NoOne, !.left = @ \ {s},
                      !.todo = IF cmd[c].mode = "change" THEN @ \ {s} ELSE @]]
      BY <2>6 DEF Accept
    <3> QED
      BY <3>1
  <2>7. CASE AssertUnsupervised(c, s)
    <3>1. CASE cmd' = [cmd EXCEPT ![c] = [cmd[c] EXCEPT !.pc = "flock"]]
      BY <3>1
    <3> QED
      BY <2>5, <2>7, <3>1 DEF AssertUnsupervised
  <2>8. CASE AssertUnlocked(c, s)
    <3>1. CASE DirFree(c, s)
      BY <2>8, <3>1 DEF AssertUnlocked
    <3>2. CASE ~DirFree(c, s)
      BY <2>8, <3>2 DEF AssertUnlocked
    <3> QED
      BY <3>1, <3>2
  <2>9. CASE AssertNoProcess(c, s)
    BY <2>5, <2>6, <2>9 DEF AssertNoProcess
  <2>10. CASE Recheck(c, s)
    BY <2>10 DEF Recheck
  <2>11. CASE ForceStop(c, s)
    BY <2>11 DEF ForceStop
  <2>12. CASE GiveUp(c, s)
    BY <2>12 DEF GiveUp
  <2>13. CASE HookScan(c, s)
    <3>1. CASE Down(s)
      BY <2>13, <3>1 DEF HookScan
    <3>2. CASE ~Down(s)
      BY <2>13, <3>2 DEF HookScan
    <3> QED
      BY <3>1, <3>2
  <2>14. CASE CleanUp(c, s) \/ FindSupervised(c, s) \/ TakeFlock(c, s) \/ FindRunaway(c, s)
              \/ AssertReady(c, s)
    BY <2>14 DEF CleanUp, FindSupervised, TakeFlock, FindRunaway, AssertReady, Changing
  <2>15. CASE DebugFlock(c, s)
    BY <2>15 DEF DebugFlock, CourseOK, JobFits
  <2> QED
    BY <2>1, <2>2, <2>3, <2>4, <2>7, <2>8, <2>9, <2>10, <2>11, <2>12, <2>13, <2>14, <2>15
       DEF StepAt
<1> QED
  BY <1>1, <1>2, <1>3, WorksOn DEF AtWork

\* Any step of a command, and any end of it.
LEMMA StepPersists ==
  ASSUME TypeOK, NEW c \in Commands, OnlyStopping(cmd[c]), CourseOK(cmd[c]),
         Step(c) \/ Failing(c) \/ Crash(c) \/ Killed(c)
  PROVE  Persists(c)
<1>0. cmd[c] \in CommandState /\ cmd \in [Commands -> CommandState]
  BY FieldTypes DEF TypeOK
<1>1. CASE Killed(c)
  <2>1. CASE Active(c)
    <3>1. AtWork(cmd[c]) /\ cmd' = [cmd EXCEPT ![c] = Ended(c, "killed")]
      BY <1>1, <2>1 DEF Killed, Active, AtWork
    <3> QED
      BY <3>1, EndedPersists
  <2>2. CASE ~Active(c)
    <3>1. cmd' = cmd
      BY <1>0, <1>1, <2>2 DEF Killed
    <3> QED
      BY <3>1 DEF Persists
  <2> QED
    BY <2>1, <2>2
<1>2. CASE Crash(c)
  BY <1>2, EndedPersists DEF Crash, Become, Active, AtWork
<1>3. CASE \E s \in Services : StepAt(c, s)
  BY <1>3, StepAtPersists
<1>4. CASE Failing(c)
  <2>1. AtWork(cmd[c]) /\ cmd' = [cmd EXCEPT ![c] = Ended(c, "failed")]
    BY <1>4 DEF Failing, HookFails, MessageFails, Asserting, AtWork, Become
  <2> QED
    BY <2>1, EndedPersists
<1>5. CASE RaiseLockHeld(c)
  BY <1>5, EndedPersists DEF RaiseLockHeld, Become, AtWork
<1>6. CASE AfterStopLogs(c)
  <2>1. AtWork(cmd[c]) /\ cmd[c].job = "stop"
    BY <1>6 DEF AfterStopLogs, Ending, AtWork, OnlyStopping
  <2>2. \/ cmd' = [cmd EXCEPT ![c] = Ended(c, "failed")]
        \/ cmd' = [cmd EXCEPT ![c] = Ended(c, "ok")]
    BY <1>6, <2>1 DEF AfterStopLogs, Become
  <2> QED
    BY <2>1, <2>2, EndedPersists
<1>7. CASE AfterStop(c)
  <2>1. AtWork(cmd[c]) /\ cmd[c].job = "stop" /\ cmd[c].pc = "after"
    BY <1>7 DEF AfterStop, Ending, AtWork, OnlyStopping
  <2>2. cmd'[c] = Begin(cmd[c], "stop", "StopLogs", cmd[c].targets,
                        Range(cmd[c].targets) \ Range(cmd[c].failed))
    BY <1>0, <1>7, <2>1 DEF AfterStop, Become
  <2>3. /\ cmd'[c].pc = "lock" /\ cmd'[c].phase = "StopLogs" /\ cmd'[c].job = "stop"
        /\ cmd'[c].targets = cmd[c].targets /\ cmd'[c].result = cmd[c].result
    BY <1>0, <2>2 DEF Begin, CommandState
  <2> QED
    BY <2>1, <2>3, WorksOn DEF AtWork
<1>8. CASE \/ AssertedAll(c) \/ Locked(c) \/ Changed(c) \/ BreakOut(c) \/ AllDown(c)
           \/ PostStop(c) \/ Supervise(c)
  <2>1. AtWork(cmd[c]) /\ cmd[c].pc # "lockHeld"
    BY <1>8 DEF AssertedAll, Locked, Changed, BreakOut, AllDown, PostStop, Supervise, AtWork
  <2>2. /\ cmd'[c].pc \notin {"idle", "done", "lockHeld"}
        /\ cmd'[c].job = cmd[c].job /\ cmd'[c].phase = cmd[c].phase
        /\ cmd'[c].targets = cmd[c].targets /\ cmd'[c].result = cmd[c].result
    <3> USE <1>0 DEF CommandState, Become
    <3>1. CASE AssertedAll(c)
      <4>1. CASE cmd' = [cmd EXCEPT ![c] = [cmd[c] EXCEPT !.pc = "change", !.left = cmd[c].todo]]
        BY <4>1
      <4>2. CASE cmd' = [cmd EXCEPT ![c] = [cmd[c] EXCEPT !.pc = "hookScan", !.left = Services]]
        BY <4>2
      <4>3. CASE cmd' = [cmd EXCEPT ![c] = [cmd[c] EXCEPT !.pc = "after", !.locks = {}]]
        BY <4>3
      <4> QED
        BY <3>1, <4>1, <4>2, <4>3 DEF AssertedAll
    <3>2. CASE Locked(c)
      <4>1. CASE cmd[c].mode = "check"
        BY <3>2, <4>1 DEF Locked
      <4>2. CASE cmd[c].mode # "check"
        BY <3>2, <4>2 DEF Locked
      <4> QED
        BY <4>1, <4>2
    <3>3. CASE Changed(c)
      BY <3>3 DEF Changed
    <3>4. CASE BreakOut(c)
      <4>1. CASE cmd[c].phase = "Start"
        BY <3>4, <4>1 DEF BreakOut
      <4>2. CASE cmd[c].phase # "Start"
        BY <3>4, <4>2 DEF BreakOut
      <4> QED
        BY <4>1, <4>2
    <3>5. CASE AllDown(c)
      BY <3>5 DEF AllDown
    <3>6. CASE PostStop(c)
      BY <3>6 DEF PostStop
    <3>7. CASE Supervise(c)
      BY <3>7 DEF Supervise
    <3> QED
      BY <1>8, <3>1, <3>2, <3>3, <3>4, <3>5, <3>6, <3>7
  <2>3. cmd'[c].phase # "Start"
    BY <2>1, <2>2 DEF OnlyStopping, AtWork
  <2> QED
    BY <2>1, <2>2, <2>3, WorksOn DEF AtWork
<1>9. CASE PreStart(c) \/ AfterStart(c) \/ DebugState(c) \/ DebugExec(c)
  BY <1>9 DEF PreStart, AfterStart, Ending, DebugState, DebugExec, OnlyStopping,
              CourseOK, JobFits
<1> QED
  BY <1>1, <1>2, <1>3, <1>4, <1>5, <1>6, <1>7, <1>8, <1>9 DEF Step

(***************************************************************************)
(* ProceedInv is inductive.                                                *)
(***************************************************************************)
\* Who takes locks has none behind the next one, in an order of all requests.
LEMMA NextIsBehind ==
  ASSUME TypeOK, LockOrderInv, NEW d \in Commands, cmd[d].pc \in Taking,
         NEW rank \in [Services -> Nat],
         \A i, j \in DOMAIN cmd[d].targets :
           i < j => rank[cmd[d].targets[i]] < rank[cmd[d].targets[j]],
         NEW s \in cmd[d].locks, NEW t \in cmd[d].left
  PROVE  rank[s] < rank[t]
<1> DEFINE q == cmd[d].targets
<1>1. q \in Seq(Services)
  BY FieldTypes
<1>2. /\ s \in Range(q) /\ t \in Range(q)
      /\ Position(q, s) < Position(q, t)
  BY DEF LockOrderInv, TakesInOrder, Taking
<1>3. \A i, j \in DOMAIN q : i < j => rank[q[i]] < rank[q[j]]
  OBVIOUS
<1> HIDE DEF q
<1>4. /\ Position(q, s) \in DOMAIN q /\ q[Position(q, s)] = s
      /\ Position(q, t) \in DOMAIN q /\ q[Position(q, t)] = t
  BY <1>1, <1>2, PositionIs
<1> QED
  BY <1>2, <1>3, <1>4

\* c finds a lock of d held: d wants nothing that c has, and was not turned away.
LEMMA HolderIsAhead ==
  ASSUME TwoOrderedStops, TypeOK, SafetyInv, LockOrderInv, ProceedInv,
         NEW c \in Commands, NEW d \in Commands, c # d, NEW s \in Services,
         cmd[c].pc = "lock", s \in cmd[c].left, s \in cmd[d].locks
  PROVE  /\ cmd[d].pc # "idle" /\ ~TurnedAway(cmd[d])
         /\ Range(cmd[d].targets) \cap cmd[c].locks = {}
<1>1. /\ TakesInOrder(cmd[c]) /\ TakesInOrder(cmd[d])
      /\ OwnsLocks(cmd[d]) /\ cmd[c].locks \cap cmd[d].locks = {}
      /\ OnlyStopping(cmd[c]) /\ OnlyStopping(cmd[d])
  BY DEF LockOrderInv, SafetyInv, CommandInv, LockInv, ProceedInv
<1>2. s \in Range(cmd[c].targets)
  BY <1>1 DEF TakesInOrder
<1>3. ~TurnedAway(cmd[d])
  BY <1>2 DEF ProceedInv
<1>4. cmd[d].pc \in Critical \cup {"lock"}
  BY <1>1, <1>3 DEF TakesInOrder, TurnedAway
<1>5. cmd[d].pc \notin {"idle", "done"}
  BY <1>4 DEF Critical
<1>6. ASSUME NEW t \in Range(cmd[d].targets), t \in cmd[c].locks
      PROVE  FALSE
  <2>1. cmd[d].pc = "lock" /\ t \in cmd[d].left
    BY <1>1, <1>4, <1>6 DEF OwnsLocks
  <2>2. PICK rank \in [Services -> Nat] : \A q \in Requests : \A i, j \in DOMAIN q :
          i < j => rank[q[i]] < rank[q[j]]
    BY DEF TwoOrderedStops
  <2>3. cmd[c].targets \in Requests /\ cmd[d].targets \in Requests
    BY <1>1, <1>5 DEF OnlyStopping
  <2>4. /\ \A i, j \in DOMAIN cmd[c].targets :
             i < j => rank[cmd[c].targets[i]] < rank[cmd[c].targets[j]]
        /\ \A i, j \in DOMAIN cmd[d].targets :
             i < j => rank[cmd[d].targets[i]] < rank[cmd[d].targets[j]]
    BY <2>2, <2>3
  <2>5. rank[t] < rank[s]
    BY <1>6, <2>4, NextIsBehind DEF Taking
  <2>6. rank[s] < rank[t]
    BY <2>1, <2>4, NextIsBehind DEF Taking
  <2>7. t \in Services
    BY <1>6, FieldTypes
  <2>8. rank[s] \in Nat /\ rank[t] \in Nat
    BY <2>7
  <2> QED
    BY <2>5, <2>6, <2>8
<1> QED
  BY <1>3, <1>5, <1>6

\* A step of a command, or its end.
LEMMA CommandStepProceeds ==
  ASSUME TwoOrderedStops, TypeOK, SafetyInv, StopInv, LockOrderInv, ProceedInv,
         NEW c \in Commands, Step(c) \/ Failing(c) \/ Crash(c) \/ Killed(c)
  PROVE  ProceedInv'
<1>1. OnlyStopping(cmd[c]) /\ CourseOK(cmd[c]) /\ CommandOK(cmd[c])
  BY DEF ProceedInv, StopInv, SafetyInv, CommandInv, CommandOK
<1>2. Persists(c)
  BY <1>1, StepPersists
<1>3. \A d \in Commands \ {c} : cmd'[d] = cmd[d]
  BY <1>1, StepFrame DEF Frame
<1>4. \A d \in Commands : OnlyStopping(cmd'[d])
  BY <1>2, <1>3 DEF Persists, ProceedInv
<1>5. ASSUME NEW s \in Services, FindLockHeld(c, s)
      PROVE  /\ cmd[c].pc = "lock" /\ s \in cmd[c].left /\ cmd'[c].locks = cmd[c].locks
             /\ \E d \in Commands \ {c} : s \in cmd[d].locks
  <2>1. cmd'[c] = [cmd[c] EXCEPT !.pc = "lockHeld"]
    BY <1>5 DEF FindLockHeld, Become, TypeOK
  <2>2. cmd'[c].locks = cmd[c].locks
    BY <2>1, FieldTypes DEF CommandState
  <2> QED
    BY <1>5, <2>2 DEF FindLockHeld, IsNext
\* c is turned away, d is the other.
<1>6. ASSUME NEW d \in Commands, d # c, TurnedAway(cmd'[c])
      PROVE  /\ cmd'[d].pc # "idle" /\ ~TurnedAway(cmd'[d])
             /\ Range(cmd'[d].targets) \cap cmd'[c].locks = {}
  <2>1. CASE TurnedAway(cmd[c])
    BY <1>2, <1>3, <1>6, <2>1 DEF Persists, ProceedInv
  <2>2. CASE ~TurnedAway(cmd[c])
    <3>1. PICK s \in Services : FindLockHeld(c, s)
      BY <1>2, <1>6, <2>2 DEF Persists
    <3>2. s \in cmd[d].locks
      BY <1>5, <1>6, <3>1 DEF TwoOrderedStops
    <3> QED
      BY <1>3, <1>5, <1>6, <3>1, <3>2, HolderIsAhead
  <2> QED
    BY <2>1, <2>2
\* c moves on, the other was turned away.
<1>7. ASSUME NEW d \in Commands, d # c, TurnedAway(cmd[d])
      PROVE  /\ cmd'[c].pc # "idle" /\ ~TurnedAway(cmd'[c])
             /\ Range(cmd'[c].targets) \cap cmd[d].locks = {}
  <2>1. /\ cmd[c].pc # "idle" /\ ~TurnedAway(cmd[c])
        /\ Range(cmd[c].targets) \cap cmd[d].locks = {}
    BY <1>7 DEF ProceedInv
  <2>2. ASSUME NEW s \in Services, FindLockHeld(c, s)
        PROVE  FALSE
    <3>1. s \in cmd[d].locks
      BY <1>5, <1>7, <2>2 DEF TwoOrderedStops
    <3>2. s \in Range(cmd[c].targets)
      BY <1>5, <2>2 DEF LockOrderInv, TakesInOrder
    <3> QED
      BY <2>1, <3>1, <3>2
  <2> QED
    BY <1>2, <2>1, <2>2 DEF Persists
<1>8. ASSUME NEW d \in Commands, NEW e \in Commands, d # e, TurnedAway(cmd'[d])
      PROVE  /\ cmd'[e].pc # "idle" /\ ~TurnedAway(cmd'[e])
             /\ Range(cmd'[e].targets) \cap cmd'[d].locks = {}
  <2>1. d = c \/ (d # c /\ e = c)
    BY <1>8 DEF TwoOrderedStops
  <2>2. CASE d = c
    BY <1>6, <1>8, <2>2
  <2>3. CASE d # c /\ e = c
    <3>1. cmd'[d] = cmd[d]
      BY <1>3, <2>3
    <3>2. TurnedAway(cmd[d])
      BY <1>8, <3>1
    <3> QED
      BY <1>7, <2>3, <3>1, <3>2
  <2> QED
    BY <2>1, <2>2, <2>3
<1> QED
  BY <1>4, <1>8 DEF ProceedInv

\* A new command begins to stop its services; nobody waits for it.
LEMMA InvocationProceeds ==
  ASSUME TwoOrderedStops, TypeOK, ProceedInv, NEW c \in Commands, Invocation(c)
  PROVE  ProceedInv'
<1>1. \E r \in CommandState, q \in Requests :
        r.result = "none" /\ cmd' = [cmd EXCEPT ![c] = FirstPhase(r, "stop", q)]
  <2>1. ~\E s \in Services : PollRestart(c, s)
    BY DEF TwoOrderedStops, PollRestart
  <2>2. ASSUME NEW q \in Requests, NEW f \in Forces, Invoke(c, "stop", q, f)
        PROVE  \E r \in CommandState :
                 r.result = "none" /\ cmd' = [cmd EXCEPT ![c] = FirstPhase(r, "stop", q)]
    <3> DEFINE r == [Idle EXCEPT !.force = f]
    <3>1. r \in CommandState /\ r.result = "none"
      BY IdleType, PgctlAssumption DEF Idle, CommandState
    <3>2. cmd' = [cmd EXCEPT ![c] = FirstPhase(r, "stop", q)]
      BY <2>2 DEF Invoke, Become
    <3> QED
      BY <3>1, <3>2
  <2>3. ASSUME NEW o \in Services, NEW q \in Requests, InvokeNested(c, o, "stop", q)
        PROVE  \E r \in CommandState :
                 r.result = "none" /\ cmd' = [cmd EXCEPT ![c] = FirstPhase(r, "stop", q)]
    <3> DEFINE r == [Idle EXCEPT !.origin = o, !.inherits = TRUE]
    <3>1. r \in CommandState /\ r.result = "none"
      BY IdleType DEF Idle, CommandState
    <3>2. cmd' = [cmd EXCEPT ![c] = FirstPhase(r, "stop", q)]
      BY <2>3 DEF InvokeNested, Become
    <3> QED
      BY <3>1, <3>2
  <2> QED
    BY <2>1, <2>2, <2>3 DEF Invocation, TwoOrderedStops
<1>2. PICK r \in CommandState, q \in Requests :
        r.result = "none" /\ cmd' = [cmd EXCEPT ![c] = FirstPhase(r, "stop", q)]
  BY <1>1
<1>3. FirstPhase(r, "stop", q) = Begin(r, "stop", "Stop", q, Range(q))
  BY DEF FirstPhase
<1>4. /\ cmd'[c] = Begin(r, "stop", "Stop", q, Range(q))
      /\ \A d \in Commands \ {c} : cmd'[d] = cmd[d]
  BY <1>2, <1>3 DEF TypeOK
<1>5. /\ cmd'[c].pc = "lock" /\ cmd'[c].phase = "Stop" /\ cmd'[c].job = "stop"
      /\ cmd'[c].targets = q /\ cmd'[c].result = "none"
  <2>1. PICK b : b = Begin(r, "stop", "Stop", q, Range(q))
    OBVIOUS
  <2>2. /\ b.pc = "lock" /\ b.phase = "Stop" /\ b.job = "stop"
        /\ b.targets = q /\ b.result = r.result
    BY <2>1 DEF Begin, CommandState
  <2> QED
    BY <1>2, <1>4, <2>1, <2>2
<1>6. cmd[c].pc = "idle"
  BY DEF TwoOrderedStops, Invocation, Invoke, InvokeNested, PollRestart, MayInvoke
<1>7. OnlyStopping(cmd'[c]) /\ ~TurnedAway(cmd'[c])
  BY <1>5 DEF OnlyStopping, TurnedAway
<1>8. \A d \in Commands \ {c} : ~TurnedAway(cmd[d])
  BY <1>6 DEF ProceedInv
<1> QED
  BY <1>4, <1>7, <1>8 DEF ProceedInv

\* Of two stops that list their services in one order, whoever was turned away has
\* no lock that the other will want.
THEOREM TwoStopsProceed == TwoOrderedStops => (Spec => []ProceedInv)
<1> SUFFICES ASSUME TwoOrderedStops PROVE Spec => []ProceedInv
  OBVIOUS
<1>1. Init => ProceedInv
  <2> SUFFICES ASSUME Init PROVE ProceedInv
    OBVIOUS
  <2>1. \A c \in Commands : cmd[c] = Idle
    BY DEF Init
  <2>2. Idle.pc = "idle" /\ Idle.result = "none"
    BY DEF Idle
  <2> QED
    BY <2>1, <2>2 DEF ProceedInv, OnlyStopping, TurnedAway
<1>2. TypeOK /\ SafetyInv /\ StopInv /\ LockOrderInv /\ ProceedInv /\ [Next]_vars
        => ProceedInv'
  <2>1. ASSUME TypeOK, SafetyInv, StopInv, LockOrderInv, ProceedInv, Next
        PROVE  ProceedInv'
    <3>1. CASE UNCHANGED cmd
      BY <2>1, <3>1 DEF ProceedInv
    <3> QED
      BY <2>1, <3>1, CommandStepProceeds, InvocationProceeds DEF Next
  <2>2. ASSUME ProceedInv, UNCHANGED vars PROVE ProceedInv'
    BY <2>2 DEF vars, ProceedInv
  <2> QED
    BY <2>1, <2>2
<1> QED
  BY <1>1, <1>2, Typing, Safety, Stopping, LocksInOrder, PTL DEF Spec

\* Of two stops that list their services in one order, one is not turned away: the
\* LockHeld of playground_locked() does not end both, however often they release
\* their locks and take them again.
THEOREM OneProceeds == TwoOrderedStops => (Spec => []SomeoneProceeds)
<1> SUFFICES ASSUME TwoOrderedStops PROVE Spec => []SomeoneProceeds
  OBVIOUS
<1>1. ProceedInv => SomeoneProceeds
  <2> SUFFICES ASSUME ProceedInv PROVE \E c \in Commands : cmd[c].result # "lockHeld"
    BY DEF SomeoneProceeds
  <2>1. PICK c \in Commands, d \in Commands : c # d
    BY DEF TwoOrderedStops
  <2>2. ~(TurnedAway(cmd[c]) /\ TurnedAway(cmd[d]))
    BY <2>1 DEF ProceedInv
  <2> QED
    BY <2>2 DEF TurnedAway
<1> QED
  BY <1>1, TwoStopsProceed, PTL
=============================================================================
