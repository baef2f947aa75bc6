----------------------------- MODULE ChangeLoop ------------------------------
(***************************************************************************)
(* The change loop of one command against the clock, beside its log viewer *)
(* (pgctl/cli.py: __locked_change_state, timeout; pgctl/log_viewer.py).    *)
(* Module Pgctl has the same loop among other commands, where a check that *)
(* failed may or may not be past its timeout; here that is a matter of the *)
(* clock, and what other commands do is a choice of what a check finds.    *)
(*                                                                         *)
(* Time is counted in units since start_time.  A check takes some time, if *)
(* little: one that took none at all would never be too late.              *)
(***************************************************************************)
EXTENDS Integers, Sequences, FiniteSets, SequencesExt

CONSTANTS
  CheckTime,   \* the longest time that a check takes
  ChangeTime,  \* the longest time that a change takes
  Poll,        \* the option of that name
  Horizon      \* where the clock stops

ASSUME ChangeLoopAssumption ==
  /\ CheckTime \in Nat \ {0} /\ Poll \in Nat \ {0}
  /\ ChangeTime \in Nat /\ Horizon \in Nat

VARIABLES
  loop,        \* the locals of the loop
  clock,       \* now() - start_time
  tail,        \* tail[s]: the tail process of s
  unread       \* the services whose tail has written what was not read

loopVars == <<loop, clock, tail, unread>>

Kinds == {"Start", "Stop", "StopLogs"}

LoopState(services) ==
  [ pc : {"change", "check", "draw", "sleep", "hung", "over"},
    kind : Kinds,
    force : BOOLEAN,           \* not no_force
    viewer : BOOLEAN,          \* log_viewer is not None
    limit : [services -> 0..Horizon],  \* get_timeout()
    todo : Seq(services),      \* services
    left : Seq(services),      \* what the loop over them has not visited
    failed : Seq(services),
    changes : BOOLEAN,         \* changes_to_print is not empty
    drawn : BOOLEAN ]          \* _prev_width is not None

Tails == {"none", "live", "dead", "reaped"}
Tailed == {s \in DOMAIN tail : tail[s] \in {"live", "dead"}}

Abs(n) == IF n < 0 THEN -n ELSE n
Later(t) == IF clock + t < Horizon THEN clock + t ELSE Horizon

(***************************************************************************)
(* The tails.                                                              *)
(***************************************************************************)
\* Mutant: what it wrote stays to be read.
StopTailingUnread(S) ==
  /\ tail' = [s \in DOMAIN tail |->
                IF s \in S /\ tail[s] \in {"live", "dead"} THEN "reaped" ELSE tail[s]]
  /\ UNCHANGED unread

\* Tailer.stop_tailing(): the process is terminated and waited for.
StopTailing(S) ==
  /\ tail' = [s \in DOMAIN tail |->
                IF s \in S /\ tail[s] \in {"live", "dead"} THEN "reaped" ELSE tail[s]]
  /\ unread' = unread \ S

\* `tail -F` writes what the service logs.
TailWrites(s) ==
  /\ tail[s] = "live" /\ s \notin unread
  /\ unread' = unread \cup {s}
  /\ UNCHANGED <<loop, clock, tail>>

\* Someone kills it.  Its pipe is at its end from now on.
TailDies(s) ==
  /\ tail[s] = "live"
  /\ tail' = [tail EXCEPT ![s] = "dead"]
  /\ UNCHANGED <<loop, clock, unread>>

\* poll() returns those that have written and those at their end.
Readable == unread \cup {s \in DOMAIN tail : tail[s] = "dead"}

(***************************************************************************)
(* The loop.                                                               *)
(***************************************************************************)
\* The loop is left, normally or by an exception: log_viewer.cleanup().
Over == loop' = [loop EXCEPT !.pc = "over", !.left = <<>>] /\ StopTailing(DOMAIN tail)

\* service.change(), which may raise Unsupervised.
Change(t) ==
  /\ loop.pc = "change" /\ loop.left # <<>>
  /\ loop' = [loop EXCEPT !.left = Tail(@)]
  /\ clock' = Later(t)
  /\ UNCHANGED <<tail, unread>>

ChangedAll ==
  /\ loop.pc = "change" /\ loop.left = <<>>
  /\ loop' = [loop EXCEPT !.pc = "check", !.left = loop.todo, !.changes = FALSE]
  /\ UNCHANGED <<clock, tail, unread>>

Checking == loop.pc = "check" /\ loop.left # <<>>
Checked == Head(loop.left)

\* Mutant: the loop over the list that it takes the service from skips the next.
CheckPassesSkipping(t) ==
  /\ Checking /\ t > 0
  /\ loop' = [loop EXCEPT !.left = IF Len(@) = 1 THEN <<>> ELSE Tail(Tail(@)),
                          !.todo = RemoveFirst(@, Checked), !.changes = TRUE]
  /\ clock' = Later(t)
  /\ StopTailing({Checked})

\* The loop goes over a copy of the list.
CheckPasses(t) ==
  /\ Checking /\ t > 0
  /\ loop' = [loop EXCEPT !.left = Tail(@), !.todo = RemoveFirst(@, Checked), !.changes = TRUE]
  /\ clock' = Later(t)
  /\ StopTailing({Checked})

\* Mutants: without abs(); the other way round.
TimedOutUnsigned(t) ==
  LET curr == clock + t
      limit == loop.limit[Checked]
  IN  curr - limit < curr + t - limit
TimedOutSwapped(t) ==
  LET curr == clock + t
      limit == loop.limit[Checked]
  IN  Abs(curr - limit) > Abs(curr + t - limit)

\* timeout(): the check that failed took t.  As close to the limit as it gets.
TimedOut(t) ==
  LET curr == clock + t
      limit == loop.limit[Checked]
  IN  Abs(curr - limit) < Abs(curr + t - limit)

CheckFails(t) ==
  /\ Checking /\ t > 0 /\ ~TimedOut(t)
  /\ loop' = [loop EXCEPT !.left = Tail(@)]
  /\ clock' = Later(t)
  /\ UNCHANGED <<tail, unread>>

\* state.fail(): only Stop has one.
CanForce == loop.force /\ loop.kind = "Stop"

ForceStop(t) ==
  /\ Checking /\ t > 0 /\ TimedOut(t) /\ CanForce
  /\ \E message \in BOOLEAN :
       loop' = [loop EXCEPT !.left = Tail(@), !.changes = @ \/ message]
  /\ clock' = Later(t)
  /\ UNCHANGED <<tail, unread>>

\* Mutant: the service stays in the list.
GiveUpKept(t) ==
  /\ Checking /\ t > 0 /\ TimedOut(t) /\ ~CanForce
  /\ loop' = [loop EXCEPT !.left = Tail(@), !.changes = TRUE]
  /\ clock' = Later(t)
  /\ StopTailing({Checked})

GiveUp(t) ==
  /\ Checking /\ t > 0 /\ TimedOut(t) /\ ~CanForce
  /\ loop' = [loop EXCEPT !.left = Tail(@), !.todo = RemoveFirst(@, Checked),
                          !.failed = Append(@, Checked), !.changes = TRUE]
  /\ clock' = Later(t)
  /\ StopTailing({Checked})

CheckedAll ==
  /\ loop.pc = "check" /\ loop.left = <<>>
  /\ loop' = [loop EXCEPT !.pc = IF loop.viewer THEN "draw" ELSE "sleep"]
  /\ UNCHANGED <<clock, tail, unread>>

\* There is nothing new to draw.
DrawNothing ==
  /\ loop.pc = "draw" /\ ~loop.changes /\ loop.drawn /\ Readable = {}
  /\ loop' = [loop EXCEPT !.pc = "sleep"]
  /\ UNCHANGED <<clock, tail, unread>>

\* Otherwise, or as the terminal has got another width: the logs are read while
\* services are left.  At the end of a pipe that does not return.
Draw ==
  /\ loop.pc = "draw"
  /\ IF loop.todo = <<>> THEN
       loop' = [loop EXCEPT !.pc = "sleep"] /\ UNCHANGED unread
     ELSE IF \E s \in DOMAIN tail : tail[s] = "dead" THEN
       loop' = [loop EXCEPT !.pc = "hung"] /\ UNCHANGED unread
     ELSE
       loop' = [loop EXCEPT !.pc = "sleep", !.drawn = TRUE] /\ unread' = {}
  /\ UNCHANGED <<clock, tail>>

Sleep ==
  /\ loop.pc = "sleep"
  /\ clock' = Later(Poll)
  /\ IF loop.todo = <<>> THEN Over
     ELSE /\ loop' = [loop EXCEPT !.pc = "change", !.left = loop.todo]
          /\ UNCHANGED <<tail, unread>>

\* Mutant: there is no finally.
RaiseUnclean ==
  /\ loop.pc # "over"
  /\ loop' = [loop EXCEPT !.pc = "over"]
  /\ UNCHANGED <<clock, tail, unread>>

\* An exception: LockHeld out of a start, AssertionError out of a message, or
\* KeyboardInterrupt anywhere.
Raise ==
  /\ loop.pc # "over"
  /\ Over
  /\ UNCHANGED clock

Looping ==
  \/ \E t \in 0..ChangeTime : Change(t)
  \/ ChangedAll
  \/ \E t \in 1..CheckTime : CheckPasses(t) \/ CheckFails(t) \/ ForceStop(t) \/ GiveUp(t)
  \/ CheckedAll \/ DrawNothing \/ Draw \/ Sleep

Outside == Raise \/ \E s \in DOMAIN tail : TailWrites(s) \/ TailDies(s)

\* __locked_change_state(kind, services) begins.
LoopOf(services, kind, force, viewer, limit) ==
  [ pc |-> "change", kind |-> kind, force |-> force, viewer |-> viewer,
    limit |-> limit, todo |-> services, left |-> services,
    failed |-> <<>>, changes |-> FALSE, drawn |-> FALSE ]

BeginLoop(services, kind, force, viewer, limit) ==
  /\ loop' = LoopOf(services, kind, force, viewer, limit)
  /\ clock' = 0
  /\ tail' = [s \in ToSet(services) |-> IF viewer THEN "live" ELSE "none"]
  /\ unread' = {}

\* Some command begins: its services are distinct, and its limits are times that
\* the clock can show.
BeginAny ==
  /\ IsInjective(loop'.todo)
  /\ loop'.kind \in Kinds /\ loop'.force \in BOOLEAN /\ loop'.viewer \in BOOLEAN
  /\ loop'.todo \in Seq(ToSet(loop'.todo))
  /\ loop'.limit \in [ToSet(loop'.todo) -> 0..Horizon]
  /\ BeginLoop(loop'.todo, loop'.kind, loop'.force, loop'.viewer, loop'.limit)

LoopInit ==
  /\ loop = LoopOf(<<>>, "Start", FALSE, FALSE, <<>>)
  /\ clock = 0 /\ tail = <<>> /\ unread = {}

\* The loops of any commands, one after the other: all that is proved of loops is
\* proved of these.  So are those of a command that finds its options and expands
\* its aliases first: it begins its loop with a list that names no service twice.
LoopNext == Looping \/ Outside \/ BeginAny

LoopSpec == LoopInit /\ [][LoopNext]_loopVars

LoopTypeOK ==
  /\ loop \in LoopState(DOMAIN tail)
  /\ clock \in 0..Horizon
  /\ tail \in [DOMAIN tail -> Tails]
  /\ unread \subseteq {s \in DOMAIN tail : tail[s] \in {"live", "dead"}}

(***************************************************************************)
(* Properties.                                                             *)
(***************************************************************************)
\* A service is not given up before its time, unless its next check would end
\* further behind the limit ("we timeout as close to the limit_time as we can",
\* cli.py:207).
NotBeforeTime ==
  [][Len(loop'.failed) > Len(loop.failed) =>
       LET s == Last(loop'.failed)
       IN  2 * (loop.limit[s] - clock') < CheckTime]_loopVars

\* A loop that forces nothing decides about every service soon after the last
\* limit, however they behave: behind it, each is changed and checked once.
EndsInTime ==
  LET n == Cardinality(DOMAIN tail)
  IN  (~CanForce /\ loop.pc \notin {"over", "hung"} /\ loop.todo # <<>>)
        => \E s \in DOMAIN tail :
             clock < loop.limit[s] + (n - 1) * CheckTime + n * ChangeTime + Poll

\* However the loop ended, it leaves no tail process behind, and none whose
\* service is done with is waited for before.
TailsReaped ==
  /\ loop.pc = "over" => Tailed = {}
  /\ Tailed \subseteq ToSet(loop.todo)

(***************************************************************************)
(* Why the invariants hold: an inductive one.                              *)
(***************************************************************************)
\* The lists name no service twice, and the loops visit services of the list.
ListsInv ==
  /\ IsInjective(loop.todo) /\ IsInjective(loop.left)
  /\ ToSet(loop.left) \subseteq ToSet(loop.todo)
  /\ Len(loop.left) <= Len(loop.todo)
  /\ IsFiniteSet(DOMAIN tail) /\ Len(loop.todo) <= Cardinality(DOMAIN tail)

\* How far the clock may be behind some limit: a check for every service that
\* is done with, and, before the first of the others has failed its check
\* again, a sleep and a change for each.
AllowanceAt(pc, n, unsettled, visited) ==
  (n - unsettled) * CheckTime
    + CASE pc = "change" -> Poll + visited * ChangeTime
        [] pc = "check" /\ visited = 0 -> Poll + n * ChangeTime
        [] OTHER -> 0

Allowance ==
  AllowanceAt(loop.pc, Cardinality(DOMAIN tail), Len(loop.todo), Len(loop.todo) - Len(loop.left))

PaceInv ==
  (~CanForce /\ loop.pc \notin {"over", "hung"} /\ loop.todo # <<>>)
    => \E s \in DOMAIN tail : clock < loop.limit[s] + Allowance

LoopInv == ListsInv /\ PaceInv /\ TailsReaped
=============================================================================
