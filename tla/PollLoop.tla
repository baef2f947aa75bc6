------------------------------ MODULE PollLoop -------------------------------
(***************************************************************************)
(* pgctl-poll-ready (pgctl/poll_ready.py) beside one run of its service.   *)
(* main() makes a FIFO, forks, and becomes the run script; the child polls *)
(* ./ready until it succeeds, tells s6-supervise, and goes on polling: it  *)
(* quits when it reads that the run script is down, and becomes `pgctl     *)
(* restart` when ./ready has failed for too long.  Modules Playground and  *)
(* Pgctl know this child as the roles poll and pollEnd.                    *)
(*                                                                         *)
(* s6-supervise (external) writes one byte to the FIFO when the run script *)
(* is up (u), is ready (U) and is down (d), however late.  Time is counted *)
(* in units, and no further than the timeout.                              *)
(***************************************************************************)
EXTENDS Integers, Sequences

CONSTANTS
  Timeouts,   \* the values that timeout-ready may have
  PollDowns,  \* the values that poll-down may have
  CheckTime   \* the longest time that ./ready takes

ASSUME PollLoopAssumption ==
  /\ Timeouts \subseteq Nat
  /\ PollDowns \subseteq Nat \ {0}
  /\ CheckTime \in Nat

VARIABLES
  pc,         \* what pgctl-poll-ready, later its child, is about to do
  run,        \* the main process: "main" before its exec, "server", "gone"
  sent,       \* the bytes that s6-supervise has written
  queue,      \* those that the FIFO holds
  down,       \* is_service_down
  age,        \* time.time() - start
  elapsed,    \* the local variable of that name
  settings,   \* PGCTL_DEBUG, timeout and poll_down
  outcome,    \* how the child ended
  silence,    \* history: the time since ./ready last succeeded
  late        \* history: the checks begun since d was written

world == <<run, sent, settings>>
clocks == <<age, elapsed, silence>>
vars == <<world, clocks, pc, queue, down, outcome, late>>

\* One more check than there can be bytes before the end of a d in the FIFO;
\* late is counted no further.
MaxLate == 4

PollTypeOK ==
  /\ pc \in {"main", "fork", "look", "poll", "pollWait", "between", "beat",
             "check", "beatWait", "over"}
  /\ run \in {"main", "server", "gone"}
  /\ sent \subseteq {"u", "U", "d"}
  /\ queue \in Seq({"u", "U", "d"})
  /\ down \in BOOLEAN
  /\ settings \in [debug : BOOLEAN, timeout : Timeouts, pollDown : PollDowns]
  /\ age \in 0..settings.timeout
  /\ elapsed \in 0..settings.timeout
  /\ silence \in 0..settings.timeout
  /\ outcome \in {"none", "disabled", "quit", "restart", "error"}
  /\ late \in 0..MaxLate

(***************************************************************************)
(* main()                                                                  *)
(***************************************************************************)
\* Under `pgctl debug` it becomes the run script and polls nothing.
Disabled ==
  /\ pc = "main" /\ settings.debug
  /\ run' = "server" /\ pc' = "over" /\ outcome' = "disabled"
  /\ UNCHANGED <<sent, settings, clocks, queue, down, late>>

\* It removes a FIFO that an earlier process of the same pid left behind
\* (exec_() skips the finally of the child), and makes and opens its own.
MakeFifo ==
  /\ pc = "main" /\ ~settings.debug
  /\ pc' = "fork"
  /\ UNCHANGED <<world, clocks, queue, down, outcome, late>>

Fork ==
  /\ pc = "fork"
  /\ pc' = "look"
  /\ UNCHANGED <<world, clocks, queue, down, outcome, late>>

\* The parent of the fork executes the run script.
ExecServer ==
  /\ run = "main" /\ pc \notin {"main", "fork"}
  /\ run' = "server"
  /\ UNCHANGED <<sent, settings, clocks, pc, queue, down, outcome, late>>

(***************************************************************************)
(* The run script and s6-supervise.                                        *)
(***************************************************************************)
\* Before the fork there is no child that would be left.
RunGone ==
  /\ run # "gone"
  /\ run' = "gone"
  /\ pc' = IF pc \in {"main", "fork"} THEN "over" ELSE pc
  /\ UNCHANGED <<sent, settings, clocks, queue, down, outcome, late>>

\* Mutant: the child makes the FIFO, after the fork.
ListeningLate == pc \notin {"main", "fork", "look", "over"}

Listening == pc \notin {"main", "over"}

\* It writes to those FIFOs that someone has open.
Write(b) ==
  /\ b \notin sent /\ ~settings.debug
  /\ sent' = sent \cup {b}
  /\ queue' = IF Listening THEN Append(queue, b) ELSE queue
  /\ UNCHANGED <<run, settings, clocks, pc, down, outcome, late>>

Heartbeat == {"between", "beat", "check", "beatWait"}

WriteUp == run # "gone" /\ Write("u")
WriteReady == run # "gone" /\ pc \in Heartbeat /\ Write("U")
WriteDown == run = "gone" /\ Write("d")

(***************************************************************************)
(* The child.                                                              *)
(***************************************************************************)
\* Mutants: any byte is taken for d; all bytes are read, the first is tested.
WaitForAnySignal ==
  /\ down' = (queue # <<>>)
  /\ queue' = IF queue = <<>> THEN <<>> ELSE Tail(queue)
WaitForDownSignalOnly ==
  /\ down' = (queue # <<>> /\ Head(queue) = "d")
  /\ queue' = <<>>

\* wait_for_down_signal(): one byte, if there is one, and whether it is d.
WaitForDownSignal ==
  IF queue = <<>> THEN down' = FALSE /\ queue' = queue
  ELSE down' = (Head(queue) = "d") /\ queue' = Tail(queue)

\* A check may be the last before the end of the service is noticed.
CountLate ==
  late' = IF "d" \in sent /\ late < MaxLate THEN late + 1 ELSE late

\* The time t passes; the two clocks stop at the timeout.
Sooner(t, u) == IF t <= u THEN t ELSE u
Elapse(t) ==
  /\ age' = Sooner(age + t, settings.timeout)
  /\ silence' = Sooner(silence + t, settings.timeout)

\* return, or an exception: the FIFO is closed and removed.
Over(how) == pc' = "over" /\ outcome' = how

\* Both loops quit at their top.
Quit ==
  /\ pc \in {"poll", "beat"} /\ down
  /\ Over("quit")
  /\ UNCHANGED <<world, clocks, queue, down, late>>

\* The first loop.  Its time does not matter.  s6-supervise may have closed
\* the notification descriptor of a run script that is gone.
PollSucceeds ==
  /\ pc = "poll" /\ ~down
  /\ CountLate
  /\ silence' = 0
  /\ \/ pc' = "between" /\ UNCHANGED outcome
     \/ run = "gone" /\ Over("error")
  /\ UNCHANGED <<world, queue, down, age, elapsed>>

PollFails ==
  /\ pc = "poll" /\ ~down
  /\ CountLate
  /\ pc' = "pollWait"
  /\ UNCHANGED <<world, clocks, queue, down, outcome>>

\* The look before the loop, and the wait in it.
PollWait ==
  /\ pc \in {"look", "pollWait"} /\ pc' = "poll"
  /\ WaitForDownSignal
  /\ UNCHANGED <<world, clocks, outcome, late>>

\* Mutant: start is not set, and is long ago.
BetweenUnset ==
  /\ pc = "between" /\ pc' = "beat" /\ WaitForDownSignal
  /\ age' = settings.timeout + 1
  /\ UNCHANGED <<world, elapsed, outcome, silence, late>>

Between ==
  /\ pc = "between" /\ pc' = "beat"
  /\ WaitForDownSignal
  /\ age' = 0
  /\ UNCHANGED <<world, elapsed, outcome, silence, late>>

\* The second loop.  `elapsed` is taken before the check.
Beat ==
  /\ pc = "beat" /\ ~down
  /\ elapsed' = age
  /\ CountLate
  /\ pc' = "check"
  /\ UNCHANGED <<world, queue, down, age, outcome, silence>>

\* Mutant: start stays what it was.
CheckSucceedsSilently(t) ==
  /\ pc = "check" /\ pc' = "beatWait"
  /\ silence' = 0 /\ age' = Sooner(age + t, settings.timeout)
  /\ UNCHANGED <<world, queue, down, elapsed, outcome, late>>

CheckSucceeds(t) ==
  /\ pc = "check" /\ pc' = "beatWait"
  /\ silence' = 0 /\ age' = 0
  /\ UNCHANGED <<world, queue, down, elapsed, outcome, late>>

\* Mutant: a failure starts the clock anew.
CheckFailsAnew(t) ==
  /\ pc = "check" /\ elapsed < settings.timeout
  /\ pc' = "beatWait"
  /\ age' = 0 /\ silence' = Sooner(silence + t, settings.timeout)
  /\ UNCHANGED <<world, queue, down, elapsed, outcome, late>>

CheckFails(t) ==
  /\ pc = "check" /\ elapsed < settings.timeout
  /\ pc' = "beatWait"
  /\ Elapse(t)
  /\ UNCHANGED <<world, queue, down, elapsed, outcome, late>>

\* exec_(('pgctl', 'restart', service))
Restart(t) ==
  /\ pc = "check" /\ elapsed >= settings.timeout
  /\ Over("restart")
  /\ Elapse(t)
  /\ UNCHANGED <<world, queue, down, elapsed, late>>

\* A wait that nothing is written to lasts poll_down; any byte ends it.
BeatWait(t) ==
  /\ pc = "beatWait" /\ pc' = "beat"
  /\ queue = <<>> => t = settings.pollDown
  /\ WaitForDownSignal
  /\ Elapse(t)
  /\ UNCHANGED <<world, elapsed, outcome, late>>

Main == Disabled \/ MakeFifo \/ Fork \/ ExecServer
Child ==
  \/ Quit \/ PollSucceeds \/ PollFails \/ PollWait \/ Between \/ Beat
  \/ \E t \in 0..CheckTime : CheckSucceeds(t) \/ CheckFails(t) \/ Restart(t)
  \/ \E t \in 0..settings.pollDown : BeatWait(t)

Next ==
  \/ Main \/ Child
  \/ RunGone
  \/ WriteUp \/ WriteReady \/ WriteDown

Init ==
  /\ pc = "main" /\ run = "main"
  /\ sent = {} /\ queue = <<>>
  /\ down = FALSE /\ age = 0 /\ elapsed = 0
  /\ settings \in [debug : BOOLEAN, timeout : Timeouts, pollDown : PollDowns]
  /\ outcome = "none" /\ silence = 0 /\ late = 0

Spec == Init /\ [][Next]_vars

\* The processes run, ./ready ends, and s6-supervise reports the end of the
\* run script.  Nothing makes ./ready succeed or the run script end.
Fairness == WF_vars(Main) /\ WF_vars(Child) /\ WF_vars(WriteDown)

FairSpec == Spec /\ Fairness

(***************************************************************************)
(* Properties.                                                             *)
(***************************************************************************)
\* The child gives up its service only if the run script is gone, whatever
\* else s6-supervise wrote to the FIFO.
QuitOnlyIfDown == outcome = "quit" => run = "gone"

\* "failed for more than {timeout} seconds -- we are restarting this service"
\* (poll_ready.py:89): ./ready has not succeeded for that long.
RestartAfterSilence == outcome = "restart" => silence >= settings.timeout

\* Other bytes may be read instead of d, but each costs one check only: after
\* d was written at most three checks begin before the child knows of it.
HeedsDown == late < MaxLate

\* The d of a run script is not missed, however early it dies: "the process we
\* exec might die immediately (and the child wouldn't receive the 'down'
\* event)" (poll_ready.py:105).
DownHeeded == run = "gone" ~> pc = "over"

\* A service that was ready and whose ./ready keeps failing is restarted, unless
\* its run script is gone first: no failure is retried for ever.
ActsOnFailure == pc \in Heartbeat ~> (silence = 0 \/ pc = "over")

(***************************************************************************)
(* Why the invariants hold: an inductive one.                              *)
(***************************************************************************)
\* What is in the FIFO was written, each byte once, and nothing behind a d.
FifoInv ==
  /\ \A i \in DOMAIN queue : queue[i] \in sent
  /\ \A i, j \in DOMAIN queue : queue[i] = queue[j] => i = j
  /\ \A i \in DOMAIN queue : queue[i] = "d" => i = Len(queue)

\* A d ends a run script that had its child, and is seen where the loops test it.
EndInv ==
  /\ run = "gone" => pc \notin {"main", "fork"}
  /\ "d" \in sent => run = "gone"
  /\ down => "d" \in sent /\ pc \in {"poll", "beat", "over"}
  /\ outcome = "quit" => "d" \in sent
  /\ outcome # "none" => pc = "over"

\* Until the child has read a d that was written, it is last in the FIFO, and
\* each byte up to it stands for a check to come, one of which may have begun.
LateInv ==
  /\ "d" \notin sent => late = 0
  /\ late <= 3
  /\ "d" \in sent /\ ~down /\ pc # "over" =>
       /\ queue # <<>> /\ queue[Len(queue)] = "d"
       /\ late + Len(queue) <= IF pc \in {"look", "poll", "beat"} THEN 3 ELSE 4

\* In the second loop start is when ./ready last succeeded.
ClockInv ==
  /\ pc = "between" => silence = 0
  /\ pc \in {"beat", "check", "beatWait"} => age = silence
  /\ pc = "check" => elapsed = age
  /\ outcome = "restart" => silence = settings.timeout

PollInv == FifoInv /\ EndInv /\ LateInv /\ ClockInv
=============================================================================
