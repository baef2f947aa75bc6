----------------------------- MODULE Playground -----------------------------
(***************************************************************************)
(* The processes of a pgctl playground as the operating system and the s6  *)
(* tools keep them: for every service the s6-supervise process, the run    *)
(* script, what the run script forked, and the logger.  s6 itself is not   *)
(* in the repository: it is modelled from how pgctl/service.py,            *)
(* pgctl/daemontools.py and pgctl/poll_ready.py use it.  The operators     *)
(* pgctl calls (Spawn, SvcUp, SvState, RolesSeen, ...) are translated from *)
(* those files.  Module Pgctl composes this module with the commands.      *)
(*                                                                         *)
(* A process is known by the role it plays for its service; a role stands  *)
(* for every process that plays it:                                        *)
(*   sup     s6-supervise                                                  *)
(*   run     the run script, child of a live s6-supervise                  *)
(*   old     a run script whose s6-supervise died                          *)
(*   poll    pgctl-poll-ready; pollEnd: the same, told that its run exited *)
(*   sub     a descendant of the run script that kept every descriptor     *)
(*   closed  a descendant that closed the lock's descriptor                *)
(*   fg      the run script that `pgctl debug` became                      *)
(***************************************************************************)
EXTENDS Naturals, FiniteSets

CONSTANTS
  Services,   \* the services of the playground
  Polled,     \* those with a `ready` script, hence a notification-fd
  Tracing,    \* the configuration's environment_process_tracing
  Strays,     \* what a run script may fork, a subset of {"sub", "closed"}
  Faults      \* faults of the environment that may happen

ASSUME PlaygroundAssumption ==
  /\ IsFiniteSet(Services) /\ Polled \subseteq Services
  /\ Tracing \in BOOLEAN
  /\ Strays \subseteq {"sub", "closed"}
  /\ Faults \subseteq {"supkill", "crash", "hook", "msg", "poll", "nested"}

VARIABLES
  procs,      \* procs[s]: the roles that have a live process
  dying,      \* dying[s]: the roles whose processes were sent SIGKILL and still exist
  superv,     \* superv[s]: what s6-supervise does, when procs[s] has "sup"
  want,       \* want[s]: the state it was last asked to keep
  notified,   \* notified[s]: the run script's readiness was announced
  clean,      \* clean[s]: the last run exited 0, and less than a second ago
  logger      \* logger[s]: the s6-supervise of s's .log, with its s6-log

pgVars == <<procs, dying, superv, want, notified, clean, logger>>

Roles == {"sup", "run", "old", "poll", "pollEnd", "sub", "closed", "fg"}
FdRoles == Roles \ {"closed"}   \* those that inherited the lock's descriptor
RunRoles == {"run", "old", "fg"}             \* those that are a run script

PgTypeOK ==
  /\ procs \in [Services -> SUBSET Roles]
  /\ dying \in [Services -> SUBSET Roles]
  /\ superv \in [Services -> {"booting", "serving", "exiting"}]
  /\ want \in [Services -> {"up", "down"}]
  /\ notified \in [Services -> BOOLEAN]
  /\ clean \in [Services -> BOOLEAN]
  /\ logger \in [Services -> {"gone", "booting", "live", "exiting"}]

(***************************************************************************)
(* What pgctl can see.                                                     *)
(***************************************************************************)

\* s6-svok: someone listens on the service's control FIFO.
SvOk(s) == "sup" \in procs[s] /\ superv[s] # "booting"

\* svstat_parse(svstat_string()): what s6-svstat says of the service.
SvStat(s) ==
  IF ~SvOk(s) THEN "unsupervised"
  ELSE IF "run" \notin procs[s] THEN "down"
  ELSE IF notified[s] THEN "ready" ELSE "up"

\* Service.svstat(): a service without notification-fd is taken for ready while
\* it is up and not asked to go down, and between a clean exit and the restart
\* that follows at once.
SvState(s) ==
  IF /\ s \notin Polled /\ want[s] = "up"
     /\ SvStat(s) = "up" \/ (SvStat(s) = "down" /\ clean[s])
  THEN "ready" ELSE SvStat(s)

IsLoggerRunning(s) == logger[s] \in {"live", "exiting"}

\* fuser(): those that have the service's directory open.
HaveOpen(s) == procs[s] \cap FdRoles

\* find_processes_with_environ(): those born with PGCTL_SERVICE, that is all.
BornWith(s) == procs[s]

\* processes_currently_running()
RolesSeen(s) == HaveOpen(s) \cup IF Tracing THEN BornWith(s) ELSE {}

(***************************************************************************)
(* What pgctl does to one service.                                         *)
(***************************************************************************)

\* The two Popen() calls of background(); the new s6-supervise inherits the
\* lock's descriptor, the logger's does not (close_fds).
Spawn(s) ==
  /\ procs' = [procs EXCEPT ![s] = @ \cup {"sup"}]
  /\ dying' = [dying EXCEPT ![s] = @ \ {"sup"}]
  /\ logger' = [logger EXCEPT ![s] = IF IsLoggerRunning(s) THEN @ ELSE "booting"]
  /\ UNCHANGED <<superv, want, notified, clean>>

\* svc -u .log, then svc -u: the second is not reached if the first raises
\* Unsupervised.  s6-supervise may or may not note a -u once it is exiting.
SvcUp(s) ==
  /\ IF SvOk(s) /\ IsLoggerRunning(s)
     THEN \E w \in {"up"} \cup IF superv[s] = "exiting" THEN {want[s]} ELSE {} :
            want' = [want EXCEPT ![s] = w]
     ELSE UNCHANGED want
  /\ UNCHANGED <<procs, dying, superv, notified, clean, logger>>

\* svc -dx: SIGTERM for the run script, and exit once it is gone.
SvcDownExit(s) ==
  /\ superv' = [superv EXCEPT ![s] = IF SvOk(s) THEN "exiting" ELSE @]
  /\ want' = [want EXCEPT ![s] = IF SvOk(s) THEN "down" ELSE @]
  /\ UNCHANGED <<procs, dying, notified, clean, logger>>

\* svc -kx .log: SIGKILL for s6-log, and exit.
SvcKillLog(s) ==
  /\ logger' = [logger EXCEPT ![s] = IF IsLoggerRunning(s) THEN "exiting" ELSE @]
  /\ UNCHANGED <<procs, dying, superv, want, notified, clean>>

\* terminate_processes(processes_currently_running()): SIGKILL is sent to
\* what the scan saw; a process forked after the scan escapes (see Fork).
KillSeen(s) ==
  /\ dying' = [dying EXCEPT ![s] = @ \cup RolesSeen(s)]
  /\ UNCHANGED <<procs, superv, want, notified, clean, logger>>

\* exec_() of the run script by `pgctl debug`; killed: the command was
\* already sent SIGKILL.
Foreground(s, killed) ==
  /\ procs' = [procs EXCEPT ![s] = @ \cup {"fg"}]
  /\ dying' = [dying EXCEPT ![s] = IF killed /\ ("fg" \in procs[s] => "fg" \in @)
                                    THEN @ \cup {"fg"} ELSE @ \ {"fg"}]
  /\ UNCHANGED <<superv, want, notified, clean, logger>>

(***************************************************************************)
(* The environment: s6 and the services' own processes.  A process that    *)
(* was sent SIGKILL keeps running, and holding the lock, until it is gone. *)
(***************************************************************************)

Rename(R, from, to) == IF from \in R THEN (R \ {from}) \cup {to} ELSE R

\* A role is dying if all its processes are, those that get it with the others.
StillDying(s, gone, from, to) ==
  LET d == Rename(dying[s] \ {gone}, from, to)
  IN IF {from, to} \cap procs[s] \subseteq dying[s] THEN d ELSE d \ {to}

\* s6-supervise opens its control FIFO.
Boot(s) ==
  /\ "sup" \in procs[s] /\ superv[s] = "booting"
  /\ superv' = [superv EXCEPT ![s] = "serving"]
  /\ UNCHANGED <<procs, dying, want, notified, clean, logger>>

\* It starts the run script, at once for want of a `down` file; that of a
\* polled service leaves pgctl-poll-ready in the background.
StartRun(s) ==
  LET new == {"run"} \cup IF s \in Polled THEN {"poll"} ELSE {}
  IN /\ "sup" \in procs[s] /\ "run" \notin procs[s]
     /\ superv[s] = "serving" /\ want[s] = "up"
     /\ procs' = [procs EXCEPT ![s] = @ \cup new]
     /\ dying' = [dying EXCEPT ![s] = @ \ new]
     /\ clean' = [clean EXCEPT ![s] = FALSE]
     /\ UNCHANGED <<superv, want, notified, logger>>

\* The ready script succeeds for the first time.
NotifyReady(s) ==
  /\ {"run", "poll"} \subseteq procs[s] /\ ~notified[s]
  /\ notified' = [notified EXCEPT ![s] = TRUE]
  /\ UNCHANGED <<procs, dying, superv, want, clean, logger>>

\* The run script exits or dies; s6-supervise tells the event FIFOs.
RunGone(s) ==
  /\ {"sup", "run"} \subseteq procs[s]
  /\ procs' = [procs EXCEPT ![s] = Rename(@ \ {"run"}, "poll", "pollEnd")]
  /\ dying' = [dying EXCEPT ![s] = StillDying(s, "run", "poll", "pollEnd")]
  /\ notified' = [notified EXCEPT ![s] = FALSE]
  /\ \E z \in IF "run" \in dying[s] THEN {FALSE} ELSE BOOLEAN :
       clean' = [clean EXCEPT ![s] = z]
  /\ UNCHANGED <<superv, want, logger>>

\* s6-supervise exits as it was asked, or dies and leaves its run script.
SupGone(s) ==
  /\ "sup" \in procs[s]
  /\ \/ "sup" \in dying[s]
     \/ superv[s] = "exiting" /\ "run" \notin procs[s]
  /\ procs' = [procs EXCEPT ![s] = Rename(@ \ {"sup"}, "run", "old")]
  /\ dying' = [dying EXCEPT ![s] = StillDying(s, "sup", "run", "old")]
  /\ superv' = [superv EXCEPT ![s] = "booting"]
  /\ want' = [want EXCEPT ![s] = "up"]
  /\ notified' = [notified EXCEPT ![s] = FALSE]
  /\ clean' = [clean EXCEPT ![s] = FALSE]
  /\ UNCHANGED logger

\* Any other process exits or dies; pgctl-poll-ready does not stop by itself
\* before it is told.
OtherGone(s, r) ==
  /\ r \in procs[s] \ {"sup", "run"}
  /\ r = "poll" => r \in dying[s]
  /\ procs' = [procs EXCEPT ![s] = @ \ {r}]
  /\ dying' = [dying EXCEPT ![s] = @ \ {r}]
  /\ UNCHANGED <<superv, want, notified, clean, logger>>

\* A service's process forks.  If its parent is dying this is the fork that
\* falls between the scan and the kill.
Fork(s, r) ==
  /\ r \in Strays
  /\ \/ procs[s] \cap (RunRoles \cup {"sub"}) # {}
     \/ r = "closed" /\ r \in procs[s]
  /\ procs' = [procs EXCEPT ![s] = @ \cup {r}]
  /\ dying' = [dying EXCEPT ![s] = @ \ {r}]
  /\ UNCHANGED <<superv, want, notified, clean, logger>>

\* Someone kills s6-supervise.
SupKilled(s) ==
  /\ "supkill" \in Faults
  /\ "sup" \in procs[s]
  /\ dying' = [dying EXCEPT ![s] = @ \cup {"sup"}]
  /\ UNCHANGED <<procs, superv, want, notified, clean, logger>>

LogBoot(s) ==
  /\ logger[s] = "booting"
  /\ logger' = [logger EXCEPT ![s] = "live"]
  /\ UNCHANGED <<procs, dying, superv, want, notified, clean>>

LogExit(s) ==
  /\ logger[s] = "exiting"
  /\ logger' = [logger EXCEPT ![s] = "gone"]
  /\ UNCHANGED <<procs, dying, superv, want, notified, clean>>

\* What was sent SIGKILL is gone in the end.
Reap(s) ==
  \/ "run" \in dying[s] /\ RunGone(s)
  \/ "sup" \in dying[s] /\ SupGone(s)
  \/ \E r \in dying[s] : OtherGone(s, r)

Environment(s) ==
  \/ Boot(s) \/ StartRun(s) \/ NotifyReady(s)
  \/ RunGone(s) \/ SupGone(s) \/ \E r \in Roles : OtherGone(s, r)
  \/ \E r \in Roles : Fork(s, r)
  \/ SupKilled(s)
  \/ LogBoot(s) \/ LogExit(s)

\* A service of a playground is down, or up as a successful start left it.
PgInit(up) ==
  /\ procs = [s \in Services |->
       IF s \notin up THEN {}
       ELSE {"sup", "run"} \cup IF s \in Polled THEN {"poll"} ELSE {}]
  /\ dying = [s \in Services |-> {}]
  /\ superv = [s \in Services |-> IF s \in up THEN "serving" ELSE "booting"]
  /\ want = [s \in Services |-> "up"]
  /\ notified = [s \in Services |-> s \in up \cap Polled]
  /\ clean = [s \in Services |-> FALSE]
  /\ logger = [s \in Services |-> IF s \in up THEN "live" ELSE "gone"]
=============================================================================
