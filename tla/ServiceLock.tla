----------------------------- MODULE ServiceLock -----------------------------
(***************************************************************************)
(* What the locks of pgctl promise, without commands, supervisors, flocks  *)
(* or retries: a service has one manager at a time and one run script at   *)
(* a time, and while its manager counts on the service being stopped,      *)
(* nobody brings it up again.  Module Pgctl implements this specification. *)
(***************************************************************************)
CONSTANTS
  Services,
  Managers    \* whoever may manage services

VARIABLES
  managed,    \* managed[c]: the services c has locked
  stopped,    \* stopped[c]: those of them that c found stopped
  instance    \* instance[s]: the run scripts of s, at most one: "run" under a
              \* supervisor, "old" without, "fg" in someone's terminal

lockVars == <<managed, stopped, instance>>

Kinds == {"run", "old", "fg"}

LockTypeOK ==
  /\ managed \in [Managers -> SUBSET Services]
  /\ stopped \in [Managers -> SUBSET Services]
  /\ instance \in [Services -> SUBSET Kinds]

LockInit ==
  /\ managed = [c \in Managers |-> {}]
  /\ stopped = [c \in Managers |-> {}]
  /\ instance \in [Services -> {{}, {"run"}}]

\* c locks the services S, all at once and none of them twice.
Acquire(c, S) ==
  /\ managed[c] = {}
  /\ \A d \in Managers : managed[d] \cap S = {}
  /\ managed' = [managed EXCEPT ![c] = S]
  /\ UNCHANGED <<stopped, instance>>

\* c sees that s is stopped, and counts on it from now on.
FindStopped(c, s) ==
  /\ s \in managed[c] /\ instance[s] = {}
  /\ stopped' = [stopped EXCEPT ![c] = @ \cup {s}]
  /\ UNCHANGED <<managed, instance>>

\* c is done, or dies.
Release(c) ==
  /\ managed' = [managed EXCEPT ![c] = {}]
  /\ stopped' = [stopped EXCEPT ![c] = {}]
  /\ UNCHANGED instance

\* A supervisor starts the run script of s.
BeginRun(s) ==
  /\ instance[s] = {}
  /\ \A c \in Managers : s \notin stopped[c]
  /\ instance' = [instance EXCEPT ![s] = {"run"}]
  /\ UNCHANGED <<managed, stopped>>

\* Someone runs it in the foreground, which takes no lock of this kind.
BeginForeground(s) ==
  /\ instance[s] = {}
  /\ instance' = [instance EXCEPT ![s] = {"fg"}]
  /\ UNCHANGED <<managed, stopped>>

\* Its supervisor dies and leaves the run script behind.
Orphan(s) ==
  /\ instance[s] = {"run"}
  /\ instance' = [instance EXCEPT ![s] = {"old"}]
  /\ UNCHANGED <<managed, stopped>>

End(s) ==
  /\ instance' = [instance EXCEPT ![s] = {}]
  /\ UNCHANGED <<managed, stopped>>

LockNext ==
  \/ \E c \in Managers :
       \/ \E S \in SUBSET Services : Acquire(c, S)
       \/ \E s \in Services : FindStopped(c, s)
       \/ Release(c)
  \/ \E s \in Services :
       BeginRun(s) \/ BeginForeground(s) \/ Orphan(s) \/ End(s)

LockSpec == LockInit /\ [][LockNext]_lockVars
=============================================================================
