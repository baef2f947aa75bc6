----------------------------- MODULE StatusLine -----------------------------
(***************************************************************************)
(* How the state of a service gets from s6-svstat's line to pgctl: parse() *)
(* and svstat_parse() of pgctl/daemontools.py, and Service.svstat().  The  *)
(* line is a sequence of atoms: words, numbers, and the separators that    *)
(* parse() splits at.  Lines(s) is what s6 (external) may print of service *)
(* s, as the examples in svstat_parse's docstring show it; SvState(s) of   *)
(* Playground is what the rest of the model takes for the result.          *)
(***************************************************************************)
EXTENDS Playground, Sequences, FiniteSetsExt

None == <<"None">>
UNSUPERVISED == "could not get status, supervisor is down"
INVALID == "no such service"
CHDIR == "unable to chdir:"
FATAL == "s6-svstat: fatal: unable to read status for "
NeverStarted == {": No such file or directory", ": Broken pipe"}

(***************************************************************************)
(* The lines.  Every field comes with its separator in front; what is as   *)
(* it should be is left out.  s6 may say since when a service that is down *)
(* has been ready, and may leave a NUL behind `want up`.                   *)
(***************************************************************************)
Field(name, value) == <<", ", name, value>>
Ready == {<<>>, <<", ", "ready ", "1", " seconds">>}

LineUp(s, n, normally, ready) ==
  <<"up", " ">> \o (<<"(pid ", "1", ") ">> \o (<<n, " seconds">> \o (normally \o
    ((IF want[s] = "down" THEN Field("want ", "down") ELSE <<>>) \o ready))))
NotNormally == {<<>>, Field("normally ", "down")}
LinesUp(s) ==
  {LineUp(s, n, normally, ready) :
     n \in {"0", "1"}, normally \in NotNormally,
     ready \in {r \in Ready : (r # <<>>) = notified[s]}}

\* How, if ever, and how long ago the last run ended.
Exited(code) == <<"(exitcode ", code, ") ">>
Terminated == <<"(signal ", "SIGTERM", ") ">>
Endings(s) ==
  IF clean[s] THEN {[how |-> Exited("0"), ago |-> "0"]}
  ELSE {[how |-> <<>>, ago |-> "0"], [how |-> <<>>, ago |-> "1"],
        [how |-> Exited("0"), ago |-> "1"], [how |-> Exited("1"), ago |-> "0"],
        [how |-> Terminated, ago |-> "0"]}

LineDown(s, end, up, ready) ==
  <<"down", " ">> \o (end.how \o (<<end.ago, " seconds">> \o (Field("normally ", "up") \o
    ((IF want[s] = "up" THEN Field("want ", up) ELSE <<>>) \o ready))))
LinesDown(s) ==
  {LineDown(s, end, up, ready) : end \in Endings(s), up \in {"up", "up\\0"}, ready \in Ready}

\* svstat_string(): s6-svok is asked first, and s6-supervise may exit before
\* s6-svstat is.
Lines(s) ==
  IF ~SvOk(s)
  THEN {<<UNSUPERVISED>>} \cup {<<FATAL, "name", why>> : why \in NeverStarted}
  ELSE IF "run" \in procs[s] THEN LinesUp(s) ELSE LinesDown(s)

(***************************************************************************)
(* The parser.                                                             *)
(***************************************************************************)
\* Where the divider is, or the end of the string.
EndOf(string, divider) ==
  LET ends == {i \in DOMAIN string : string[i] = divider}
  IN IF ends = {} THEN Len(string) + 1 ELSE Min(ends)

\* parse() without a start.
UpTo(string, divider) ==
  LET end == EndOf(string, divider)
  IN [result |-> SubSeq(string, 1, end - 1), rest |-> SubSeq(string, end + 1, Len(string))]

\* What stands between start and divider, and what is left behind it: nothing
\* if there is no divider, everything if there is no start.
Parse(string, start, divider) ==
  IF string # <<>> /\ string[1] = start THEN UpTo(Tail(string), divider)
  ELSE [result |-> None, rest |-> string]

\* lstrip(', ')
LStrip(string) ==
  IF string # <<>> /\ string[1] = ", " THEN Tail(string) ELSE string

\* `want` as the state of a process; a NUL is stripped.
Process(word) ==
  CASE word \in {<<"up">>, <<"up\\0">>} -> "starting"
    [] word = <<"down">> -> "stopping"
    [] word = None -> "None"

\* The fields behind the first word, one after the other.
Pid(buffer) == Parse(buffer, "(pid ", ") ")
ExitCode(buffer) == Parse(Pid(buffer).rest, "(exitcode ", ") ")
Signal(buffer) == Parse(ExitCode(buffer).rest, "(signal ", ") ")
Seconds(buffer) == UpTo(Signal(buffer).rest, " seconds")

\* Mutant: the separator in front of it is still there.
NormallyUnstripped(buffer) == Parse(Seconds(buffer).rest, "normally ", ", ")

Normally(buffer) == Parse(LStrip(Seconds(buffer).rest), "normally ", ", ")
Wanted(buffer) == Parse(Normally(buffer).rest, "want ", ", ")
ReadyFor(buffer) == Parse(Wanted(buffer).rest, "ready ", " seconds")

Status(state, buffer) ==
  LET isReady == ReadyFor(buffer).result # None /\ state = "up"
  IN [state |-> IF isReady THEN "ready" ELSE state,
      exitcode |-> ExitCode(buffer).result,
      seconds |-> IF isReady THEN ReadyFor(buffer).result ELSE Seconds(buffer).result,
      process |-> Process(Wanted(buffer).result), parsed |-> ReadyFor(buffer).rest = <<>>]

\* What is neither up nor down; an error that is not known is the state itself.
Otherwise(status) ==
  CASE status[1] = CHDIR -> INVALID
    [] status[1] = FATAL /\ status[Len(status)] \in NeverStarted -> UNSUPERVISED
    [] OTHER -> status[1]

\* svstat_parse()
SvStatParse(status) ==
  IF status[1] \in {"up", "down"} THEN Status(status[1], UpTo(status, " ").rest)
  ELSE [state |-> Otherwise(status),
        exitcode |-> None, seconds |-> None, process |-> "None", parsed |-> TRUE]

\* Service._svstat_path().
SvStatOf(s, line) ==
  LET result == SvStatParse(line)
  IN IF /\ s \notin Polled
        /\ \/ result.state = "up" /\ result.process = "None"
           \/ /\ result.process = "starting"
              /\ result.exitcode = <<"0">> /\ result.seconds = <<"0">>
     THEN [result EXCEPT !.state = "ready"] ELSE result

(***************************************************************************)
(* Property.                                                               *)
(***************************************************************************)
\* Whatever s6-svstat prints of a service in the state it is in, whichever of
\* the optional fields are there, svstat_parse() consumes the whole line (its
\* assertion holds) and pgctl sees the state that SvState says.
StatusIsRead ==
  \A s \in Services : \A line \in Lines(s) :
    LET status == SvStatOf(s, line)
    IN /\ status.parsed
       /\ status.state = IF SvState(s) = "unsupervised" THEN UNSUPERVISED ELSE SvState(s)
=============================================================================
