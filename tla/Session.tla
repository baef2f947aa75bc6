------------------------------- MODULE Session -------------------------------
(***************************************************************************)
(* One command from its arguments to its end: it finds its options         *)
(* (module Config), which services it is about (Aliases), and changes      *)
(* their state (ChangeLoop).  The modules follow one another, and each     *)
(* begins with what the one before it has made; what it worked with is     *)
(* forgotten.  Other commands are in module Pgctl.                         *)
(***************************************************************************)
EXTENDS Aliases, ChangeLoop

CONSTANT Limits   \* what the files timeout-ready and timeout-stop may say

\* The clock shows every time at which a service may be given up.
ASSUME SessionAssumption ==
  /\ Limits \cup Timeouts \subseteq 0..Horizon
  /\ Playground \in Seq(ToSet(Playground))

VARIABLES
  stage,      \* "config", "aliases", "loop" or "over"
  options,    \* what of the options is still needed
  outcome     \* how the command ended

sessionVars == <<stage, options, outcome>>
vars == <<sessionVars, configVars, aliasVars, loopVars>>

NoOptions == [timeout |-> 0, no_force |-> FALSE]
NoWorld == <<>>

ForgetConfig ==
  /\ step' = "files" /\ world' = NoWorld /\ queue' = <<>>
  /\ result' = Empty /\ heap' = <<>> /\ merged' = <<>>
ForgetAliases == Expand(<<>>, NoAliases)
ForgetLoop == BeginLoop(<<>>, "Start", FALSE, FALSE, <<>>)

End(how) == stage' = "over" /\ options' = NoOptions /\ outcome' = how

ConfigStep ==
  /\ stage = "config" /\ Combining
  /\ UNCHANGED <<sessionVars, aliasVars, loopVars>>

\* AmbiguousConfig leaves main().
RaiseAmbiguous ==
  /\ stage = "config" /\ step = "ambiguous"
  /\ End("ambiguous") /\ ForgetConfig
  /\ UNCHANGED <<aliasVars, loopVars>>

\* PgctlApp(config), and the first use of self.services.
BeginAliases ==
  /\ stage = "config" /\ step = "combined"
  /\ stage' = "aliases"
  /\ options' = [timeout |-> Result.timeout.one, no_force |-> Result.no_force.one]
  /\ Expand(Result.services.one, Result.aliases)
  /\ ForgetConfig
  /\ UNCHANGED <<outcome, loopVars>>

AliasStep ==
  /\ stage = "aliases" /\ Expanding
  /\ UNCHANGED <<sessionVars, configVars, loopVars>>

RaiseAlias ==
  /\ stage = "aliases" /\ progress \in {"circular", "crashed"}
  /\ End(progress) /\ ForgetAliases
  /\ UNCHANGED <<configVars, loopVars>>

\* ensure_exists() raises NoSuchService; with no service at all every service is
\* in the state already.
DoNothing ==
  /\ stage = "aliases" /\ progress = "expanded"
  /\ \/ Services = <<>> /\ End("nothing")
     \/ ToSet(Services) \ ToSet(Playground) # {} /\ End("noSuchService")
  /\ ForgetAliases
  /\ UNCHANGED <<configVars, loopVars>>

\* A service has its own timeout in a file, or that of the options.
BeginChange ==
  /\ stage = "aliases" /\ progress = "expanded"
  /\ Services # <<>> /\ ToSet(Services) \subseteq ToSet(Playground)
  /\ stage' = "loop" /\ options' = NoOptions
  /\ \E kind \in Kinds, viewer \in BOOLEAN,
        limit \in [ToSet(Services) -> Limits \cup {options.timeout}] :
       BeginLoop(Services, kind, ~options.no_force, viewer, limit)
  /\ ForgetAliases
  /\ UNCHANGED <<outcome, configVars>>

LoopStep ==
  /\ stage = "loop" /\ Looping
  /\ UNCHANGED <<sessionVars, configVars, aliasVars>>

EndChange ==
  /\ stage = "loop" /\ loop.pc = "over"
  /\ End("changed") /\ ForgetLoop
  /\ UNCHANGED <<configVars, aliasVars>>

Advance ==
  \/ ConfigStep \/ RaiseAmbiguous \/ BeginAliases
  \/ AliasStep \/ RaiseAlias \/ DoNothing \/ BeginChange
  \/ LoopStep \/ EndChange

Disturb ==
  /\ stage = "loop" /\ Outside
  /\ UNCHANGED <<sessionVars, configVars, aliasVars>>

Next == Advance \/ Disturb

Init ==
  /\ stage = "config" /\ options = NoOptions /\ outcome = "none"
  /\ ConfigInit
  /\ AliasInit
  /\ LoopInit

Spec == Init /\ [][Next]_vars

\* The command runs.  Nothing makes its services change.
FairSpec == Spec /\ WF_vars(Advance)

(***************************************************************************)
(* Properties.                                                             *)
(***************************************************************************)
OptionsTypeOK ==
  /\ stage \in {"config", "aliases", "loop", "over"}
  /\ step \in {"files", "ambiguous", "app", "cli", "all", "combined"}
  /\ step \in {"files", "ambiguous"} => queue = <<>> /\ result = Empty
  /\ \A i \in DOMAIN queue : queue[i].into \in 0..Len(heap)
  /\ \A k \in DOMAIN result : result[k].is = "ref" => result[k].ref \in DOMAIN heap
  /\ stage = "aliases" => options.timeout \in Timeouts

AliasTypeOK ==
  /\ progress \in {"expand", "expanded", "circular", "crashed"}
  /\ found \in Seq(ToSet(found))

SessionTypeOK == OptionsTypeOK /\ AliasTypeOK /\ LoopTypeOK

\* Every command ends, but for a stop with force, which kills and checks as long
\* as it takes, and a log viewer one of whose tails was killed.
SessionEnds ==
  <>[](stage = "over" \/ (stage = "loop" /\ (CanForce \/ loop.pc = "hung")))

\* Why MergedByPriority (module Config) holds of a whole command: the options are
\* put together once, from a world that is there, and then forgotten.
OptionsInv ==
  /\ stage = "config" => world \in Worlds /\ ConfigInv
  /\ stage # "config" => step = "files"
=============================================================================
