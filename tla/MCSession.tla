------------------------------ MODULE MCSession ------------------------------
(***************************************************************************)
(* Small worlds for Session.                                               *)
(***************************************************************************)
EXTENDS Session, AliasMeaning

\* Files: none, one of a kind that is read, two of them, and one beside a file
\* that is not.
File(o) == [known |-> TRUE, options |-> o]
Unknown == [known |-> FALSE, options |-> Empty]

Names == {"default", "g", "a", ALL_SERVICES}
UpToTwo == UNION {[1..n -> Names] : n \in 0..2}

World(system, home, near, far, environ, args) ==
  [ noGlobal |-> FALSE, system |-> system, home |-> home,
    dirs |-> <<[fs |-> 1, files |-> near], [fs |-> 1, files |-> far],
               [fs |-> 2, files |-> <<File([timeout |-> One(9)])>>]>>,
    environ |-> environ, file |-> <<>>, args |-> args ]

\* The options of the command line that are always there.
Args == [no_force |-> One(FALSE)]

Aliasing(f) == File([aliases |-> Mapping(f)])

\* Every alias graph on two aliases and two services.
MCGraphs ==
  { World(<<>>, <<Aliasing([default |-> d, g |-> g])>>, <<>>, <<>>, Empty, Args) :
      d \in UpToTwo, g \in UpToTwo }

\* Every combination of places that speak of the same options.
G(s) == [g |-> <<s>>]
Places ==
  { <<>>, <<Aliasing(G("a"))>>, <<Aliasing([default |-> <<"g">>])>>,
    <<File([aliases |-> One(<<>>)])>>,
    <<File([timeout |-> One(3), services |-> One(<<"g", "b">>)])>> }

MCPlaces ==
  { World(s, h, n, f, e, a) :
      s \in {<<>>, <<Aliasing([g |-> <<"b">>, default |-> <<"b", "g">>])>>},
      h \in Places, n \in Places, f \in Places,
      e \in {Empty, [services |-> One(<<"a", "b">>)], [timeout |-> One(1)]},
      a \in {Args, Args @@ [services |-> One(<<"b", ALL_SERVICES>>)]} }

\* What else may be found.
Odd == World(<<>>, <<File([timeout |-> One(3)])>>, <<>>, <<>>, Empty,
             [no_force |-> One(TRUE)])
MCOdd ==
  { Odd, [Odd EXCEPT !.noGlobal = TRUE],
    [Odd EXCEPT !.home = <<Unknown, File([services |-> One(<<>>)])>>],
    [Odd EXCEPT !.dirs[1].files = <<File(Empty), File(Empty)>>],
    [Odd EXCEPT !.args = @ @@ [services |-> One(<<"missing", "a">>)]],
    [Odd EXCEPT !.file = <<[timeout |-> One(1), aliases |-> Mapping([default |-> <<"b">>])]>>] }

MCWorlds == MCGraphs \cup MCPlaces \cup MCOdd
MCPlayground == <<"a", "b">>
=============================================================================
