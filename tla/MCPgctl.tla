------------------------------ MODULE MCPgctl -------------------------------
(***************************************************************************)
(* Small playgrounds for Pgctl.                                            *)
(***************************************************************************)
EXTENDS Pgctl, StatusLine, TLC

CONSTANTS a, b   \* two services

MCOne == {<<a>>}
MCEach == {<<a>>, <<b>>}
MCSorted == {<<a>>, <<b>>, <<a, b>>}
MCBoth == {<<a, b>>}
MCDown == {{}}
MCUp == {Services}
MCUpOrDown == {{}, Services}
MCFirstUp == {{a}}

\* The commands are alike.
MCSymmetry == Permutations(Commands)
=============================================================================
