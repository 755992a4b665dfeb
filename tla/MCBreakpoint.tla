---------------------------- MODULE MCBreakpoint ----------------------------
(* Two exchanges that follow one another on a connection, for TLC: rules   *)
(* match both messages of the first and the request of the second.         *)
EXTENDS Breakpoint, TLC

CONSTANTS e1, e2, c1

MCIds       == {e1, e2}
MCOneConn   == {c1}
MCSameConn  == [i \in Ids |-> c1]
MCRuleSets  == {{}, (Ids \X {"request", "response"}) \ {<<e2, "response">>}}
=============================================================================
