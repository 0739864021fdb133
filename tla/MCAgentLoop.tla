---------------------------- MODULE MCAgentLoop -----------------------------
(***************************************************************************)
(* A small instance of AgentLoop: two call ids, results of two sizes and a *)
(* window that two large results overflow.  A history may be seeded that   *)
(* ends in a call nobody answered.                                         *)
(***************************************************************************)
EXTENDS AgentLoop

CONSTANTS c1, c2, e1

MCCallIds   == {c1, c2}
MCEvents    == {e1}
MCToolSizes == {3}
MCSeeds     == {<< <<"user", {}>>, <<"assistant", {c1}>> >>}
=============================================================================
