---------------------------- MODULE MCMicroAgent ----------------------------
(***************************************************************************)
(* A small instance of MicroAgent: one agent that may call itself, spawned *)
(* at most twice, so that a second life can meet what the first left.      *)
(***************************************************************************)
EXTENDS MicroAgent, TLC

CONSTANTS a, k1, k2

MCAgents    == {a}
MCCalls     == {k1, k2}
MCWhitelist == a :> {a}
=============================================================================
