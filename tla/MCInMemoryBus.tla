--------------------------- MODULE MCInMemoryBus ---------------------------
(***************************************************************************)
(* A small instance of InMemoryBus: agent a may call b, b may call itself, *)
(* neither may call the other way round.                                   *)
(***************************************************************************)
EXTENDS InMemoryBus, TLC

CONSTANTS a, b, k1, k2, k3

MCAgents    == {a, b}
MCCalls     == {k1, k2, k3}
MCWhitelist == a :> {b} @@ b :> {b}
============================================================================
