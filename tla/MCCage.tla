------------------------------- MODULE MCCage -------------------------------
EXTENDS Cage, TLC

CONSTANTS a1, a2, shared, own, private

(* Both agents need one address, the first also one of its own; a name of  *)
(* the second resolves into a private range.                               *)
AgentDomains == a1 :> {shared, own} @@ a2 :> {shared, private}

OneDomain == a1 :> {own}

Interchangeable == Permutations(Pids)
=============================================================================
