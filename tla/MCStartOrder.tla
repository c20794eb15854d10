---------------------------- MODULE MCStartOrder ----------------------------
(***************************************************************************)
(* Every dependency graph over a few services whose depends_on lists have  *)
(* at most MaxDeps entries, self-dependencies, repeated entries and names  *)
(* of no service included.                                                 *)
(***************************************************************************)
EXTENDS StartOrder

CONSTANTS MaxDeps      (* bound: longest depends_on list enumerated *)

Lists == UNION {[1 .. n -> Names] : n \in 0 .. MaxDeps}

MCInit == \E graph \in [Services -> Lists] : StartWith(graph)

MCSpec == MCInit /\ [][Next]_vars /\ WF_vars(Next)

=============================================================================
