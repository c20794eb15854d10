---------------------------- MODULE ServiceGraph ----------------------------
(***************************************************************************)
(* Vocabulary shared by the modules about nulld: what a dependency graph   *)
(* of services is, which sequences are start orders of it, and what it     *)
(* means for it to have no start order.  A graph is a set S of services    *)
(* and a function needs that gives each one the set of services its        *)
(* ServiceDef.depends_on names.                                            *)
(***************************************************************************)
EXTENDS Naturals, Sequences, FiniteSets, Functions

(* Every service of S occurs in order, once, and nothing else does. *)
IsArrangement(order, S) ==
  /\ order \in Seq(S)
  /\ Range(order) = S
  /\ IsInjective(order)

(* Whatever order[i] needs comes before it. *)
RespectsNeeds(order, needs) ==
  \A i \in DOMAIN order : \A d \in needs[order[i]] :
    \E j \in 1 .. i - 1 : order[j] = d

IsStartOrder(order, S, needs) ==
  IsArrangement(order, S) /\ RespectsNeeds(order, needs)

(* Some services need each other in a ring: in a finite graph this says    *)
(* that every member of a non-empty set of services needs another member.  *)
Cyclic(S, needs) ==
  \E C \in (SUBSET S) \ {{}} : \A s \in C : needs[s] \cap C # {}
=============================================================================
