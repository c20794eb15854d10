--------------------------- MODULE StartOrderSpec ---------------------------
(***************************************************************************)
(* What resolve_start_order promises its caller (cmd/nulld/src/service.rs, *)
(* its doc comment and its two errors), without saying how: one answer,    *)
(* which is a start order of the graph when there is one, the error        *)
(* "missing" when a dependency names no service, and the error "cycle"     *)
(* only for a graph that has one.                                          *)
(***************************************************************************)
EXTENDS ServiceGraph

CONSTANTS
  Services,     (* the names of the ServiceDefs given to the resolver      *)
  Names         (* every name a depends_on entry can hold                  *)

VARIABLES
  depends_on,   (* the depends_on list of each service: a Seq(Names)       *)
  answer,       (* "none", then the verdict: "ok", "missing" or "cycle"    *)
  order         (* the order answered, when the answer is "ok"             *)

vars == <<depends_on, answer, order>>

Needs == [s \in Services |-> Range(depends_on[s])]

Init ==
  /\ depends_on \in [Services -> Seq(Names)]
  /\ answer = "none"
  /\ order = << >>

Accept ==
  /\ answer = "none"
  /\ answer' = "ok"
  /\ IsStartOrder(order', Services, Needs)
  /\ UNCHANGED depends_on

Reject ==
  /\ answer = "none"
  /\ \/ /\ \E s \in Services : Needs[s] \ Services # {}
        /\ answer' = "missing"
     \/ /\ Cyclic(Services, Needs)
        /\ answer' = "cycle"
  /\ order' = << >>
  /\ UNCHANGED depends_on

Next == Accept \/ Reject

Spec == Init /\ [][Next]_vars
=============================================================================
