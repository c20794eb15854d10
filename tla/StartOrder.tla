----------------------------- MODULE StartOrder -----------------------------
(***************************************************************************)
(* resolve_start_order of cmd/nulld/src/service.rs: the check that every   *)
(* dependency exists and Kahn's topological sort, one action per iteration *)
(* of its loops.  The order in which a HashMap is iterated is not fixed by *)
(* the code, so the initial queue is any arrangement of the services       *)
(* without dependencies and the dependents of a service are released in    *)
(* any order.                                                              *)
(***************************************************************************)
EXTENDS ServiceGraph

CONSTANTS
  Services,     (* the names of the ServiceDefs, distinct: they are the    *)
                (* keys of the supervisor's HashMap                        *)
  Names         (* every name a depends_on entry can hold                  *)

ASSUME ServicesAreNamed == IsFiniteSet(Services) /\ Services \subseteq Names

VARIABLES
  depends_on,   (* input: each service's depends_on list, where the same   *)
                (* name may occur more than once                           *)
  pc,           (* where the function is, or its result                    *)
  in_degree,    (* per service, the entries not released yet               *)
  queue,        (* services ready to be ordered                            *)
  order,        (* the order built so far                                  *)
  releasing     (* the entries of dependents[name] still to be visited     *)

vars == <<depends_on, pc, in_degree, queue, order, releasing>>

Results == {"ok", "missing", "cycle"}

Needs == [s \in Services |-> Range(depends_on[s])]

(* A depends_on entry is known by its service and its index in the list. *)
EntriesNaming(name) ==
  {e \in Services \X (UNION {DOMAIN depends_on[s] : s \in Services}) :
     e[2] \in DOMAIN depends_on[e[1]] /\ depends_on[e[1]][e[2]] = name}

Arrangements(S) == {f \in [1 .. Cardinality(S) -> S] : IsInjective(f)}

(***************************************************************************)
(* Behaviour.                                                              *)
(***************************************************************************)
StartWith(graph) ==
  /\ depends_on = graph
  /\ pc = "validate"
  /\ in_degree = [s \in Services |-> 0]
  /\ queue = << >>
  /\ order = << >>
  /\ releasing = {}

Init == \E graph \in [Services -> Seq(Names)] : StartWith(graph)

Validate ==
  /\ pc = "validate"
  /\ \E s \in Services : ~(Needs[s] \subseteq Services)
  /\ pc' = "missing"
  /\ UNCHANGED <<depends_on, in_degree, queue, order, releasing>>

(* Mutant of CountDegrees: a dependency listed twice is counted once. *)
CountDistinct ==
  /\ pc = "validate"
  /\ \A s \in Services : Needs[s] \subseteq Services
  /\ in_degree' = [s \in Services |-> Cardinality(Needs[s])]
  /\ queue' \in Arrangements({s \in Services : in_degree'[s] = 0})
  /\ pc' = "sort"
  /\ UNCHANGED <<depends_on, order, releasing>>

(* Mutant of CountDegrees: the check for missing dependencies is left out. *)
CountUnchecked ==
  /\ pc = "validate"
  /\ in_degree' = [s \in Services |-> Len(depends_on[s])]
  /\ queue' \in Arrangements({s \in Services : in_degree'[s] = 0})
  /\ pc' = "sort"
  /\ UNCHANGED <<depends_on, order, releasing>>

CountDegrees ==
  /\ pc = "validate"
  /\ \A s \in Services : Needs[s] \subseteq Services
  /\ in_degree' = [s \in Services |-> Len(depends_on[s])]
  /\ queue' \in Arrangements({s \in Services : in_degree'[s] = 0})
  /\ pc' = "sort"
  /\ UNCHANGED <<depends_on, order, releasing>>

PopFront ==
  /\ pc = "sort"
  /\ queue # << >>
  /\ order' = Append(order, Head(queue))
  /\ queue' = Tail(queue)
  /\ releasing' = EntriesNaming(Head(queue))
  /\ pc' = "release"
  /\ UNCHANGED <<depends_on, in_degree>>

(* Mutant of Release: a dependent is queued on its first released entry. *)
ReleaseEagerly(e) ==
  /\ pc = "release"
  /\ e \in releasing
  /\ releasing' = releasing \ {e}
  /\ in_degree' = [in_degree EXCEPT ![e[1]] = @ - 1]
  /\ queue' = IF e[1] \in Range(queue) THEN queue ELSE Append(queue, e[1])
  /\ UNCHANGED <<depends_on, pc, order>>

(* Mutant of Release: one visit clears the whole count. *)
ReleaseAll(e) ==
  /\ pc = "release"
  /\ e \in releasing
  /\ releasing' = {r \in releasing : r[1] # e[1]}
  /\ in_degree' = [in_degree EXCEPT ![e[1]] = 0]
  /\ queue' = Append(queue, e[1])
  /\ UNCHANGED <<depends_on, pc, order>>

Release(e) ==
  /\ pc = "release"
  /\ e \in releasing
  /\ releasing' = releasing \ {e}
  /\ in_degree' = [in_degree EXCEPT ![e[1]] = @ - 1]
  /\ queue' = IF in_degree'[e[1]] = 0 THEN Append(queue, e[1]) ELSE queue
  /\ UNCHANGED <<depends_on, pc, order>>

EndRelease ==
  /\ pc = "release"
  /\ releasing = {}
  /\ pc' = "sort"
  /\ UNCHANGED <<depends_on, in_degree, queue, order, releasing>>

(* Mutant of Finish: the loop runs until every service is ordered. *)
FinishWhenFull ==
  /\ pc = "sort"
  /\ Len(order) = Cardinality(Services)
  /\ pc' = "ok"
  /\ UNCHANGED <<depends_on, in_degree, queue, order, releasing>>

(* Mutant of Finish: leftover services are not noticed. *)
FinishUnchecked ==
  /\ pc = "sort"
  /\ queue = << >>
  /\ pc' = "ok"
  /\ UNCHANGED <<depends_on, in_degree, queue, order, releasing>>

Finish ==
  /\ pc = "sort"
  /\ queue = << >>
  /\ pc' = IF Len(order) = Cardinality(Services) THEN "ok" ELSE "cycle"
  /\ UNCHANGED <<depends_on, in_degree, queue, order, releasing>>

Next ==
  \/ Validate
  \/ CountDegrees
  \/ PopFront
  \/ \E e \in releasing : Release(e)
  \/ EndRelease
  \/ Finish

Spec == Init /\ [][Next]_vars

(* The function runs on one thread and waits for nothing. *)
FairSpec == Spec /\ WF_vars(Next)

(***************************************************************************)
(* Properties.                                                             *)
(***************************************************************************)
TypeOK ==
  /\ depends_on \in [Services -> Seq(Names)]
  /\ pc \in {"validate", "sort", "release"} \cup Results
  /\ in_degree \in [Services -> Nat]
  /\ queue \in Seq(Services)
  /\ order \in Seq(Services)
  /\ releasing \subseteq Services \X (Nat \ {0})

(* The entries of s that still hold it back: those whose dependency has    *)
(* not been ordered, or has been but was not visited yet.                  *)
Outstanding(s) ==
  {i \in DOMAIN depends_on[s] :
     \/ depends_on[s][i] \notin Range(order)
     \/ <<s, i>> \in releasing}

Sorting == pc \in {"sort", "release", "ok", "cycle"}

(* service.rs:64-76, the loop invariant of the sort.  A service is queued  *)
(* or ordered exactly when no entry holds it back, and never twice; a      *)
(* dependency listed twice in depends_on is released twice.                *)
DegreesExact ==
  Sorting =>
    /\ \A s \in Services : in_degree[s] = Cardinality(Outstanding(s))
    /\ \A s \in Services :
         in_degree[s] = 0 <=> s \in Range(queue) \cup Range(order)
    /\ IsInjective(queue) /\ IsInjective(order)
    /\ Range(queue) \cap Range(order) = {}

(* service.rs:22-24: at every step the services ordered so far come after  *)
(* everything they need, so also in the answer.                            *)
OrderRespectsNeeds == RespectsNeeds(order, Needs)

(* service.rs:78-82: an answered order holds every service, and "cycle" is *)
(* answered only for a graph that has a cycle (a leftover count alone      *)
(* would also accept a graph whose entries were counted wrongly).  The     *)
(* check of service.rs:27-36 comes before: a dependency that names no      *)
(* service is answered so for every graph that has one, cyclic or not, and *)
(* for no other.                                                           *)
AnswerSound ==
  /\ pc \in Results =>
       (pc = "missing" <=> \E s \in Services : ~(Needs[s] \subseteq Services))
  /\ pc = "ok" => IsStartOrder(order, Services, Needs)
  /\ pc = "cycle" => Cyclic(Services, Needs)

(* service.rs:63: the sort ends for every graph, cyclic or not. *)
Answers == <>(pc \in Results)

(* resolve_start_order implements what its callers are promised. *)
Promise ==
  INSTANCE StartOrderSpec WITH
    answer <- IF pc \in Results THEN pc ELSE "none",
    order  <- IF pc = "ok" THEN order ELSE << >>

ImplementsPromise == Promise!Spec
=============================================================================
