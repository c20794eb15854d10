-------------------------- MODULE StartOrderProofs --------------------------
(***************************************************************************)
(* Proofs about resolve_start_order, for any finite set of services and    *)
(* any dependency lists: the loop invariant of the sort, that its answer   *)
(* is right, and that it implements what StartOrderSpec promises.          *)
(***************************************************************************)
EXTENDS StartOrder, FiniteSetTheorems, SequenceTheorems, TLAPS

-----------------------------------------------------------------------------
(* Queues.                                                                 *)

LEMMA AppendRange ==
  ASSUME NEW S, NEW q \in Seq(S), NEW x \in S
  PROVE  /\ Append(q, x) \in Seq(S)
         /\ Len(Append(q, x)) = Len(q) + 1
         /\ \A i \in 1 .. Len(q) : Append(q, x)[i] = q[i]
         /\ Append(q, x)[Len(q) + 1] = x
         /\ Range(Append(q, x)) = Range(q) \cup {x}
         /\ IsInjective(q) /\ x \notin Range(q) => IsInjective(Append(q, x))
<1>1. /\ Append(q, x) \in Seq(S)
      /\ Len(Append(q, x)) = Len(q) + 1
      /\ \A i \in 1 .. Len(q) : Append(q, x)[i] = q[i]
      /\ Append(q, x)[Len(q) + 1] = x
      /\ Len(q) \in Nat
      /\ DOMAIN q = 1 .. Len(q)
      /\ DOMAIN Append(q, x) = 1 .. Len(q) + 1
  BY AppendProperties
<1>2. Range(Append(q, x)) = Range(q) \cup {x}
  BY <1>1 DEF Range
<1>3. IsInjective(q) /\ x \notin Range(q) => IsInjective(Append(q, x))
  BY <1>1 DEF Range, IsInjective
<1> QED  BY <1>1, <1>2, <1>3

LEMMA HeadRange ==
  ASSUME NEW S, NEW q \in Seq(S), q # << >>
  PROVE  /\ Head(q) \in S /\ Tail(q) \in Seq(S)
         /\ Range(q) = {Head(q)} \cup Range(Tail(q))
         /\ IsInjective(q) => IsInjective(Tail(q)) /\ Head(q) \notin Range(Tail(q))
<1>1. /\ Head(q) \in S /\ Tail(q) \in Seq(S)
      /\ Len(Tail(q)) = Len(q) - 1
      /\ \A i \in 1 .. Len(Tail(q)) : Tail(q)[i] = q[i + 1]
  BY HeadTailProperties
<1>2. /\ Len(q) \in Nat \ {0} /\ Head(q) = q[1]
      /\ DOMAIN q = 1 .. Len(q) /\ DOMAIN Tail(q) = 1 .. Len(q) - 1
  BY <1>1
<1>3. Range(q) = {Head(q)} \cup Range(Tail(q))
  <2>1. \A i \in DOMAIN q : i = 1 \/ (i - 1 \in DOMAIN Tail(q) /\ q[i] = Tail(q)[i - 1])
    BY <1>1, <1>2
  <2>2. \A i \in DOMAIN Tail(q) : i + 1 \in DOMAIN q /\ Tail(q)[i] = q[i + 1]
    BY <1>1, <1>2
  <2>3. 1 \in DOMAIN q
    BY <1>2
  <2>4. Range(q) \subseteq {Head(q)} \cup Range(Tail(q))
    BY <1>2, <2>1 DEF Range
  <2>5. Range(Tail(q)) \subseteq Range(q)
    BY <2>2 DEF Range
  <2>6. Head(q) \in Range(q)
    BY <1>2, <2>3 DEF Range
  <2> QED  BY <2>4, <2>5, <2>6
<1>4. IsInjective(q) => IsInjective(Tail(q)) /\ Head(q) \notin Range(Tail(q))
  BY <1>1, <1>2 DEF Range, IsInjective
<1> QED  BY <1>1, <1>3, <1>4

(* An arrangement of a finite set is a sequence of all its members. *)
LEMMA ArrangementAll ==
  ASSUME NEW S, IsFiniteSet(S), NEW f \in Arrangements(S)
  PROVE  f \in Seq(S) /\ Range(f) = S /\ IsInjective(f) /\ Len(f) = Cardinality(S)
<1> DEFINE n == Cardinality(S)
<1>1. n \in Nat
  BY FS_CardinalityType
<1>2. f \in [1 .. n -> S] /\ IsInjective(f)
  BY DEF Arrangements
<1>3. Cardinality(1 .. n) = n
  BY <1>1, FS_Interval
<1>4. f \in Injection(1 .. n, S)
  BY <1>2 DEF Injection
<1>5. f \in Surjection(1 .. n, S)
  BY <1>3, <1>4, FS_Injection
<1>6. Range(f) = S
  BY <1>2, <1>5 DEF Range, Surjection
<1>7. f \in Seq(S) /\ Len(f) = n
  BY <1>1, <1>2
<1> QED  BY <1>2, <1>6, <1>7

(* A sequence without repetition that is as long as a set is big holds all *)
(* of it.                                                                  *)
LEMMA FullOrder ==
  ASSUME NEW S, IsFiniteSet(S), NEW q \in Seq(S), IsInjective(q), Len(q) = Cardinality(S)
  PROVE  Range(q) = S
<1>1. q \in Arrangements(S)
  BY DEF Arrangements
<1> QED  BY <1>1, ArrangementAll

(* One that holds all of a set is as long. *)
LEMMA OrderLength ==
  ASSUME NEW S, IsFiniteSet(S), NEW q \in Seq(S), IsInjective(q), Range(q) = S
  PROVE  Len(q) = Cardinality(S)
<1>1. Len(q) \in Nat /\ q \in [1 .. Len(q) -> S]
  OBVIOUS
<1>2. q \in Injection(1 .. Len(q), S) /\ q \in Surjection(1 .. Len(q), S)
  BY <1>1 DEF Injection, Surjection, Range
<1>3. Cardinality(1 .. Len(q)) = Len(q)
  BY <1>1, FS_Interval
<1> QED  BY <1>2, <1>3, FS_Injection

-----------------------------------------------------------------------------
(* The loop invariant.                                                     *)

(* Before the sort nothing is queued; in it every dependency is a service, *)
(* and only entries that name the service ordered last await their visit.  *)
PhaseInv ==
  /\ pc \in {"validate", "missing"} => queue = << >> /\ order = << >>
  /\ Sorting => \A s \in Services : Needs[s] \subseteq Services
  /\ pc # "release" => releasing = {}
  /\ \A e \in releasing :
       /\ e[1] \in Services /\ e[2] \in DOMAIN depends_on[e[1]] /\ e = <<e[1], e[2]>>
       /\ depends_on[e[1]][e[2]] \in Range(order)

Inv == TypeOK /\ PhaseInv /\ DegreesExact /\ OrderRespectsNeeds

LEMMA EntriesType ==
  ASSUME TypeOK, NEW s \in Services
  PROVE  /\ depends_on[s] \in Seq(Names)
         /\ Len(depends_on[s]) \in Nat /\ DOMAIN depends_on[s] = 1 .. Len(depends_on[s])
         /\ IsFiniteSet(DOMAIN depends_on[s])
         /\ Cardinality(DOMAIN depends_on[s]) = Len(depends_on[s])
<1>1. /\ depends_on[s] \in Seq(Names)
      /\ Len(depends_on[s]) \in Nat /\ DOMAIN depends_on[s] = 1 .. Len(depends_on[s])
  BY DEF TypeOK
<1> QED  BY <1>1, FS_Interval

LEMMA OutstandingFinite ==
  ASSUME TypeOK, NEW s \in Services
  PROVE  IsFiniteSet(Outstanding(s)) /\ Cardinality(Outstanding(s)) \in Nat
<1>1. Outstanding(s) \in SUBSET DOMAIN depends_on[s]
  BY DEF Outstanding
<1> QED  BY <1>1, EntriesType, FS_Subset, FS_CardinalityType

LEMMA InvInit == Init => Inv
<1> SUFFICES ASSUME NEW graph \in [Services -> Seq(Names)], StartWith(graph) PROVE Inv
  BY DEF Init
<1>1. Range(<< >>) = {} /\ DOMAIN order = {}
  BY DEF Range, StartWith
<1> QED
  BY <1>1 DEF StartWith, Inv, TypeOK, PhaseInv, DegreesExact, OrderRespectsNeeds, RespectsNeeds,
     Sorting, Results

(* The queue begins with the services that have an empty list. *)
LEMMA CountInv == ASSUME Inv, CountDegrees PROVE Inv'
<1> DEFINE free == {s \in Services : in_degree'[s] = 0}
<1>1. /\ pc' = "sort" /\ order = << >> /\ order' = << >> /\ releasing = {} /\ releasing' = {}
      /\ depends_on' = depends_on /\ queue' \in Arrangements(free)
      /\ in_degree' = [s \in Services |-> Len(depends_on[s])]
      /\ \A s \in Services : Needs[s] \subseteq Services
  BY DEF CountDegrees, Inv, PhaseInv
<1>2. queue' \in Seq(free) /\ Range(queue') = free /\ IsInjective(queue')
  BY <1>1, ServicesAreNamed, FS_Subset, ArrangementAll
<1>3. queue' \in Seq(Services)
  BY <1>2, SeqMonotonic
<1>4. Range(order') = {}
  BY <1>1 DEF Range
<1>5. ASSUME NEW s \in Services PROVE in_degree'[s] = Cardinality(Outstanding(s)')
  <2>1. Outstanding(s)' = DOMAIN depends_on[s]
    BY <1>1, <1>4 DEF Outstanding
  <2> QED  BY <1>1, <2>1, EntriesType DEF Inv
<1>6. TypeOK'
  BY <1>1, <1>3, EntriesType DEF TypeOK, Inv
<1>7. PhaseInv'
  BY <1>1 DEF PhaseInv, Needs
<1>8. DegreesExact'
  BY <1>1, <1>2, <1>4, <1>5 DEF DegreesExact, IsInjective
<1>9. OrderRespectsNeeds'
  BY <1>1 DEF OrderRespectsNeeds, RespectsNeeds
<1> QED  BY <1>6, <1>7, <1>8, <1>9 DEF Inv

(* The head of the queue needs only what has been ordered. *)
LEMMA PopInv == ASSUME Inv, PopFront PROVE Inv'
<1> DEFINE h == Head(queue)
<1> USE DEF Inv
<1>1. /\ pc = "sort" /\ pc' = "release" /\ queue # << >> /\ releasing = {}
      /\ order' = Append(order, h) /\ queue' = Tail(queue) /\ releasing' = EntriesNaming(h)
      /\ depends_on' = depends_on /\ in_degree' = in_degree
  BY DEF PopFront, PhaseInv
<1>2. queue \in Seq(Services) /\ order \in Seq(Services) /\ IsInjective(queue) /\ IsInjective(order)
      /\ Range(queue) \cap Range(order) = {}
  BY <1>1 DEF TypeOK, DegreesExact, Sorting
<1>3. /\ h \in Services /\ Tail(queue) \in Seq(Services)
      /\ Range(queue) = {h} \cup Range(Tail(queue))
      /\ IsInjective(Tail(queue)) /\ h \notin Range(Tail(queue))
  BY <1>1, <1>2, HeadRange
<1>4. /\ order' \in Seq(Services) /\ Len(order') = Len(order) + 1
      /\ \A i \in 1 .. Len(order) : order'[i] = order[i]
      /\ order'[Len(order) + 1] = h
      /\ Range(order') = Range(order) \cup {h} /\ IsInjective(order')
  BY <1>1, <1>2, <1>3, AppendRange
<1>5. \A e \in releasing' :
        /\ e[1] \in Services /\ e[2] \in DOMAIN depends_on[e[1]] /\ e = <<e[1], e[2]>>
        /\ depends_on[e[1]][e[2]] = h
  BY <1>1 DEF EntriesNaming
<1>6. ASSUME NEW s \in Services PROVE Outstanding(s)' = Outstanding(s)
  <2>1. ASSUME NEW i \in DOMAIN depends_on[s], depends_on[s][i] = h PROVE <<s, i>> \in releasing'
    BY <1>1, <2>1 DEF EntriesNaming
  <2>2. ASSUME NEW i \in DOMAIN depends_on[s], <<s, i>> \in releasing' PROVE depends_on[s][i] = h
    BY <1>5, <2>2
  <2>3. h \notin Range(order)
    BY <1>2, <1>3
  <2> QED  BY <1>1, <1>4, <2>1, <2>2, <2>3 DEF Outstanding
<1>7. TypeOK'
  <2>1. \A s \in Services : DOMAIN depends_on[s] \subseteq Nat \ {0}
    BY EntriesType
  <2>2. releasing' \subseteq Services \X (Nat \ {0})
    BY <1>5, <2>1
  <2> QED  BY <1>1, <1>3, <1>4, <2>2 DEF TypeOK
<1>8. PhaseInv'
  <2>1. \A s \in Services : Needs[s] \subseteq Services
    BY <1>1 DEF PhaseInv, Sorting
  <2> QED  BY <1>1, <1>4, <1>5, <2>1 DEF PhaseInv, Needs
<1>9. DegreesExact'
  <2>1. Range(queue') \cup Range(order') = Range(queue) \cup Range(order)
    BY <1>1, <1>3, <1>4
  <2>2. Range(queue') \cap Range(order') = {}
    BY <1>1, <1>2, <1>3, <1>4
  <2>3. \A s \in Services : /\ in_degree[s] = Cardinality(Outstanding(s))
                            /\ in_degree[s] = 0 <=> s \in Range(queue) \cup Range(order)
    BY <1>1 DEF DegreesExact, Sorting
  <2>4. IsInjective(queue')
    BY <1>1, <1>3 DEF IsInjective
  <2>5. \A s \in Services : in_degree'[s] = Cardinality(Outstanding(s)')
    BY <1>1, <1>6, <2>3
  <2>6. \A s \in Services : in_degree'[s] = 0 <=> s \in Range(queue') \cup Range(order')
    BY <1>1, <2>1, <2>3
  <2> QED  BY <1>4, <2>2, <2>4, <2>5, <2>6 DEF DegreesExact
<1>10. OrderRespectsNeeds'
  <2>1. Outstanding(h) = {}
    <3>1. h \in Range(queue)
      BY <1>3
    <3>2. Cardinality(Outstanding(h)) = 0
      BY <1>1, <1>3, <3>1 DEF DegreesExact, Sorting
    <3> QED  BY <1>3, <3>2, OutstandingFinite, FS_EmptySet
  <2>2. Needs[h] \subseteq Range(order)
    BY <1>3, <2>1 DEF Needs, Outstanding, Range
  <2>3. Len(order) \in Nat /\ DOMAIN order = 1 .. Len(order) /\ DOMAIN order' = 1 .. Len(order) + 1
    BY <1>2, <1>4
  <2>4. ASSUME NEW i \in DOMAIN order', NEW d \in Needs[order'[i]]
        PROVE  \E j \in 1 .. i - 1 : order'[j] = d
    <3>1. CASE i = Len(order) + 1
      <4>1. d \in Range(order)
        BY <1>4, <2>2, <2>4, <3>1
      <4>2. PICK j \in 1 .. Len(order) : order[j] = d
        BY <2>3, <4>1 DEF Range
      <4> QED  BY <1>4, <2>3, <3>1, <4>2
    <3>2. CASE i \in 1 .. Len(order)
      <4>1. PICK j \in 1 .. i - 1 : order[j] = d
        BY <1>4, <2>3, <2>4, <3>2 DEF OrderRespectsNeeds, RespectsNeeds
      <4> QED  BY <1>4, <2>3, <3>2, <4>1
    <3> QED  BY <2>3, <3>1, <3>2
  <2>5. Needs' = Needs
    BY <1>1 DEF Needs
  <2> QED  BY <2>4, <2>5 DEF OrderRespectsNeeds, RespectsNeeds
<1> QED  BY <1>7, <1>8, <1>9, <1>10

(* A visit takes one entry from those outstanding. *)
LEMMA ReleaseInv == ASSUME Inv, NEW e \in releasing, Release(e) PROVE Inv'
<1> DEFINE s0 == e[1]
           i0 == e[2]
<1> USE DEF Inv
<1>1. /\ pc = "release" /\ pc' = "release" /\ releasing' = releasing \ {e}
      /\ depends_on' = depends_on /\ order' = order
      /\ in_degree' = [in_degree EXCEPT ![s0] = @ - 1]
      /\ queue' = IF in_degree'[s0] = 0 THEN Append(queue, s0) ELSE queue
  BY DEF Release
<1>2. /\ s0 \in Services /\ i0 \in DOMAIN depends_on[s0] /\ e = <<s0, i0>>
      /\ depends_on[s0][i0] \in Range(order)
  BY DEF PhaseInv
<1>3. /\ queue \in Seq(Services) /\ order \in Seq(Services)
      /\ IsInjective(queue) /\ IsInjective(order) /\ Range(queue) \cap Range(order) = {}
      /\ \A s \in Services : /\ in_degree[s] = Cardinality(Outstanding(s))
                             /\ in_degree[s] = 0 <=> s \in Range(queue) \cup Range(order)
  BY <1>1 DEF TypeOK, DegreesExact, Sorting
<1>4. in_degree \in [Services -> Nat]
  BY DEF TypeOK
<1>5. i0 \in Outstanding(s0) /\ Outstanding(s0)' = Outstanding(s0) \ {i0}
  <2>1. i0 \in Outstanding(s0)
    BY <1>2 DEF Outstanding
  <2>2. \A i \in DOMAIN depends_on[s0] : <<s0, i>> \in releasing' <=> <<s0, i>> \in releasing /\ i # i0
    BY <1>1, <1>2
  <2>3. ASSUME NEW i \in DOMAIN depends_on[s0] PROVE i \in Outstanding(s0)' <=> i \in Outstanding(s0) \ {i0}
    BY <1>1, <1>2, <2>2, <2>3 DEF Outstanding
  <2>4. Outstanding(s0) \subseteq DOMAIN depends_on[s0] /\ Outstanding(s0)' \subseteq DOMAIN depends_on[s0]
    BY <1>1 DEF Outstanding
  <2> QED  BY <2>1, <2>3, <2>4
<1>6. \A s \in Services : s # s0 => Outstanding(s)' = Outstanding(s)
  BY <1>1, <1>2 DEF Outstanding
<1>7. in_degree[s0] \in Nat \ {0} /\ in_degree[s0] - 1 = Cardinality(Outstanding(s0)')
  <2>1. IsFiniteSet(Outstanding(s0))
    BY <1>2, OutstandingFinite
  <2>2. Outstanding(s0) # {}
    BY <1>5
  <2>3. in_degree[s0] = Cardinality(Outstanding(s0)) /\ in_degree[s0] \in Nat
    BY <1>2, <1>3, <1>4
  <2>4. Cardinality(Outstanding(s0)) # 0
    BY <2>1, <2>2, FS_EmptySet
  <2>5. Cardinality(Outstanding(s0) \ {i0}) = Cardinality(Outstanding(s0)) - 1
    BY <1>5, <2>1, FS_RemoveElement
  <2> QED  BY <1>5, <2>3, <2>4, <2>5
<1>8. s0 \notin Range(queue) /\ s0 \notin Range(order)
  BY <1>2, <1>3, <1>7
<1>9. in_degree' \in [Services -> Nat] /\ in_degree'[s0] = in_degree[s0] - 1
      /\ \A s \in Services : s # s0 => in_degree'[s] = in_degree[s]
  BY <1>1, <1>2, <1>4, <1>7
<1>10. /\ queue' \in Seq(Services) /\ IsInjective(queue')
       /\ Range(queue') = Range(queue) \cup (IF in_degree'[s0] = 0 THEN {s0} ELSE {})
  <2>1. CASE in_degree'[s0] = 0
    BY <1>1, <1>2, <1>3, <1>8, <2>1, AppendRange
  <2>2. CASE in_degree'[s0] # 0
    BY <1>1, <1>3, <2>2 DEF IsInjective
  <2> QED  BY <2>1, <2>2
<1>11. TypeOK'
  BY <1>1, <1>9, <1>10 DEF TypeOK
<1>12. PhaseInv'
  <2>1. \A s \in Services : Needs[s] \subseteq Services
    BY <1>1 DEF PhaseInv, Sorting
  <2>2. \A r \in releasing' :
          /\ r[1] \in Services /\ r[2] \in DOMAIN depends_on[r[1]] /\ r = <<r[1], r[2]>>
          /\ depends_on[r[1]][r[2]] \in Range(order)
    BY <1>1 DEF PhaseInv
  <2> QED  BY <1>1, <2>1, <2>2 DEF PhaseInv, Needs
<1>13. DegreesExact'
  <2>1. \A s \in Services : in_degree'[s] = Cardinality(Outstanding(s)')
    BY <1>3, <1>6, <1>7, <1>9
  <2>2. \A s \in Services : in_degree'[s] = 0 <=> s \in Range(queue') \cup Range(order')
    BY <1>1, <1>3, <1>8, <1>9, <1>10
  <2>3. Range(queue') \cap Range(order') = {}
    BY <1>1, <1>3, <1>8, <1>10
  <2>4. IsInjective(order')
    BY <1>1, <1>3 DEF IsInjective
  <2> QED  BY <1>10, <2>1, <2>2, <2>3, <2>4 DEF DegreesExact
<1>14. OrderRespectsNeeds'
  BY <1>1 DEF OrderRespectsNeeds, RespectsNeeds, Needs
<1> QED  BY <1>11, <1>12, <1>13, <1>14

(* Steps that only move on: neither Validate, nor the end of a loop, nor a *)
(* stutter changes what the invariant is about.                            *)
LEMMA MoveInv ==
  ASSUME Inv, UNCHANGED <<depends_on, in_degree, queue, order, releasing>>,
         \/ pc' = pc
         \/ pc = "validate" /\ pc' = "missing"
         \/ Sorting /\ releasing = {} /\ pc' \in {"sort", "ok", "cycle"}
  PROVE  Inv'
<1> USE DEF Inv
<1>1. TypeOK'
  BY DEF TypeOK, Sorting, Results
<1>2. Sorting' => Sorting
  BY DEF Sorting
<1>3. PhaseInv'
  <2>1. pc' # "release" => releasing = {}
    BY DEF PhaseInv
  <2>2. pc' \in {"validate", "missing"} => queue = << >> /\ order = << >>
    BY DEF PhaseInv
  <2>3. Sorting => \A s \in Services : Needs[s] \subseteq Services
    BY DEF PhaseInv
  <2>4. Needs' = Needs
    BY DEF Needs
  <2>5. \A e \in releasing :
          /\ e[1] \in Services /\ e[2] \in DOMAIN depends_on[e[1]] /\ e = <<e[1], e[2]>>
          /\ depends_on[e[1]][e[2]] \in Range(order)
    BY DEF PhaseInv
  <2> QED  BY <1>2, <2>1, <2>2, <2>3, <2>4, <2>5 DEF PhaseInv
<1>4. DegreesExact'
  <2>1. \A s : Outstanding(s)' = Outstanding(s)
    BY DEF Outstanding
  <2> QED  BY <1>2, <2>1 DEF DegreesExact, IsInjective
<1>5. OrderRespectsNeeds'
  BY DEF OrderRespectsNeeds, RespectsNeeds, Needs
<1> QED  BY <1>1, <1>3, <1>4, <1>5

LEMMA InvStep == Inv /\ [Next]_vars => Inv'
<1> SUFFICES ASSUME Inv, [Next]_vars PROVE Inv'
  OBVIOUS
<1>1. CASE Validate
  BY <1>1, MoveInv DEF Validate
<1>2. CASE CountDegrees
  BY <1>2, CountInv
<1>3. CASE PopFront
  BY <1>3, PopInv
<1>4. ASSUME NEW e \in releasing, Release(e) PROVE Inv'
  BY <1>4, ReleaseInv
<1>5. CASE EndRelease
  BY <1>5, MoveInv DEF EndRelease, Sorting
<1>6. CASE Finish
  BY <1>6, MoveInv DEF Finish, Sorting, Inv, PhaseInv
<1>7. CASE UNCHANGED vars
  BY <1>7, MoveInv DEF vars
<1> QED  BY <1>1, <1>2, <1>3, <1>4, <1>5, <1>6, <1>7 DEF Next

LEMMA InvHolds == Spec => []Inv
<1> QED  BY InvInit, InvStep, PTL DEF Spec

(* The types: counts stay natural numbers, although Release subtracts, and *)
(* what is queued and ordered are services.                                *)
THEOREM TypesHold == Spec => []TypeOK
<1>1. Inv => TypeOK
  BY DEF Inv
<1> QED  BY <1>1, InvHolds, PTL

(* The loop invariant of the sort, for every graph: the count of a service *)
(* is that of the entries that hold it back, repeated ones included.       *)
THEOREM DegreesAreExact == Spec => []DegreesExact
<1>1. Inv => DegreesExact
  BY DEF Inv
<1> QED  BY <1>1, InvHolds, PTL

(* The services ordered so far come after what they need. *)
THEOREM OrderRespects == Spec => []OrderRespectsNeeds
<1>1. Inv => OrderRespectsNeeds
  BY DEF Inv
<1> QED  BY <1>1, InvHolds, PTL

-----------------------------------------------------------------------------
(* The answer.                                                             *)

(* When the queue has run empty, what is left over needs what is left over. *)
LEMMA LeftoverCycle ==
  ASSUME Inv, pc = "sort", queue = << >>, Len(order) # Cardinality(Services)
  PROVE  Cyclic(Services, Needs)
<1> DEFINE C == Services \ Range(order)
<1> USE DEF Inv
<1>1. /\ order \in Seq(Services) /\ IsInjective(order)
      /\ Range(queue) = {} /\ releasing = {}
      /\ \A s \in Services : Needs[s] \subseteq Services
  BY DEF TypeOK, PhaseInv, DegreesExact, Sorting, Range
<1>2. C # {}
  <2>1. ASSUME C = {} PROVE Range(order) = Services
    BY <1>1, <2>1, RangeOfSeq
  <2> QED  BY <1>1, <2>1, OrderLength, ServicesAreNamed
<1>3. ASSUME NEW s \in C PROVE Needs[s] \cap C # {}
  <2>1. Cardinality(Outstanding(s)) # 0
    BY <1>1 DEF DegreesExact, Sorting
  <2>2. Outstanding(s) # {}
    BY <2>1, FS_EmptySet
  <2>3. PICK i \in DOMAIN depends_on[s] : depends_on[s][i] \notin Range(order)
    BY <1>1, <2>2 DEF Outstanding
  <2>4. depends_on[s][i] \in Needs[s]
    BY <2>3 DEF Needs, Range
  <2> QED  BY <1>1, <2>3, <2>4
<1> QED  BY <1>2, <1>3 DEF Cyclic

LEMMA FullAnswer ==
  ASSUME Inv, Sorting, Len(order) = Cardinality(Services)
  PROVE  IsStartOrder(order, Services, Needs)
<1>1. order \in Seq(Services) /\ IsInjective(order)
  BY DEF Inv, TypeOK, DegreesExact
<1>2. Range(order) = Services
  BY <1>1, FullOrder, ServicesAreNamed
<1> QED  BY <1>1, <1>2 DEF Inv, OrderRespectsNeeds, IsStartOrder, IsArrangement

LEMMA AnswerStep == Inv /\ AnswerSound /\ [Next]_vars => AnswerSound'
<1> SUFFICES ASSUME Inv, AnswerSound, [Next]_vars PROVE AnswerSound'
  OBVIOUS
<1>1. CASE Finish
  <2>1. /\ pc = "sort" /\ queue = << >> /\ order' = order /\ Needs' = Needs
        /\ pc' = IF Len(order) = Cardinality(Services) THEN "ok" ELSE "cycle"
    BY <1>1 DEF Finish, Needs
  <2>2. \A s \in Services : Needs'[s] \subseteq Services
    BY <2>1 DEF Inv, PhaseInv, Sorting
  <2> QED  BY <2>1, <2>2, LeftoverCycle, FullAnswer DEF AnswerSound, Sorting
<1>2. CASE UNCHANGED vars
  <2>1. order' = order /\ Needs' = Needs /\ pc' = pc
    BY <1>2 DEF vars, Needs
  <2> QED  BY <2>1 DEF AnswerSound
<1>3. CASE Validate
  <2>1. pc' = "missing" /\ Needs' = Needs /\ \E s \in Services : ~(Needs[s] \subseteq Services)
    BY <1>3 DEF Validate, Needs
  <2> QED  BY <2>1 DEF AnswerSound
<1>4. ASSUME CountDegrees \/ PopFront \/ (\E e \in releasing : Release(e)) \/ EndRelease
      PROVE  pc' \notin Results
  BY <1>4 DEF CountDegrees, PopFront, Release, EndRelease, Results
<1> QED  BY <1>1, <1>2, <1>3, <1>4 DEF Next, AnswerSound, Results

(* An answered order holds every service after what it needs, "cycle" is   *)
(* answered only for a graph that has one, and a missing dependency for    *)
(* those graphs that have one, and them only.                              *)
THEOREM AnswersAreSound == Spec => []AnswerSound
<1>1. Init => AnswerSound
  BY DEF Init, StartWith, AnswerSound, Results
<1> QED  BY <1>1, AnswerStep, InvHolds, PTL DEF Spec

-----------------------------------------------------------------------------
(* The function implements what its callers are promised: the iterations   *)
(* stutter, the check and the end of the sort are the answer.              *)
LEMMA PromiseInit == Init => Promise!Init
BY DEF Init, StartWith, Promise!Init, Results

(* Both modules take their words from ServiceGraph. *)
LEMMA SameWords ==
  /\ Promise!Needs = Needs
  /\ \A needs : Promise!Cyclic(Services, needs) <=> Cyclic(Services, needs)
  /\ \A o, needs : Promise!IsStartOrder(o, Services, needs) <=> IsStartOrder(o, Services, needs)
BY DEF Promise!Needs, Needs, Promise!Range, Range, Promise!Cyclic, Cyclic, Promise!IsStartOrder,
   IsStartOrder, Promise!IsArrangement, IsArrangement, Promise!RespectsNeeds, RespectsNeeds,
   Promise!IsInjective, IsInjective

LEMMA PromiseStep == Inv /\ AnswerSound' /\ [Next]_vars => [Promise!Next]_Promise!vars
<1> SUFFICES ASSUME Inv, AnswerSound', [Next]_vars PROVE [Promise!Next]_Promise!vars
  OBVIOUS
<1> USE DEF Results
<1>1. CASE Validate
  <2>1. /\ pc = "validate" /\ pc' = "missing" /\ depends_on' = depends_on
        /\ \E s \in Services : Needs[s] \ Services # {}
    BY <1>1 DEF Validate
  <2> QED  BY <2>1, SameWords DEF Promise!Next, Promise!Reject
<1>2. CASE Finish
  <2>1. /\ pc = "sort" /\ pc' \in {"ok", "cycle"} /\ depends_on' = depends_on
    BY <1>2 DEF Finish
  <2>2. Needs' = Needs
    BY <2>1 DEF Needs
  <2>3. CASE pc' = "ok"
    BY <2>1, <2>2, <2>3, SameWords DEF AnswerSound, Promise!Next, Promise!Accept
  <2>4. CASE pc' = "cycle"
    BY <2>1, <2>2, <2>4, SameWords DEF AnswerSound, Promise!Next, Promise!Reject
  <2> QED  BY <2>1, <2>3, <2>4
<1>3. CASE CountDegrees \/ PopFront \/ (\E e \in releasing : Release(e)) \/ EndRelease
  <2>1. pc \notin Results /\ pc' \notin Results /\ depends_on' = depends_on
    BY <1>3 DEF CountDegrees, PopFront, Release, EndRelease
  <2> QED  BY <2>1 DEF Promise!vars
<1>4. CASE UNCHANGED vars
  BY <1>4 DEF vars, Promise!vars
<1> QED  BY <1>1, <1>2, <1>3, <1>4 DEF Next

(* resolve_start_order keeps its promise, for every finite graph. *)
THEOREM PromiseKept == Spec => ImplementsPromise
<1>1. Spec => []AnswerSound
  BY AnswersAreSound
<1> QED
  BY <1>1, InvHolds, PromiseInit, PromiseStep, PTL DEF Spec, ImplementsPromise, Promise!Spec
=============================================================================
