--------------------------- MODULE CtxGraphProofs ---------------------------
(***************************************************************************)
(* Proofs about ctxgraph, for any clients, contents, prefixes and bound of *)
(* the clock.                                                              *)
(***************************************************************************)
EXTENDS CtxGraph, FiniteSetTheorems, TLAPS

(***************************************************************************)
(* Content addresses.                                                      *)
(***************************************************************************)
(* The parts of a concatenation. *)
LEMMA Concat ==
  ASSUME NEW S, NEW s \in Seq(S), NEW t \in Seq(S)
  PROVE  /\ s \o t \in Seq(S) /\ Len(s \o t) = Len(s) + Len(t)
         /\ Len(s) \in Nat /\ Len(t) \in Nat
         /\ \A i \in 1..Len(s) : (s \o t)[i] = s[i]
         /\ \A i \in 1..Len(t) : (s \o t)[Len(s) + i] = t[i]
OBVIOUS

(* What is hashed, of four parts that are joined. *)
LEMMA FourParts ==
  ASSUME NEW S, NEW a \in Seq(S), NEW n \in S, NEW k \in Seq(S), NEW v \in S,
         NEW h, h = a \o <<n>> \o k \o <<n>> \o <<v>>
  PROVE  /\ Len(a) \in Nat /\ Len(k) \in Nat
         /\ h \in Seq(S) /\ Len(h) = Len(a) + Len(k) + 3
         /\ \A i \in 1..Len(a) : h[i] = a[i]
         /\ h[Len(a) + 1] = n
         /\ \A i \in 1..Len(k) : h[Len(a) + 1 + i] = k[i]
         /\ h[Len(a) + Len(k) + 3] = v
<1>1. /\ <<n>> \in Seq(S) /\ Len(<<n>>) = 1 /\ <<n>>[1] = n
      /\ <<v>> \in Seq(S) /\ Len(<<v>>) = 1 /\ <<v>>[1] = v
  OBVIOUS
<1>2. PICK p : p = a \o <<n>>
  OBVIOUS
<1>3. PICK q : q = p \o k
  OBVIOUS
<1>4. PICK r : r = q \o <<n>>
  OBVIOUS
<1>5. h = r \o <<v>>
  BY <1>2, <1>3, <1>4
<1>6. /\ p \in Seq(S) /\ Len(p) = Len(a) + 1 /\ Len(a) \in Nat
      /\ \A i \in 1..Len(a) : p[i] = a[i]
      /\ p[Len(a) + 1] = n
  BY <1>1, <1>2, Concat
<1>7. /\ q \in Seq(S) /\ Len(q) = Len(p) + Len(k) /\ Len(k) \in Nat
      /\ \A i \in 1..Len(p) : q[i] = p[i]
      /\ \A i \in 1..Len(k) : q[Len(p) + i] = k[i]
  <2>1. p \in Seq(S)
    BY <1>6
  <2>2. /\ p \o k \in Seq(S) /\ Len(p \o k) = Len(p) + Len(k) /\ Len(k) \in Nat
        /\ \A i \in 1..Len(p) : (p \o k)[i] = p[i]
        /\ \A i \in 1..Len(k) : (p \o k)[Len(p) + i] = k[i]
    BY <2>1, Concat
  <2> QED BY <1>3, <2>2
<1>8. /\ r \in Seq(S) /\ Len(r) = Len(q) + 1
      /\ \A i \in 1..Len(q) : r[i] = q[i]
  BY <1>1, <1>4, <1>7, Concat
<1>9. /\ h \in Seq(S) /\ Len(h) = Len(r) + 1
      /\ \A i \in 1..Len(r) : h[i] = r[i]
      /\ h[Len(r) + 1] = v
  <2>1. /\ r \o <<v>> \in Seq(S) /\ Len(r \o <<v>>) = Len(r) + 1
        /\ \A i \in 1..Len(r) : (r \o <<v>>)[i] = r[i]
        /\ \A i \in 1..1 : (r \o <<v>>)[Len(r) + i] = <<v>>[i]
    BY <1>1, <1>8, Concat
  <2>2. (r \o <<v>>)[Len(r) + 1] = v
    <3>1. 1 \in 1..1
      OBVIOUS
    <3> QED BY <1>1, <2>1, <3>1, Zenon
  <2> QED BY <1>5, <2>1, <2>2
<1>10. Len(q) = Len(a) + Len(k) + 1 /\ Len(r) = Len(a) + Len(k) + 2
  BY <1>6, <1>7, <1>8
<1>11. \A i \in 1..Len(q) : h[i] = q[i]
  BY <1>6, <1>7, <1>8, <1>9
<1>12. \A i \in 1..Len(p) : h[i] = p[i]
  BY <1>6, <1>7, <1>11
<1>13. \A i \in 1..Len(a) : h[i] = a[i]
  BY <1>6, <1>12
<1>14. h[Len(a) + 1] = n
  BY <1>6, <1>12
<1>15. ASSUME NEW i \in 1..Len(k) PROVE h[Len(a) + 1 + i] = k[i]
  <2>1. Len(p) + i \in 1..Len(q) /\ Len(p) + i = Len(a) + 1 + i
    BY <1>6, <1>7
  <2> QED BY <1>7, <1>11, <2>1
<1>16. h[Len(a) + Len(k) + 3] = v
  <2>1. Len(r) + 1 = Len(a) + Len(k) + 3
    BY <1>6, <1>7, <1>10
  <2> QED BY <1>9, <2>1
<1> QED
  BY <1>6, <1>7, <1>9, <1>10, <1>13, <1>14, <1>15, <1>16

(* Where in a hash the agent, the key and the value are. *)
Laid(h, x) ==
  /\ x.agent \in Seq(Chars) /\ x.key \in Seq(Chars) /\ x.value \in Chars
  /\ Len(x.agent) \in Nat /\ Len(x.key) \in Nat
  /\ Len(h) = Len(x.agent) + Len(x.key) + 3
  /\ \A i \in 1..Len(x.agent) : h[i] = x.agent[i]
  /\ h[Len(x.agent) + 1] = Nul
  /\ \A i \in 1..Len(x.key) : h[Len(x.agent) + 1 + i] = x.key[i]
  /\ h[Len(x.agent) + Len(x.key) + 3] = x.value

LEMMA HashParts ==
  ASSUME NEW x \in Contents PROVE Laid(compute_hash(x), x)
<1>1. PICK a, k, v, h : a = x.agent /\ k = x.key /\ v = x.value /\ h = compute_hash(x)
  OBVIOUS
<1>2. a \in Seq(Chars) /\ k \in Seq(Chars) /\ v \in Chars /\ Nul \in Chars
  BY <1>1, NamesAssumption
<1>3. h = a \o <<Nul>> \o k \o <<Nul>> \o <<v>>
  BY <1>1 DEF compute_hash, Names
<1>4. /\ Len(a) \in Nat /\ Len(k) \in Nat
      /\ h \in Seq(Chars) /\ Len(h) = Len(a) + Len(k) + 3
      /\ \A i \in 1..Len(a) : h[i] = a[i]
      /\ h[Len(a) + 1] = Nul
      /\ \A i \in 1..Len(k) : h[Len(a) + 1 + i] = k[i]
      /\ h[Len(a) + Len(k) + 3] = v
  BY <1>2, <1>3, FourParts
<1> QED  BY <1>1, <1>2, <1>4, Zenon DEF Laid

(* The names and the value in a hash. *)
LEMMA NamesThenValue ==
  ASSUME NEW x \in Contents
  PROVE  LET h == compute_hash(x)
         IN /\ Names(x) \in Seq(Chars) /\ Len(Names(x)) \in Nat
            /\ Len(h) = Len(Names(x)) + 2
            /\ \A i \in 1..Len(Names(x)) : h[i] = Names(x)[i]
            /\ h[Len(Names(x)) + 2] = x.value
<1>1. PICK m, r, v, h : /\ m = Names(x) /\ r = m \o <<Nul>>
                        /\ v = x.value /\ h = compute_hash(x)
  OBVIOUS
<1>2. m \in Seq(Chars) /\ v \in Chars /\ Nul \in Chars
  <2>1. x.agent \in Seq(Chars) /\ x.key \in Seq(Chars) /\ x.value \in Chars /\ Nul \in Chars
    BY NamesAssumption
  <2> QED  BY <1>1, <2>1 DEF Names
<1>3. h = r \o <<v>>
  BY <1>1 DEF compute_hash
<1>4. /\ <<Nul>> \in Seq(Chars) /\ Len(<<Nul>>) = 1
      /\ <<v>> \in Seq(Chars) /\ Len(<<v>>) = 1 /\ <<v>>[1] = v /\ 1 \in 1..1
  BY <1>2
<1>5. /\ r \in Seq(Chars) /\ Len(r) = Len(m) + 1 /\ Len(m) \in Nat
      /\ \A i \in 1..Len(m) : r[i] = m[i]
  BY <1>1, <1>2, <1>4, Concat
<1>6. /\ Len(h) = Len(r) + 1
      /\ \A i \in 1..Len(r) : h[i] = r[i]
      /\ \A i \in 1..1 : h[Len(r) + i] = <<v>>[i]
  <2>1. /\ Len(r \o <<v>>) = Len(r) + 1
        /\ \A i \in 1..Len(r) : (r \o <<v>>)[i] = r[i]
        /\ \A i \in 1..1 : (r \o <<v>>)[Len(r) + i] = <<v>>[i]
    BY <1>4, <1>5, Concat
  <2> QED  BY <1>3, <2>1
<1>7. h[Len(r) + 1] = v
  BY <1>4, <1>6, Zenon
<1>8. /\ Len(h) = Len(m) + 2 /\ Len(r) + 1 = Len(m) + 2
      /\ \A i \in 1..Len(m) : i \in 1..Len(r)
  BY <1>5, <1>6
<1>9. \A i \in 1..Len(m) : h[i] = m[i]
  BY <1>5, <1>6, <1>8, Zenon
<1> QED  BY <1>1, <1>2, <1>5, <1>7, <1>8, <1>9

(* compute_hash gives one address to two contents exactly if they have one *)
(* value and their names, laid end to end with NUL between them, are the   *)
(* same.                                                                   *)
THEOREM SameAddress ==
  \A x, y \in Contents :
    compute_hash(x) = compute_hash(y) <=> Names(x) = Names(y) /\ x.value = y.value
<1> SUFFICES ASSUME NEW x \in Contents, NEW y \in Contents
             PROVE  compute_hash(x) = compute_hash(y)
                      <=> Names(x) = Names(y) /\ x.value = y.value
  OBVIOUS
<1>1. ASSUME Names(x) = Names(y), x.value = y.value PROVE compute_hash(x) = compute_hash(y)
  BY <1>1 DEF compute_hash
<1>2. ASSUME compute_hash(x) = compute_hash(y) PROVE Names(x) = Names(y) /\ x.value = y.value
  <2>1. PICK h, m, n : /\ h = compute_hash(x) /\ m = Names(x) /\ n = Names(y)
    OBVIOUS
  <2>2. /\ m \in Seq(Chars) /\ Len(m) \in Nat /\ Len(h) = Len(m) + 2
        /\ \A i \in 1..Len(m) : h[i] = m[i]
        /\ h[Len(m) + 2] = x.value
    BY <2>1, NamesThenValue
  <2>3. /\ n \in Seq(Chars) /\ Len(n) \in Nat /\ Len(h) = Len(n) + 2
        /\ \A i \in 1..Len(n) : h[i] = n[i]
        /\ h[Len(n) + 2] = y.value
    BY <1>2, <2>1, NamesThenValue
  <2>4. Len(m) = Len(n)
    BY <2>2, <2>3
  <2>5. m = n
    <3>1. \A i \in 1..Len(m) : m[i] = n[i]
      BY <2>2, <2>3, <2>4
    <3> QED  BY <2>2, <2>3, <2>4, <3>1
  <2> QED  BY <2>1, <2>2, <2>3, <2>4, <2>5, Zenon
<1> QED  BY <1>1, <1>2

(* Where the agent ids have no NUL, whatever the keys have, compute_hash   *)
(* gives different contents different addresses: the first NUL ends the    *)
(* agent id.                                                               *)
THEOREM AddressesDiffer ==
  \A x, y \in Contents :
    Delimited(x) /\ Delimited(y) /\ compute_hash(x) = compute_hash(y) => x = y
<1> SUFFICES ASSUME NEW x \in Contents, NEW y \in Contents, Delimited(x), Delimited(y),
                    compute_hash(x) = compute_hash(y)
             PROVE  x = y
  OBVIOUS
<1>2. ASSUME NEW u \in Contents, NEW w \in Contents, Delimited(w), NEW h, Laid(h, u), Laid(h, w)
      PROVE  ~ Len(u.agent) < Len(w.agent)
  <2> SUFFICES ASSUME Len(u.agent) < Len(w.agent) PROVE FALSE
    OBVIOUS
  <2>1. h[Len(u.agent) + 1] = Nul /\ Len(u.agent) \in Nat /\ Len(w.agent) \in Nat
    BY <1>2 DEF Laid
  <2>2. /\ w.agent \in Seq(Chars)
        /\ \A i \in 1..Len(w.agent) : h[i] = w.agent[i]
    BY <1>2 DEF Laid
  <2>3. Len(u.agent) + 1 \in 1..Len(w.agent) /\ DOMAIN w.agent = 1..Len(w.agent)
    BY <2>1, <2>2
  <2>4. w.agent[Len(u.agent) + 1] # Nul
    BY <1>2, <2>3 DEF Delimited
  <2> QED BY <2>1, <2>2, <2>3, <2>4
<1>3. PICK h : Laid(h, x) /\ Laid(h, y)
  BY HashParts
<1>4. Len(x.agent) \in Nat /\ Len(y.agent) \in Nat
  BY <1>3 DEF Laid
<1>5. ~ Len(x.agent) < Len(y.agent) /\ ~ Len(y.agent) < Len(x.agent)
  BY <1>2, <1>3
<1>6. Len(x.agent) = Len(y.agent)
  BY <1>4, <1>5
<1>7. Len(x.key) = Len(y.key)
  <2>1. /\ Len(x.key) \in Nat /\ Len(y.key) \in Nat
        /\ Len(x.agent) + Len(x.key) + 3 = Len(y.agent) + Len(y.key) + 3
    BY <1>3 DEF Laid
  <2>2. \A a, k, b, l \in Nat : a = b /\ a + k + 3 = b + l + 3 => k = l
    OBVIOUS
  <2> QED BY <1>4, <1>6, <2>1, <2>2, Zenon
<1>8. x.agent = y.agent
  <2>1. \A i \in 1..Len(x.agent) : x.agent[i] = y.agent[i]
    BY <1>3, <1>6 DEF Laid
  <2>2. /\ x.agent \in Seq(Chars) /\ y.agent \in Seq(Chars)
    BY <1>3 DEF Laid
  <2> QED BY <1>6, <2>1, <2>2
<1>9. x.key = y.key
  <2>1. \A i \in 1..Len(x.key) : x.key[i] = y.key[i]
    BY <1>3, <1>6, <1>7 DEF Laid
  <2>2. /\ x.key \in Seq(Chars) /\ y.key \in Seq(Chars)
    BY <1>3 DEF Laid
  <2> QED BY <1>7, <2>1, <2>2
<1>10. x.value = y.value
  <2>1. /\ h[Len(x.agent) + Len(x.key) + 3] = x.value
        /\ h[Len(y.agent) + Len(y.key) + 3] = y.value
    BY <1>3, Zenon DEF Laid
  <2> QED BY <1>6, <1>7, <2>1, Zenon
<1>11. /\ x = [agent |-> x.agent, key |-> x.key, value |-> x.value]
       /\ y = [agent |-> y.agent, key |-> y.key, value |-> y.value]
  BY NamesAssumption
<1> QED BY <1>8, <1>9, <1>10, <1>11

(***************************************************************************)
(* Types.                                                                  *)
(***************************************************************************)
(* What a thread that has read the clock works on.                         *)
Stamped == \A c \in Clients : stage[c] = "stamped" => request[c] \in Writes

LEMMA RowLists ==
  \A chosen : chosen \subseteq DOMAIN table /\ table \in Seq(Rows) =>
    \A s \in NewestFirst(chosen) : s \in Seq(Rows)
<1> SUFFICES ASSUME NEW chosen, chosen \subseteq DOMAIN table, table \in Seq(Rows),
                    NEW s \in NewestFirst(chosen)
             PROVE  s \in Seq(Rows)
  OBVIOUS
<1>1. PICK o \in [1..Cardinality(chosen) -> chosen] : s = [i \in DOMAIN o |-> table[o[i]]]
  BY DEF NewestFirst
<1>2. Cardinality(chosen) \in Nat
  <2>1. IsFiniteSet(chosen)
    <3>1. DOMAIN table = 1..Len(table) /\ Len(table) \in Nat
      OBVIOUS
    <3>2. IsFiniteSet(1..Len(table))
      BY <3>1, FS_Interval
    <3> QED BY <3>1, <3>2, FS_Subset
  <2> QED BY <2>1, FS_CardinalityType
<1>3. s \in [1..Cardinality(chosen) -> Rows]
  BY <1>1
<1> QED BY <1>2, <1>3

LEMMA TypeInit == Init => TypeOK /\ Stamped
<1>1. 0 \in 0..MaxTime /\ <<>> \in Seq(Rows)
  BY BoundsAssumption
<1> QED BY <1>1 DEF Init, TypeOK, Stamped

LEMMA TypeStep == TypeOK /\ Stamped /\ [Next]_vars => TypeOK' /\ Stamped'
<1> SUFFICES ASSUME TypeOK, Stamped, [Next]_vars PROVE TypeOK' /\ Stamped'
  OBVIOUS
<1> USE DEF TypeOK, Stamped, threads
<1>0. /\ Error \in Answers
      /\ \A h \in Hashes : [ok |-> h] \in Answers
      /\ \A s \in Seq(Rows) : [entries |-> s] \in Answers
  BY DEF Answers
<1>1. CASE Start
  BY <1>1 DEF Start
<1>e. 0 \in 0..MaxTime /\ <<>> \in Seq(Rows)
  BY BoundsAssumption
<1>2. ASSUME NEW c \in Clients, Send(c) PROVE TypeOK' /\ Stamped'
  BY <1>2 DEF Send
<1>3. ASSUME NEW c \in Clients, HandleInvalid(c) PROVE TypeOK' /\ Stamped'
  BY <1>0, <1>3 DEF HandleInvalid, Answer
<1>4. ASSUME NEW c \in Clients, Hangup(c) PROVE TypeOK' /\ Stamped'
  BY <1>4 DEF Hangup
<1>5. ASSUME NEW c \in Clients, Lock(c) PROVE TypeOK' /\ Stamped'
  BY <1>5 DEF Lock
<1>6. ASSUME NEW c \in Clients, Stamp(c) PROVE TypeOK' /\ Stamped'
  BY <1>6 DEF Stamp
<1>7. ASSUME NEW c \in Clients, Insert(c) PROVE TypeOK' /\ Stamped'
  <2>1. RowOf(c) \in Rows /\ RowOf(c).hash \in Hashes
    <3>1. request[c] \in Writes
      BY <1>7 DEF Insert
    <3>2. request[c].content \in Contents
      BY <3>1 DEF Writes
    <3>3. compute_hash(request[c].content) \in Hashes
      BY <3>2 DEF Hashes
    <3> QED BY <3>2, <3>3 DEF RowOf, Rows
  <2>2. table' \in Seq(Rows)
    BY <1>7, <2>1 DEF Insert
  <2> QED BY <1>0, <1>7, <2>1, <2>2 DEF Insert, Return, Answer
<1>8. ASSUME NEW c \in Clients, Read(c) \/ Query(c) \/ History(c) PROVE TypeOK' /\ Stamped'
  <2>1. PICK s \in Seq(Rows) : Return(c, [entries |-> s]) /\ UNCHANGED table
    BY <1>8, RowLists DEF Read, Query, History
  <2> QED BY <1>0, <2>1 DEF Return, Answer
<1>9. ASSUME NEW c \in Clients, Fails(c) PROVE TypeOK' /\ Stamped'
  BY <1>0, <1>9 DEF Fails, Return, Answer
<1>10. ASSUME NEW c \in Clients, Deliver(c) PROVE TypeOK' /\ Stamped'
  BY <1>0, <1>10 DEF Deliver
<1>11. CASE Crash
  BY <1>0, <1>e, <1>11 DEF Crash, Idle
<1>12. CASE Reboot
  BY <1>0, <1>e, <1>12 DEF Reboot, Idle
<1>13. CASE Tick
  BY <1>13, BoundsAssumption DEF Tick
<1>14. CASE UNCHANGED vars
  BY <1>14 DEF vars
<1> QED
  BY <1>1, <1>2, <1>3, <1>4, <1>5, <1>6, <1>7, <1>8, <1>9, <1>10, <1>11, <1>12, <1>13,
     <1>14 DEF Next, Serve

(* Every reachable state has its type: a timestamp is a second of the      *)
(* clock, and every row and answer is made of what clients wrote.          *)
THEOREM TypesHold == Spec => []TypeOK
<1>1. TypeOK /\ Stamped /\ [Next]_vars => (TypeOK /\ Stamped)'
  BY TypeStep
<1> QED BY TypeInit, <1>1, PTL DEF Spec

(***************************************************************************)
(* The order of the rows.                                                  *)
(***************************************************************************)
(* The mutex, and that no row is later than what its holder has read from  *)
(* the clock: without this the order of the rows is not inductive.         *)
Ordered ==
  /\ \A c \in Clients : stage[c] \in {"locked", "stamped"} => holder = c
  /\ \A i \in DOMAIN table : table[i].time <= clock
  /\ \A c \in Clients : stage[c] = "stamped" =>
       stamp[c] <= clock /\ \A i \in DOMAIN table : table[i].time <= stamp[c]
  /\ RowsInTimeOrder

LEMMA OrderInit == Init => Ordered
BY DEF Init, Ordered, RowsInTimeOrder

LEMMA OrderStep == TypeOK /\ Ordered /\ [Next]_vars => Ordered'
<1> SUFFICES ASSUME TypeOK, Ordered, [Next]_vars PROVE Ordered'
  OBVIOUS
<1> USE DEF Ordered, RowsInTimeOrder, threads
<1>0. /\ clock \in Nat /\ table \in Seq(Rows) /\ DOMAIN stage = Clients
      /\ stamp \in [Clients -> Nat]
      /\ \A i \in DOMAIN table : table[i].time \in Nat
  <2>1. /\ table \in Seq(Rows) /\ DOMAIN stage = Clients
        /\ clock \in 0..MaxTime /\ stamp \in [Clients -> 0..MaxTime]
    BY DEF TypeOK
  <2>2. 0..MaxTime \subseteq Nat
    BY BoundsAssumption
  <2>3. \A r \in Rows : r.time \in Nat
    BY <2>2 DEF Rows
  <2>4. \A i \in DOMAIN table : table[i] \in Rows
    BY <2>1
  <2> QED BY <2>1, <2>2, <2>3, <2>4
<1>1. CASE Start
  BY <1>1 DEF Start
<1>2. ASSUME NEW c \in Clients, Send(c) PROVE Ordered'
  BY <1>0, <1>2 DEF Send
<1>3. ASSUME NEW c \in Clients, HandleInvalid(c) PROVE Ordered'
  BY <1>0, <1>3 DEF HandleInvalid, Answer
<1>4. ASSUME NEW c \in Clients, Hangup(c) PROVE Ordered'
  BY <1>0, <1>4 DEF Hangup
<1>5. ASSUME NEW c \in Clients, Lock(c) PROVE Ordered'
  <2>1. \A d \in Clients : stage[d] \notin {"locked", "stamped"}
    BY <1>5, BoundsAssumption DEF Lock
  <2> QED BY <1>0, <1>5, <2>1 DEF Lock
<1>6. ASSUME NEW c \in Clients, Stamp(c) PROVE Ordered'
  BY <1>0, <1>6 DEF Stamp
<1>7. ASSUME NEW c \in Clients, Insert(c) PROVE Ordered'
  <2>1. /\ holder = c /\ stamp[c] <= clock
        /\ \A i \in DOMAIN table : table[i].time <= stamp[c]
    BY <1>7 DEF Insert
  <2>2. \A d \in Clients : stage'[d] \notin {"locked", "stamped"}
    BY <1>0, <1>7, <2>1 DEF Insert, Return, Answer
  <2>3. UNCHANGED clock
    BY <1>7 DEF Insert, Return, Answer
  <2>4. CASE table' = table
    BY <2>2, <2>3, <2>4
  <2>5. CASE table' = Append(table, RowOf(c))
    <3>1. RowOf(c).time = stamp[c]
      BY DEF RowOf
    <3>2. /\ DOMAIN table' = 1..Len(table) + 1 /\ DOMAIN table = 1..Len(table)
          /\ table'[Len(table) + 1] = RowOf(c)
          /\ \A i \in 1..Len(table) : table'[i] = table[i]
          /\ Len(table) \in Nat
      BY <1>0, <2>5
    <3>3. \A i \in DOMAIN table' : table'[i].time <= clock
      BY <2>1, <3>1, <3>2
    <3>4. \A i, j \in DOMAIN table' : i < j => table'[i].time <= table'[j].time
      <4>1. SUFFICES ASSUME NEW i \in DOMAIN table', NEW j \in DOMAIN table', i < j
                     PROVE  table'[i].time <= table'[j].time
        OBVIOUS
      <4>2. i \in DOMAIN table
        BY <3>2, <4>1
      <4>3. CASE j \in DOMAIN table
        BY <3>2, <4>1, <4>2, <4>3
      <4>4. CASE j = Len(table) + 1
        BY <2>1, <3>1, <3>2, <4>2, <4>4
      <4> QED BY <3>2, <4>3, <4>4
    <3> QED BY <2>2, <2>3, <3>3, <3>4
  <2> QED BY <1>7, <2>4, <2>5 DEF Insert
<1>8. ASSUME NEW c \in Clients, NEW a, Return(c, a), UNCHANGED table,
             stage[c] \in {"locked", "stamped"}
      PROVE  Ordered'
  <2>1. \A d \in Clients : stage'[d] \notin {"locked", "stamped"}
    BY <1>0, <1>8 DEF Return, Answer
  <2> QED BY <1>8, <2>1 DEF Return, Answer
<1>9. ASSUME NEW c \in Clients, Read(c) \/ Query(c) \/ History(c) PROVE Ordered'
  BY <1>8, <1>9 DEF Read, Query, History
<1>10. ASSUME NEW c \in Clients, Fails(c) PROVE Ordered'
  BY <1>8, <1>10 DEF Fails
<1>11. ASSUME NEW c \in Clients, Deliver(c) PROVE Ordered'
  BY <1>0, <1>11 DEF Deliver
<1>12. CASE Crash
  BY <1>12 DEF Crash, Idle
<1>13. CASE Reboot
  BY <1>13 DEF Reboot, Idle
<1>14. CASE Tick
  BY <1>0, <1>14 DEF Tick
<1>15. CASE UNCHANGED vars
  BY <1>15 DEF vars
<1> QED
  BY <1>1, <1>2, <1>3, <1>4, <1>5, <1>6, <1>7, <1>9, <1>10, <1>11, <1>12, <1>13, <1>14,
     <1>15 DEF Next, Serve

(* The timestamps of the rows never decrease from one insertion to the     *)
(* next: Store::write reads the clock under the mutex.                     *)
THEOREM TimeOrderHolds == Spec => []RowsInTimeOrder
<1>1. TypeOK /\ Stamped /\ Ordered /\ [Next]_vars => (TypeOK /\ Stamped /\ Ordered)'
  BY TypeStep, OrderStep
<1>2. Init => TypeOK /\ Stamped /\ Ordered
  BY TypeInit, OrderInit
<1>3. Ordered => RowsInTimeOrder
  BY DEF Ordered
<1> QED BY <1>1, <1>2, <1>3, PTL DEF Spec

(***************************************************************************)
(* The rows and the answers.                                               *)
(***************************************************************************)
(* A row is at the address of its content, once; a write that was answered *)
(* has its row.                                                            *)
Addressed ==
  /\ \A i \in DOMAIN table : table[i].hash = compute_hash(table[i].content)
  /\ \A i, j \in DOMAIN table : table[i].hash = table[j].hash => i = j
  /\ \A c \in Clients : stage[c] = "done" /\ "ok" \in DOMAIN answer[c] =>
       /\ request[c] \in Writes
       /\ answer[c].ok = compute_hash(request[c].content)
       /\ \E i \in DOMAIN table : table[i].hash = answer[c].ok

LEMMA AddressedInit == Init => Addressed
BY DEF Init, Addressed

(* What an insertion does to the rows. *)
LEMMA InsertRows ==
  ASSUME TypeOK, Stamped, Addressed, NEW c \in Clients, Insert(c)
  PROVE  /\ IsPrefix(table, table')
         /\ DOMAIN table \subseteq DOMAIN table'
         /\ \A i \in DOMAIN table : table'[i] = table[i]
         /\ \A i \in DOMAIN table' : table'[i].hash = compute_hash(table'[i].content)
         /\ \A i, j \in DOMAIN table' : table'[i].hash = table'[j].hash => i = j
         /\ \E i \in DOMAIN table' : table'[i].hash = RowOf(c).hash
<1>1. table \in Seq(Rows) /\ Len(table) \in Nat /\ DOMAIN table = 1..Len(table)
  BY DEF TypeOK
<1>2. RowOf(c).hash = compute_hash(RowOf(c).content)
  BY DEF RowOf
<1>3. CASE RowOf(c).hash \in Stored
  <2>1. table' = table
    BY <1>3 DEF Insert
  <2>2. \E i \in DOMAIN table : table[i].hash = RowOf(c).hash
    BY <1>3 DEF Stored
  <2> QED BY <1>1, <2>1, <2>2 DEF Addressed, IsPrefix
<1>4. CASE RowOf(c).hash \notin Stored
  <2>1. table' = Append(table, RowOf(c))
    BY <1>4 DEF Insert
  <2>2. /\ DOMAIN table' = 1..Len(table) + 1 /\ Len(table') = Len(table) + 1
        /\ \A i \in 1..Len(table) : table'[i] = table[i]
        /\ table'[Len(table) + 1] = RowOf(c)
    BY <1>1, <2>1
  <2>3. IsPrefix(table, table')
    <3>1. SubSeq(table, 1, Len(table)) = [i \in 1..Len(table) |-> table[i]]
      BY <1>1
    <3>2. SubSeq(table', 1, Len(table)) = [i \in 1..Len(table) |-> table'[i]]
      <4>1. RowOf(c) \in {RowOf(c)} \cup Rows /\ table \in Seq({RowOf(c)} \cup Rows)
        BY <1>1
      <4>2. table' \in Seq({RowOf(c)} \cup Rows)
        BY <2>1, <4>1
      <4> QED BY <1>1, <2>2, <4>2
    <3>3. [i \in 1..Len(table) |-> table[i]] = [i \in 1..Len(table) |-> table'[i]]
      BY <2>2
    <3> QED BY <1>1, <2>2, <3>1, <3>2, <3>3 DEF IsPrefix
  <2>4. \A i \in DOMAIN table : table[i].hash # RowOf(c).hash
    BY <1>4 DEF Stored
  <2>5. \A i \in DOMAIN table' : i \in DOMAIN table \/ i = Len(table) + 1
    BY <1>1, <2>2
  <2>6. DOMAIN table \subseteq DOMAIN table' /\ Len(table) + 1 \in DOMAIN table'
    BY <1>1, <2>2
  <2>7. ASSUME NEW i \in DOMAIN table', NEW j \in DOMAIN table',
               table'[i].hash = table'[j].hash
        PROVE  i = j
    BY <1>1, <2>2, <2>4, <2>5, <2>7 DEF Addressed
  <2>8. \A i \in DOMAIN table' : table'[i].hash = compute_hash(table'[i].content)
    BY <1>1, <1>2, <2>2, <2>5 DEF Addressed
  <2> QED BY <1>1, <2>2, <2>3, <2>6, <2>7, <2>8
<1> QED BY <1>3, <1>4

LEMMA AddressedStep == TypeOK /\ Stamped /\ Addressed /\ [Next]_vars => Addressed'
<1> SUFFICES ASSUME TypeOK, Stamped, Addressed, [Next]_vars PROVE Addressed'
  OBVIOUS
<1>0. DOMAIN stage = Clients /\ DOMAIN answer = Clients /\ DOMAIN request = Clients
  BY DEF TypeOK
<1> USE DEF Addressed, threads
<1>a. ASSUME UNCHANGED table,
             \A c \in Clients : stage'[c] = "done" =>
               \/ stage[c] = "done" /\ answer'[c] = answer[c] /\ request'[c] = request[c]
               \/ ~ "ok" \in DOMAIN answer'[c]
      PROVE  Addressed'
  BY <1>a
<1>1. CASE Start
  BY <1>1, <1>a DEF Start
<1>2. ASSUME NEW c \in Clients, Send(c) PROVE Addressed'
  BY <1>0, <1>2, <1>a DEF Send
<1>3. ASSUME NEW c \in Clients, NEW a, Answer(c, a), ~ "ok" \in DOMAIN a, UNCHANGED table
      PROVE  Addressed'
  BY <1>0, <1>3, <1>a DEF Answer
<1>4. ASSUME NEW c \in Clients, HandleInvalid(c) \/ Fails(c) PROVE Addressed'
  <2>1. ~ "ok" \in DOMAIN Error
    BY DEF Error
  <2> QED BY <1>3, <1>4, <2>1 DEF HandleInvalid, Fails, Return
<1>5. ASSUME NEW c \in Clients, Hangup(c) \/ Lock(c) \/ Stamp(c) PROVE Addressed'
  BY <1>0, <1>5, <1>a DEF Hangup, Lock, Stamp
<1>6. ASSUME NEW c \in Clients, Insert(c) PROVE Addressed'
  <2>1. request[c] \in Writes /\ RowOf(c).hash = compute_hash(request[c].content)
    BY <1>6 DEF Insert, Stamped, RowOf
  <2>2. /\ stage' = [stage EXCEPT ![c] = "done"]
        /\ answer' = [answer EXCEPT ![c] = [ok |-> RowOf(c).hash]]
        /\ request' = request
    BY <1>6 DEF Insert, Return, Answer
  <2>3. answer'[c].ok = RowOf(c).hash
    BY <1>0, <2>2
  <2>4. /\ DOMAIN table \subseteq DOMAIN table'
        /\ \A i \in DOMAIN table : table'[i] = table[i]
        /\ \A i \in DOMAIN table' : table'[i].hash = compute_hash(table'[i].content)
        /\ \A i, j \in DOMAIN table' : table'[i].hash = table'[j].hash => i = j
        /\ \E i \in DOMAIN table' : table'[i].hash = RowOf(c).hash
    BY <1>6, InsertRows
  <2>5. ASSUME NEW d \in Clients, stage'[d] = "done", "ok" \in DOMAIN answer'[d]
        PROVE  /\ request'[d] \in Writes
               /\ answer'[d].ok = compute_hash(request'[d].content)
               /\ \E i \in DOMAIN table' : table'[i].hash = answer'[d].ok
    <3>1. CASE d = c
      BY <2>1, <2>2, <2>3, <2>4, <3>1
    <3>2. CASE d # c
      <4>1. stage[d] = "done" /\ answer'[d] = answer[d]
        BY <1>0, <2>2, <2>5, <3>2
      <4> QED BY <2>2, <2>4, <2>5, <4>1
    <3> QED BY <3>1, <3>2
  <2> QED BY <2>4, <2>5 DEF Writes
<1>7. ASSUME NEW c \in Clients, Read(c) \/ Query(c) \/ History(c) PROVE Addressed'
  <2>1. PICK s : Return(c, [entries |-> s]) /\ UNCHANGED table
    BY <1>7 DEF Read, Query, History
  <2>2. ~ "ok" \in DOMAIN [entries |-> s]
    OBVIOUS
  <2> QED BY <1>3, <2>1, <2>2 DEF Return
<1>8. ASSUME NEW c \in Clients, Deliver(c) PROVE Addressed'
  BY <1>0, <1>8, <1>a DEF Deliver
<1>9. CASE Crash
  BY <1>9, <1>a DEF Crash, Idle
<1>10. CASE Reboot
  BY <1>10 DEF Reboot, Idle
<1>11. CASE Tick
  BY <1>11, <1>a DEF Tick
<1>12. CASE UNCHANGED vars
  BY <1>12, <1>a DEF vars
<1> QED
  BY <1>1, <1>2, <1>4, <1>5, <1>6, <1>7, <1>8, <1>9, <1>10, <1>11, <1>12 DEF Next, Serve

LEMMA AnswersInvariant == Spec => [](TypeOK /\ Stamped /\ Addressed)
<1>1. TypeOK /\ Stamped /\ Addressed /\ [Next]_vars => (TypeOK /\ Stamped /\ Addressed)'
  BY TypeStep, AddressedStep
<1>2. Init => TypeOK /\ Stamped /\ Addressed
  BY TypeInit, AddressedInit
<1> QED BY <1>1, <1>2, PTL DEF Spec

(* The hash that a write is answered is that of one row, of the value that *)
(* was written under the same names end to end, and of the very content    *)
(* unless an agent id has a NUL, whatever the other agents write.          *)
THEOREM AnswersNameContents == Spec => []AnswerNamesContent
<1>1. TypeOK /\ Stamped /\ Addressed => AnswerNamesContent
  <2> SUFFICES ASSUME TypeOK, Addressed, NEW c \in Clients,
                      stage[c] = "done", "ok" \in DOMAIN answer[c],
                      NEW x, x = request[c].content
               PROVE  \E i \in DOMAIN table :
                        /\ \A j \in DOMAIN table : table[j].hash = answer[c].ok <=> j = i
                        /\ Names(table[i].content) = Names(x) /\ table[i].content.value = x.value
                        /\ Delimited(x) /\ Delimited(table[i].content) => table[i].content = x
    BY DEF AnswerNamesContent
  <2>1. x \in Contents /\ answer[c].ok = compute_hash(x)
    BY DEF Addressed, Writes
  <2>2. PICK i \in DOMAIN table : table[i].hash = answer[c].ok
    BY DEF Addressed
  <2>3. PICK y : y = table[i].content /\ y \in Contents
    <3>1. table \in Seq(Rows)
      BY DEF TypeOK
    <3>2. table[i] \in Rows
      BY <3>1
    <3> QED BY <3>2 DEF Rows
  <2>4. compute_hash(y) = compute_hash(x)
    BY <2>1, <2>2, <2>3 DEF Addressed
  <2>5. \A j \in DOMAIN table : table[j].hash = answer[c].ok <=> j = i
    BY <2>2 DEF Addressed
  <2>6. Names(y) = Names(x) /\ y.value = x.value
    BY <2>1, <2>3, <2>4, SameAddress
  <2>7. Delimited(x) /\ Delimited(y) => y = x
    BY <2>1, <2>3, <2>4, AddressesDiffer
  <2> QED BY <2>3, <2>5, <2>6, <2>7
<1> QED BY <1>1, AnswersInvariant, PTL

(* Writing the same content twice is a no-op: INSERT OR IGNORE keeps every *)
(* row as it is and where it is until the machine ends.                    *)
THEOREM FirstWritesStand == Spec => FirstWriteStands
<1> DEFINE Kept == Reboot \/ /\ IsPrefix(table, table')
                             /\ \A i, j \in DOMAIN table' : table'[i].hash = table'[j].hash => i = j
<1>1. TypeOK /\ Stamped /\ Addressed /\ [Next]_vars => [Kept]_vars
  <2> SUFFICES ASSUME TypeOK, Stamped, Addressed, [Next]_vars PROVE Kept \/ UNCHANGED vars
    OBVIOUS
  <2>1. CASE \E c \in Clients : Insert(c)
    BY <2>1, InsertRows
  <2>2. CASE table' = table
    <3>1. Len(table) \in Nat
      BY DEF TypeOK
    <3> QED BY <2>2, <3>1 DEF IsPrefix, Addressed
  <2>3. Reboot \/ (\E c \in Clients : Insert(c)) \/ table' = table
    BY DEF Next, Serve, vars, threads, Start, Send, HandleInvalid, Hangup, Lock, Stamp, Read,
           Query, History, Fails, Return, Deliver, Crash, Tick, Answer
  <2> QED BY <2>1, <2>2, <2>3
<1>2. Spec => [][Kept]_vars
  BY <1>1, AnswersInvariant, PTL DEF Spec
<1> QED BY <1>2 DEF FirstWriteStands
=============================================================================
