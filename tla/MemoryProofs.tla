------------------------------ MODULE MemoryProofs ------------------------------
(***************************************************************************)
(* The context daemon implements the memory of SharedMemory.tla, and a     *)
(* query by prefix answers with the keys that have the prefix, in letters  *)
(* of either case.                                                         *)
(*                                                                         *)
(* The two recursions on the way, over the characters of a prefix and over *)
(* those of a LIKE pattern, are functions defined by themselves: what they *)
(* compute is known only once a solution is shown to exist.  The numbers   *)
(* below which one exists are a set, and the induction is over that set.   *)
(***************************************************************************)
EXTENDS CtxGraphProofs, SequenceTheorems, WellFoundedInduction

(* Induction on the numbers, for a set. *)
LEMMA SetInduction ==
  ASSUME NEW T, 0 \in T, \A k \in Nat : k \in T => k + 1 \in T
  PROVE  \A k \in Nat : k \in T
<1> DEFINE bad == Nat \ T
<1>1. SUFFICES ASSUME bad # {} PROVE FALSE
  OBVIOUS
<1>2. PICK k \in bad : \A j \in bad : <<j, k>> \notin OpToRel(<, Nat)
  BY <1>1, WFMin, NatLessThanWellFounded, Zenon
<1>3. \A j \in bad : ~ (j < k)
  BY <1>2 DEF OpToRel
<1>4. k \in Nat /\ k \notin T /\ k # 0
  OBVIOUS
<1>5. k - 1 \in Nat /\ k - 1 \notin T /\ k - 1 < k
  BY <1>4
<1> QED  BY <1>3, <1>5

(* What FlattenSeq leaves after each of the sequences it joins. *)
LEMMA Flattening ==
  ASSUME NEW S, NEW seqs \in Seq(Seq(S))
  PROVE  \E g \in [0..Len(seqs) -> Seq(S)] :
           /\ g[0] = <<>>
           /\ \A i \in 1..Len(seqs) : g[i] = g[i - 1] \o seqs[i]
           /\ FlattenSeq(seqs) = g[Len(seqs)]
<1> DEFINE n == Len(seqs)
           Joins(g, m) == g[0] = <<>> /\ \A i \in 1..m : g[i] = g[i - 1] \o seqs[i]
<1>1. n \in Nat /\ \A i \in 1..n : seqs[i] \in Seq(S)
  OBVIOUS
<1> HIDE DEF n
<1>2. \E g \in [0..n -> Seq(S)] : Joins(g, n)
  <2> DEFINE Joined(m) == \E g \in [0..m -> Seq(S)] : Joins(g, m)
             T == {m \in Nat : m <= n => Joined(m)}
  <2>1. 0 \in T
    <3>1. [i \in 0..0 |-> <<>>] \in [0..0 -> Seq(S)] /\ Joins([i \in 0..0 |-> <<>>], 0)
      OBVIOUS
    <3> QED  BY <3>1
  <2>2. ASSUME NEW m \in Nat, m \in T PROVE m + 1 \in T
    <3>8. SUFFICES ASSUME m + 1 <= n PROVE Joined(m + 1)
      <4> HIDE DEF Joined
      <4> QED  BY <3>8
    <3>9. Joined(m)
      <4> HIDE DEF Joined
      <4> QED  BY <1>1, <2>2, <3>8
    <3>1. PICK g \in [0..m -> Seq(S)] : Joins(g, m)
      BY <3>9
    <3> DEFINE h == [i \in 0..m + 1 |-> IF i = m + 1 THEN g[m] \o seqs[m + 1] ELSE g[i]]
    <3>2. g[m] \o seqs[m + 1] \in Seq(S)
      <4>1. seqs[m + 1] \in Seq(S) /\ g[m] \in Seq(S)
        BY <1>1, <3>8
      <4> QED  BY <4>1
    <3>3. h \in [0..m + 1 -> Seq(S)]
      <4>1. \A i \in 0..m + 1 : i = m + 1 \/ i \in 0..m
        OBVIOUS
      <4> QED  BY <3>2, <4>1
    <3>4. \A i \in 0..m : h[i] = g[i]
      <4>1. \A i \in 0..m : i \in 0..m + 1 /\ i # m + 1
        OBVIOUS
      <4> QED  BY <4>1
    <3>5. h[m + 1] = h[m] \o seqs[m + 1]
      <4>1. m + 1 \in 0..m + 1 /\ m \in 0..m
        OBVIOUS
      <4>2. h[m + 1] = g[m] \o seqs[m + 1]
        BY <4>1
      <4>3. h[m] = g[m]
        BY <3>4, <4>1
      <4> QED  BY <4>2, <4>3, Zenon
    <3>6. /\ \A i \in 1..m + 1 : i = m + 1 \/ i \in 1..m
          /\ \A i \in 1..m : i \in 0..m /\ i - 1 \in 0..m
      OBVIOUS
    <3>7. 0 \in 0..m
      OBVIOUS
    <3> HIDE DEF h
    <3>10. h[0] = <<>> /\ \A i \in 1..m + 1 : h[i] = h[i - 1] \o seqs[i]
      <4>1. ASSUME NEW i \in 1..m PROVE h[i] = h[i - 1] \o seqs[i]
        BY <3>1, <3>4, <3>6
      <4>2. h[0] = <<>>
        BY <3>1, <3>4, <3>7
      <4>3. ASSUME NEW i \in 1..m + 1 PROVE h[i] = h[i - 1] \o seqs[i]
        <5>1. CASE i = m + 1
          <6>1. i - 1 = m
            BY <5>1
          <6> QED  BY <3>5, <5>1, <6>1
        <5>2. CASE i \in 1..m
          BY <4>1, <5>2, Zenon
        <5> QED  BY <3>6, <5>1, <5>2
      <4> QED  BY <4>2, <4>3, Zenon
    <3> QED  BY <3>3, <3>10
  <2> HIDE DEF T
  <2>3. n \in T
    BY <1>1, <2>1, <2>2, SetInduction
  <2>4. Joined(n)
    <3> HIDE DEF Joined
    <3> QED  BY <1>1, <2>3 DEF T
  <2> QED  BY <2>4
<1>3. PICK g \in [0..n -> Seq(S)] : Joins(g, n)
  BY <1>2
<1>4. CASE n = 0
  <2>1. FlattenSeq(seqs) = seqs /\ seqs = <<>>
    BY <1>4 DEF FlattenSeq, n
  <2> QED  BY <1>3, <1>4, <2>1 DEF n
<1>5. CASE n # 0
  <2> DEFINE Runs(f) == f = [i \in 1..n |-> IF i = 1 THEN seqs[i] ELSE f[i - 1] \o seqs[i]]
             f == CHOOSE x : Runs(x)
             h == [i \in 1..n |-> g[i]]
  <2>1. Runs(h)
    <3>1. g[1] = seqs[1]
      <4>1. 1 \in 1..n /\ 1 - 1 = 0
        BY <1>1, <1>5
      <4>2. g[1] = <<>> \o seqs[1] /\ seqs[1] \in Seq(S)
        BY <1>1, <1>3, <4>1
      <4> QED  BY <4>2
    <3>2. \A i \in 1..n : g[i] = IF i = 1 THEN seqs[i] ELSE h[i - 1] \o seqs[i]
      <4>1. \A i \in 1..n : i = 1 \/ i - 1 \in 1..n
        BY <1>1
      <4> QED  BY <1>3, <3>1, <4>1
    <3> QED  BY <3>2
  <2> HIDE DEF Runs, h
  <2>2. Runs(f)
    BY <2>1, Zenon
  <2>3. FlattenSeq(seqs) = f[n]
    BY <1>5 DEF FlattenSeq, n, Runs
  <2> HIDE DEF f
  <2>4. \A i \in 1..n : f[i] = IF i = 1 THEN seqs[i] ELSE f[i - 1] \o seqs[i]
    BY <2>2 DEF Runs
  <2>5. \A i \in 1..n : h[i] = IF i = 1 THEN seqs[i] ELSE h[i - 1] \o seqs[i]
    BY <2>1 DEF Runs
  <2> DEFINE T == {m \in Nat : m + 1 <= n => f[m + 1] = h[m + 1]}
  <2>6. 0 \in T
    BY <1>1, <1>5, <2>4, <2>5
  <2>7. ASSUME NEW m \in Nat, m \in T PROVE m + 1 \in T
    <3>1. m + 1 + 1 <= n => m + 1 + 1 \in 1..n /\ m + 1 + 1 # 1 /\ m + 1 + 1 - 1 = m + 1
      BY <1>1
    <3> QED  BY <1>1, <2>4, <2>5, <2>7, <3>1
  <2> HIDE DEF T
  <2>8. n - 1 \in T
    <3>1. n - 1 \in Nat
      BY <1>1, <1>5
    <3> QED  BY <2>6, <2>7, <3>1, SetInduction
  <2>9. f[n] = g[n]
    <3>1. n - 1 + 1 = n /\ n \in 1..n
      BY <1>1, <1>5
    <3> QED  BY <2>8, <3>1 DEF T, h
  <2> QED  BY <1>3, <2>3, <2>9 DEF n
<1> QED  BY <1>4, <1>5

(* Where in the pattern of a prefix the characters of the prefix begin:    *)
(* those that LIKE treats specially with the escape character before them. *)
Begins(q, p, start) ==
  /\ start[1] = 1 /\ start[Len(q) + 1] = Len(p) /\ p[Len(p)] = "%"
  /\ \A i \in 1..Len(q) + 1 : start[i] \in 1..Len(p)
  /\ \A i \in 1..Len(q) :
       IF q[i] \in {"%", "_"}
       THEN p[start[i]] = "\\" /\ p[start[i] + 1] = q[i] /\ start[i + 1] = start[i] + 2
       ELSE p[start[i]] = q[i] /\ start[i + 1] = start[i] + 1

(* query_by_prefix builds its pattern so. *)
LEMMA PatternParts ==
  ASSUME NEW S, NEW q \in Seq(S)
  PROVE  /\ Len(Pattern(q)) \in Nat /\ Pattern(q) \in Seq(S \cup {"%", "\\"})
         /\ \E start \in [1..Len(q) + 1 -> Nat] : Begins(q, Pattern(q), start)
<1> DEFINE U == S \cup {"%", "\\"}
           n == Len(q)
           t(i) == IF q[i] \in {"%", "_"} THEN <<"\\", q[i]>> ELSE <<q[i]>>
           seqs == [i \in 1..n |-> t(i)]
           p == Pattern(q)
<1>1. n \in Nat /\ \A i \in 1..n : q[i] \in U
  OBVIOUS
<1>2. ASSUME NEW i \in 1..n PROVE t(i) \in Seq(U)
  <2>1. PICK c : c = q[i] /\ c \in U /\ "\\" \in U
    BY <1>1
  <2> HIDE DEF U
  <2>2. <<c>> \in Seq(U) /\ <<"\\", c>> \in Seq(U)
    BY <2>1
  <2> QED  BY <2>1, <2>2
<1>3. seqs \in Seq(Seq(U)) /\ Len(seqs) = n /\ \A i \in 1..n : seqs[i] = t(i)
  <2> HIDE DEF t, U, n
  <2> QED  BY <1>1, <1>2
<1>4. p = FlattenSeq(seqs) \o <<"%">>
  BY DEF Pattern
<1> HIDE DEF seqs, p
<1>5. PICK g \in [0..n -> Seq(U)] :
        g[0] = <<>> /\ (\A i \in 1..n : g[i] = g[i - 1] \o seqs[i]) /\ FlattenSeq(seqs) = g[n]
  <2> HIDE DEF U, n
  <2>1. \E g \in [0..Len(seqs) -> Seq(U)] :
          /\ g[0] = <<>>
          /\ \A i \in 1..Len(seqs) : g[i] = g[i - 1] \o seqs[i]
          /\ FlattenSeq(seqs) = g[Len(seqs)]
    BY <1>3, Flattening
  <2> QED  BY <1>3, <2>1
<1>6. \A i \in 0..n : g[i] \in Seq(U) /\ Len(g[i]) \in Nat
  BY <1>5
<1>7. ASSUME NEW i \in 1..n
      PROVE  /\ Len(g[i]) = Len(g[i - 1]) + Len(t(i)) /\ Len(t(i)) \in Nat
             /\ \A j \in 1..Len(g[i - 1]) : g[i][j] = g[i - 1][j]
             /\ \A j \in 1..Len(t(i)) : g[i][Len(g[i - 1]) + j] = t(i)[j]
  <2>1. i - 1 \in 0..n
    BY <1>1
  <2>2. g[i - 1] \in Seq(U) /\ t(i) \in Seq(U) /\ g[i] = g[i - 1] \o t(i)
    BY <1>2, <1>3, <1>5, <1>6, <2>1
  <2> HIDE DEF t, U
  <2> QED  BY <2>2, Concat
<1> DEFINE Before(i, m) == /\ Len(g[i]) <= Len(g[m])
                           /\ \A j \in 1..Len(g[i]) : g[m][j] = g[i][j]
           T == {m \in Nat : m <= n => \A i \in 0..m : Before(i, m)}
<1> HIDE DEF t, U, n
<1>8. 0 \in T
  <2>1. \A i \in 0..0 : i = 0 /\ Len(g[0]) \in Nat
    BY <1>1, <1>6
  <2> QED  BY <2>1
<1>9. ASSUME NEW m \in Nat, m \in T PROVE m + 1 \in T
  <2>1. SUFFICES ASSUME m + 1 <= n, NEW i \in 0..m + 1 PROVE Before(i, m + 1)
    <3> HIDE DEF Before
    <3> QED  BY <2>1
  <2>2. m + 1 \in 1..n /\ m \in 0..n /\ m + 1 \in 0..n /\ m + 1 - 1 = m
    BY <1>1, <2>1
  <2>3. /\ Len(g[m + 1]) = Len(g[m]) + Len(t(m + 1)) /\ Len(t(m + 1)) \in Nat
        /\ \A j \in 1..Len(g[m]) : g[m + 1][j] = g[m][j]
    BY <1>7, <2>2
  <2>4. CASE i = m + 1
    <3>1. Len(g[m + 1]) \in Nat
      BY <1>6, <2>2
    <3> QED  BY <2>4, <3>1
  <2>5. CASE i \in 0..m
    <3>1. Before(i, m)
      <4> HIDE DEF Before
      <4> QED  BY <1>1, <1>9, <2>1, <2>5
    <3>2. i \in 0..n
      BY <1>1, <2>1, <2>5
    <3>3. Len(g[i]) \in Nat /\ Len(g[m]) \in Nat
      BY <1>6, <2>2, <3>2
    <3>4. ASSUME NEW j \in 1..Len(g[i]) PROVE g[m + 1][j] = g[i][j]
      <4>1. j \in 1..Len(g[m])
        BY <3>1, <3>3
      <4> QED  BY <2>3, <3>1, <4>1
    <3>5. Len(g[i]) <= Len(g[m + 1])
      <4>1. PICK a, b, c, d : /\ a = Len(g[i]) /\ b = Len(g[m])
                              /\ c = Len(t(m + 1)) /\ d = Len(g[m + 1])
        OBVIOUS
      <4>2. a <= b /\ a \in Nat /\ b \in Nat /\ c \in Nat /\ d = b + c
        BY <2>3, <3>1, <3>3, <4>1, Zenon
      <4>3. a <= d
        BY <4>2
      <4> QED  BY <4>1, <4>3, Zenon
    <3> QED  BY <3>4, <3>5
  <2> QED  BY <2>1, <2>4, <2>5
<1>10. ASSUME NEW i \in 0..n PROVE Before(i, n)
  <2> HIDE DEF Before
  <2>1. n \in T
    <3> HIDE DEF T
    <3> QED  BY <1>1, <1>8, <1>9, SetInduction
  <2> QED  BY <1>1, <2>1
<1>11. /\ Len(p) = Len(g[n]) + 1 /\ p[Len(p)] = "%" /\ Len(p) \in Nat
       /\ \A j \in 1..Len(g[n]) : p[j] = g[n][j]
       /\ p \in Seq(U)
  <2>1. g[n] \in Seq(U) /\ <<"%">> \in Seq(U) /\ p = g[n] \o <<"%">>
    BY <1>1, <1>4, <1>5, <1>6 DEF U
  <2>2. Len(<<"%">>) = 1 /\ <<"%">>[1] = "%" /\ 1 \in 1..1
    OBVIOUS
  <2>3. /\ Len(p) = Len(g[n]) + Len(<<"%">>) /\ Len(g[n]) \in Nat
        /\ \A j \in 1..Len(g[n]) : p[j] = g[n][j]
        /\ \A j \in 1..Len(<<"%">>) : p[Len(g[n]) + j] = <<"%">>[j]
        /\ p \in Seq(U)
    BY <2>1, Concat
  <2> QED  BY <2>2, <2>3
<1>12. \A i \in 1..n + 1 : i - 1 \in 0..n
  BY <1>1
<1>13. PICK start \in [1..n + 1 -> Nat] : \A i \in 1..n + 1 : start[i] = Len(g[i - 1]) + 1
  <2> DEFINE h == [i \in 1..n + 1 |-> Len(g[i - 1]) + 1]
  <2>1. ASSUME NEW i \in 1..n + 1 PROVE Len(g[i - 1]) + 1 \in Nat
    BY <1>6, <1>12
  <2>2. h \in [1..n + 1 -> Nat] /\ \A i \in 1..n + 1 : h[i] = Len(g[i - 1]) + 1
    BY <2>1
  <2> QED  BY <2>2, Zenon
<1>14. start[1] = 1 /\ start[n + 1] = Len(p)
  <2>1. 1 \in 1..n + 1 /\ n + 1 \in 1..n + 1 /\ 1 - 1 = 0 /\ n + 1 - 1 = n
    BY <1>1
  <2>2. Len(g[0]) = 0
    BY <1>5
  <2>3. start[1] = Len(g[0]) + 1 /\ start[n + 1] = Len(g[n]) + 1
    <3>1. ASSUME NEW i \in 1..n + 1, NEW k \in 0..n, i - 1 = k PROVE start[i] = Len(g[k]) + 1
      BY <1>13, <3>1, Zenon
    <3>2. start[1] = Len(g[0]) + 1
      BY <1>1, <2>1, <3>1
    <3>3. start[n + 1] = Len(g[n]) + 1
      BY <1>1, <2>1, <3>1
    <3> QED  BY <3>2, <3>3
  <2> QED  BY <1>11, <2>2, <2>3
<1>15. ASSUME NEW i \in 1..n + 1 PROVE start[i] \in 1..Len(p)
  <2>1. Len(g[i - 1]) <= Len(g[n]) /\ Len(g[i - 1]) \in Nat
    BY <1>6, <1>10, <1>12
  <2>2. start[i] = Len(g[i - 1]) + 1
    BY <1>13
  <2> QED  BY <1>11, <2>1, <2>2
<1>16. ASSUME NEW i \in 1..n
       PROVE  /\ start[i + 1] = start[i] + Len(t(i))
              /\ \A j \in 1..Len(t(i)) : p[start[i] + j - 1] = t(i)[j]
  <2>1. /\ i \in 0..n /\ i - 1 \in 0..n /\ i \in 1..n + 1 /\ i + 1 \in 1..n + 1 /\ i + 1 - 1 = i
    BY <1>1
  <2>2. start[i] = Len(g[i - 1]) + 1 /\ start[i + 1] = Len(g[i]) + 1
    BY <1>13, <2>1
  <2>3. Len(g[i - 1]) \in Nat /\ Len(g[i]) \in Nat /\ Len(g[n]) \in Nat
    BY <1>1, <1>6, <2>1
  <2>4. start[i + 1] = start[i] + Len(t(i))
    BY <1>7, <2>2, <2>3
  <2>5. ASSUME NEW j \in 1..Len(t(i)) PROVE p[start[i] + j - 1] = t(i)[j]
    <3>1. start[i] + j - 1 = Len(g[i - 1]) + j /\ Len(g[i - 1]) + j \in 1..Len(g[i])
      <4>1. PICK b, a, l : b = start[i] /\ a = Len(g[i - 1]) /\ l = Len(t(i))
        OBVIOUS
      <4>2. b = a + 1 /\ a \in Nat /\ l \in Nat /\ j \in 1..l /\ Len(g[i]) = a + l
        BY <1>7, <2>2, <2>3, <4>1, Zenon
      <4>3. b + j - 1 = a + j /\ a + j \in 1..a + l
        BY <4>2
      <4> QED  BY <4>1, <4>2, <4>3, Zenon
    <3>2. \A k \in 1..Len(g[i]) : k \in 1..Len(g[n]) /\ g[n][k] = g[i][k]
      BY <1>10, <2>1, <2>3
    <3>3. g[i][Len(g[i - 1]) + j] = t(i)[j]
      BY <1>7
    <3> QED  BY <1>11, <3>1, <3>2, <3>3
  <2> QED  BY <2>4, <2>5
<1>17. ASSUME NEW i \in 1..n
       PROVE  IF q[i] \in {"%", "_"}
              THEN p[start[i]] = "\\" /\ p[start[i] + 1] = q[i] /\ start[i + 1] = start[i] + 2
              ELSE p[start[i]] = q[i] /\ start[i + 1] = start[i] + 1
  <2>1. start[i] \in Nat
    BY <1>1, <1>13
  <2>2. CASE q[i] \in {"%", "_"}
    <3>1. t(i) = <<"\\", q[i]>>
      BY <2>2 DEF t
    <3>2. Len(t(i)) = 2 /\ t(i)[1] = "\\" /\ t(i)[2] = q[i]
      BY <3>1
    <3>3. start[i] + 1 - 1 = start[i] /\ start[i] + 2 - 1 = start[i] + 1 /\ 1 \in 1..2 /\ 2 \in 1..2
      BY <2>1
    <3> QED  BY <1>16, <2>2, <3>2, <3>3
  <2>3. CASE q[i] \notin {"%", "_"}
    <3>1. t(i) = <<q[i]>>
      BY <2>3 DEF t
    <3>2. Len(t(i)) = 1 /\ t(i)[1] = q[i]
      BY <3>1
    <3>3. start[i] + 1 - 1 = start[i] /\ 1 \in 1..1
      BY <2>1
    <3> QED  BY <1>16, <2>3, <3>2, <3>3
  <2> QED  BY <2>2, <2>3
<1>18. Begins(q, p, start)
  BY <1>11, <1>14, <1>15, <1>17 DEF Begins, n
<1> QED  BY <1>11, <1>13, <1>18 DEF p, n, U

-----------------------------------------------------------------------------
(* The body of the recursion of Like. *)
Onward(s, p, f, j) ==
  IF j > Len(p) THEN {Len(s) + 1}
  ELSE IF p[j] = "%" THEN {i \in 1..Len(s) + 1 : \E k \in f[j + 1] : i <= k}
  ELSE IF p[j] = "_" THEN {i \in 1..Len(s) : i + 1 \in f[j + 1]}
  ELSE IF p[j] # "\\"
       THEN {i \in 1..Len(s) : Fold(s[i]) = Fold(p[j]) /\ i + 1 \in f[j + 1]}
  ELSE {i \in 1..Len(s) : j < Len(p) /\ Fold(s[i]) = Fold(p[j + 1]) /\ i + 1 \in f[j + 2]}

(* It looks only at later positions of the pattern. *)
LEMMA OnwardLocal ==
  ASSUME NEW s, NEW p, Len(p) \in Nat, NEW f, NEW g, NEW j \in 1..Len(p) + 1,
         \A i \in j + 1..Len(p) + 1 : f[i] = g[i]
  PROVE  Onward(s, p, f, j) = Onward(s, p, g, j)
<1>1. j <= Len(p) => f[j + 1] = g[j + 1]
  OBVIOUS
<1>2. j < Len(p) => f[j + 2] = g[j + 2]
  OBVIOUS
<1>3. j > Len(p) \/ j <= Len(p)
  OBVIOUS
<1> QED  BY <1>1, <1>2, <1>3 DEF Onward

(* The recursion of Like has a solution, so that Like is what it says. *)
LEMMA LikeRecursion ==
  ASSUME NEW s, NEW p, Len(p) \in Nat
  PROVE  \E from : /\ Like(s, p) <=> 1 \in from[1]
                   /\ \A j \in 1..Len(p) + 1 : from[j] = Onward(s, p, from, j)
<1> DEFINE n == Len(p)
           Solves(f, d) == \A j \in n + 1 - d..n + 1 : f[j] = Onward(s, p, f, j)
           Total(f) == f = [j \in 1..n + 1 |-> f[j]]
           Solved(d) == \E f : Total(f) /\ Solves(f, d)
           T == {d \in Nat : d <= n => Solved(d)}
<1>1. n \in Nat
  OBVIOUS
<1> HIDE DEF n
<1>2. 0 \in T
  <2> DEFINE f == [j \in 1..n + 1 |-> Onward(s, p, <<>>, j)]
  <2>1. \A j \in n + 1 - 0..n + 1 : j = n + 1 /\ j \in 1..n + 1
    BY <1>1
  <2>2. Onward(s, p, <<>>, n + 1) = {Len(s) + 1} /\ Onward(s, p, f, n + 1) = {Len(s) + 1}
    <3>1. n + 1 > Len(p)
      BY <1>1 DEF n
    <3> HIDE DEF f
    <3> QED  BY <3>1, Zenon DEF Onward
  <2>3. Total(f)
    OBVIOUS
  <2>4. \A j \in 1..n + 1 : f[j] = Onward(s, p, <<>>, j)
    OBVIOUS
  <2> HIDE DEF f, Total
  <2>5. Solves(f, 0)
    BY <2>1, <2>2, <2>4
  <2>6. Solved(0)
    BY <2>3, <2>5
  <2> QED  BY <2>6
<1>3. ASSUME NEW d \in Nat, d \in T PROVE d + 1 \in T
  <2>1. SUFFICES ASSUME d + 1 <= n PROVE Solved(d + 1)
    <3> HIDE DEF Solved
    <3> QED  BY <2>1
  <2>2. Solved(d)
    <3> HIDE DEF Solved
    <3> QED  BY <1>1, <1>3, <2>1
  <2>3. PICK f : Total(f) /\ Solves(f, d)
    BY <2>2
  <2> DEFINE k == n - d
             h == [j \in 1..n + 1 |-> IF j = k THEN Onward(s, p, f, k) ELSE f[j]]
  <2>4. /\ k \in 1..n + 1 /\ n + 1 - (d + 1) = k
        /\ \A j \in k..n + 1 : j = k \/ (j # k /\ j \in n + 1 - d..n + 1)
        /\ \A j \in n + 1 - d..n + 1 : j \in k + 1..n + 1 /\ j \in 1..n + 1
        /\ \A j \in k..n + 1 : \A i \in j + 1..n + 1 : i \in k + 1..n + 1
        /\ \A i \in k + 1..n + 1 : i \in 1..n + 1 /\ i # k
        /\ k..n + 1 \subseteq 1..n + 1
    BY <1>1, <2>1
  <2> HIDE DEF k
  <2>5. h[k] = Onward(s, p, f, k) /\ \A i \in k + 1..n + 1 : h[i] = f[i]
    BY <2>4
  <2>6. Total(h)
    OBVIOUS
  <2> HIDE DEF h, Total
  <2>7. ASSUME NEW j \in k..n + 1 PROVE Onward(s, p, f, j) = Onward(s, p, h, j)
    <3>1. j \in 1..Len(p) + 1 /\ \A i \in j + 1..Len(p) + 1 : f[i] = h[i]
      BY <2>4, <2>5 DEF n
    <3> QED  BY <3>1, OnwardLocal
  <2>8. ASSUME NEW j \in k..n + 1 PROVE h[j] = Onward(s, p, h, j)
    <3>1. CASE j = k
      BY <2>5, <2>7, <3>1
    <3>2. CASE j \in n + 1 - d..n + 1
      BY <2>3, <2>4, <2>5, <2>7, <3>2
    <3> QED  BY <2>4, <3>1, <3>2
  <2>9. Solves(h, d + 1)
    BY <2>4, <2>8
  <2> QED  BY <2>6, <2>9
<1>4. Solved(n)
  <2> HIDE DEF Solved, T
  <2>1. n \in T
    BY <1>1, <1>2, <1>3, SetInduction
  <2> QED  BY <1>1, <2>1 DEF T
<1> DEFINE Runs(f) == f = [j \in 1..n + 1 |-> Onward(s, p, f, j)]
           from == CHOOSE f : Runs(f)
<1>5. \E f : Runs(f)
  <2>1. PICK f : Total(f) /\ Solves(f, n)
    BY <1>4
  <2>2. n + 1 - n = 1
    BY <1>1
  <2>3. \A j \in 1..n + 1 : f[j] = Onward(s, p, f, j)
    BY <2>1, <2>2
  <2>4. f = [j \in 1..n + 1 |-> f[j]]
    BY <2>1
  <2>5. [j \in 1..n + 1 |-> f[j]] = [j \in 1..n + 1 |-> Onward(s, p, f, j)]
    BY <2>3
  <2> QED  BY <2>4, <2>5
<1> HIDE DEF Runs
<1>6. Runs(from)
  BY <1>5, Zenon
<1>7. Like(s, p) <=> 1 \in from[1]
  BY DEF Like, Runs, Onward, n
<1> HIDE DEF from
<1>8. \A j \in 1..n + 1 : from[j] = Onward(s, p, from, j)
  <2>1. PICK row : row = [j \in 1..n + 1 |-> Onward(s, p, from, j)]
    OBVIOUS
  <2>2. \A j \in 1..n + 1 : row[j] = Onward(s, p, from, j)
    BY <2>1
  <2>3. from = row
    BY <1>6, <2>1 DEF Runs
  <2> QED  BY <2>2, <2>3
<1> QED  BY <1>7, <1>8 DEF n

-----------------------------------------------------------------------------
(* The characters of a prefix from the i-th on are, but for their case,    *)
(* those of a string from the x-th on.                                     *)
Rest(q, s, i, x) ==
  /\ x + (Len(q) + 1 - i) <= Len(s) + 1
  /\ \A k \in i..Len(q) : Fold(s[x + k - i]) = Fold(q[k])

(* The next character, and the rest after it. *)
LEMMA RestStep ==
  ASSUME NEW q, NEW s, Len(q) \in Nat, Len(s) \in Nat, NEW i \in 1..Len(q), NEW x
  PROVE  (x \in 1..Len(s) + 1 /\ Rest(q, s, i, x))
           <=> /\ x \in 1..Len(s) /\ Fold(s[x]) = Fold(q[i])
               /\ x + 1 \in 1..Len(s) + 1 /\ Rest(q, s, i + 1, x + 1)
<1> SUFFICES ASSUME x \in Nat
             PROVE  (x \in 1..Len(s) + 1 /\ Rest(q, s, i, x))
                      <=> /\ x \in 1..Len(s) /\ Fold(s[x]) = Fold(q[i])
                          /\ x + 1 \in 1..Len(s) + 1 /\ Rest(q, s, i + 1, x + 1)
  OBVIOUS
<1> DEFINE n == Len(q)
           m == Len(s)
<1>1. n \in Nat /\ m \in Nat /\ i \in 1..n
  OBVIOUS
<1> HIDE DEF n, m
<1>2. /\ x + (n + 1 - i) <= m + 1 <=> (x + 1) + (n + 1 - (i + 1)) <= m + 1
      /\ x + (n + 1 - i) <= m + 1 => x <= m
  BY <1>1
<1>3. (\A k \in i..n : Fold(s[x + k - i]) = Fold(q[k]))
        <=> /\ Fold(s[x]) = Fold(q[i])
            /\ \A k \in i + 1..n : Fold(s[(x + 1) + k - (i + 1)]) = Fold(q[k])
  <2>1. \A k \in i..n : k = i \/ k \in i + 1..n
    BY <1>1
  <2>2. i \in i..n /\ i + 1..n \subseteq i..n /\ x + i - i = x
    BY <1>1
  <2>3. \A k \in i + 1..n : (x + 1) + k - (i + 1) = x + k - i
    BY <1>1
  <2>4. \A k \in i..n : k = i => x + k - i = x
    BY <1>1
  <2> QED  BY <2>1, <2>2, <2>3, <2>4, Zenon
<1> QED  BY <1>1, <1>2, <1>3 DEF Rest, n, m

(* query_by_prefix (store.rs) asks for the keys that begin with the prefix *)
(* but for the case of letters: the characters that LIKE treats specially  *)
(* are escaped.  The escape character itself is not, and the theorem is    *)
(* about prefixes without it.                                              *)
THEOREM PatternMeansFoldedPrefix ==
  ASSUME NEW S, NEW q \in Seq(S \ {"\\"}), NEW s \in Seq(S)
  PROVE  Like(s, Pattern(q))
           <=> Len(q) <= Len(s) /\ \A k \in 1..Len(q) : Fold(s[k]) = Fold(q[k])
<1> DEFINE n == Len(q)
           m == Len(s)
<1>1. /\ n \in Nat /\ m \in Nat
      /\ \A i \in 1..n : q[i] \in S /\ q[i] # "\\"
      /\ \A i \in 1..m : s[i] \in S
  OBVIOUS
<1>2. PICK p : p = Pattern(q)
  OBVIOUS
<1>3. Len(p) \in Nat /\ \E start \in [1..n + 1 -> Nat] : Begins(q, p, start)
  BY <1>2, PatternParts
<1>4. PICK start :
        /\ start[1] = 1 /\ start[n + 1] = Len(p) /\ p[Len(p)] = "%"
        /\ \A i \in 1..n + 1 : start[i] \in 1..Len(p)
        /\ \A i \in 1..n :
             IF q[i] \in {"%", "_"}
             THEN p[start[i]] = "\\" /\ p[start[i] + 1] = q[i] /\ start[i + 1] = start[i] + 2
             ELSE p[start[i]] = q[i] /\ start[i + 1] = start[i] + 1
  BY <1>3, Zenon DEF Begins
<1>5. PICK from : /\ Like(s, p) <=> 1 \in from[1]
                  /\ \A j \in 1..Len(p) + 1 : from[j] = Onward(s, p, from, j)
  BY <1>3, LikeRecursion
<1> DEFINE Matches(i) == \A x : x \in from[start[i]] <=> x \in 1..m + 1 /\ Rest(q, s, i, x)
           T == {d \in Nat : d <= n => Matches(n + 1 - d)}
<1> HIDE DEF n, m
<1>6. Matches(n + 1)
  <2>1. from[Len(p) + 1] = {m + 1}
    <3>1. Len(p) + 1 > Len(p) /\ Len(p) + 1 \in 1..Len(p) + 1
      BY <1>3
    <3> QED  BY <1>5, <3>1 DEF Onward, m
  <2>2. /\ start[n + 1] = Len(p) /\ p[Len(p)] = "%" /\ Len(p) \in 1..Len(p) + 1
        /\ ~ Len(p) > Len(p)
    <3>1. 1 \in 1..n + 1
      BY <1>1
    <3>2. 1 \in 1..Len(p)
      BY <1>4, <3>1, Zenon
    <3>3. Len(p) \in 1..Len(p) + 1 /\ ~ Len(p) > Len(p)
      BY <1>3, <3>2
    <3> QED  BY <1>4, <3>3, Zenon
  <2>3. from[start[n + 1]] = {i \in 1..m + 1 : \E k \in from[Len(p) + 1] : i <= k}
    BY <1>5, <2>2 DEF Onward, m
  <2>4. from[start[n + 1]] = 1..m + 1
    BY <1>1, <2>1, <2>3
  <2>5. \A x \in 1..m + 1 : Rest(q, s, n + 1, x)
    BY <1>1 DEF Rest, n, m
  <2> QED  BY <2>4, <2>5
<1>7. ASSUME NEW i \in 1..n, Matches(i + 1) PROVE Matches(i)
  <2> DEFINE j == start[i]
  <2>1. i + 1 \in 1..n + 1 /\ i \in 1..n + 1
    BY <1>1
  <2>2. /\ j \in 1..Len(p) /\ start[i + 1] \in 1..Len(p)
        /\ IF q[i] \in {"%", "_"}
           THEN p[j] = "\\" /\ p[j + 1] = q[i] /\ start[i + 1] = j + 2
           ELSE p[j] = q[i] /\ start[i + 1] = j + 1
    BY <1>4, <2>1
  <2> HIDE DEF j, Matches
  <2>3. from[j] = {x \in 1..m : Fold(s[x]) = Fold(q[i]) /\ x + 1 \in from[start[i + 1]]}
    <3>1. j \in 1..Len(p) + 1 /\ ~ j > Len(p) /\ q[i] # "\\"
      <4>1. \A k \in 1..Len(p) : k \in 1..Len(p) + 1 /\ ~ k > Len(p)
        BY <1>3
      <4> QED  BY <1>1, <2>2, <4>1, Zenon
    <3>2. CASE q[i] \in {"%", "_"}
      <4>1. p[j] = "\\" /\ p[j + 1] = q[i] /\ start[i + 1] = j + 2
        BY <2>2, <3>2
      <4>2. j < Len(p)
        <5>1. \A k, l \in 1..Len(p) : l = k + 2 => k < Len(p)
          BY <1>3
        <5> QED  BY <2>2, <4>1, <5>1, Zenon
      <4>3. Onward(s, p, from, j)
              = {x \in 1..m : j < Len(p) /\ Fold(s[x]) = Fold(p[j + 1]) /\ x + 1 \in from[j + 2]}
        BY <3>1, <4>1 DEF Onward, m
      <4> QED  BY <1>5, <3>1, <4>1, <4>2, <4>3
    <3>3. CASE q[i] \notin {"%", "_"}
      <4>1. p[j] = q[i] /\ start[i + 1] = j + 1
        BY <2>2, <3>3
      <4>2. Onward(s, p, from, j)
              = {x \in 1..m : Fold(s[x]) = Fold(p[j]) /\ x + 1 \in from[j + 1]}
        BY <3>1, <3>3, <4>1 DEF Onward, m
      <4> QED  BY <1>5, <3>1, <4>1, <4>2
    <3> QED  BY <3>2, <3>3
  <2>4. ASSUME NEW x
        PROVE  x \in from[j] <=> x \in 1..m + 1 /\ Rest(q, s, i, x)
    <3>1. x \in from[j]
            <=> x \in 1..m /\ Fold(s[x]) = Fold(q[i]) /\ x + 1 \in from[start[i + 1]]
      BY <2>3
    <3>2. x + 1 \in from[start[i + 1]] <=> x + 1 \in 1..m + 1 /\ Rest(q, s, i + 1, x + 1)
      BY <1>7 DEF Matches
    <3>3. (x \in 1..m + 1 /\ Rest(q, s, i, x))
            <=> /\ x \in 1..m /\ Fold(s[x]) = Fold(q[i])
                /\ x + 1 \in 1..m + 1 /\ Rest(q, s, i + 1, x + 1)
      BY <1>1, RestStep DEF n, m
    <3> QED  BY <3>1, <3>2, <3>3
  <2> QED  BY <2>4 DEF Matches, j
<1>8. Matches(1)
  <2> HIDE DEF Matches
  <2>1. 0 \in T
    BY <1>1, <1>6
  <2>2. ASSUME NEW d \in Nat, d \in T PROVE d + 1 \in T
    <3> SUFFICES ASSUME d + 1 <= n PROVE Matches(n + 1 - (d + 1))
      OBVIOUS
    <3>1. n - d \in 1..n /\ n + 1 - (d + 1) = n - d /\ (n - d) + 1 = n + 1 - d
      BY <1>1
    <3>2. Matches(n + 1 - d)
      BY <1>1, <2>2
    <3> QED  BY <1>7, <3>1, <3>2
  <2> HIDE DEF T
  <2>3. n \in T
    BY <1>1, <2>1, <2>2, SetInduction
  <2>4. n + 1 - n = 1
    BY <1>1
  <2> QED  BY <1>1, <2>3, <2>4 DEF T
<1>9. Like(s, p) <=> Rest(q, s, 1, 1)
  <2>1. start[1] = 1 /\ 1 \in 1..m + 1
    <3>1. 1 \in 1..m + 1
      BY <1>1
    <3> QED  BY <1>4, <3>1, Zenon
  <2> QED  BY <1>5, <1>8, <2>1
<1>10. Rest(q, s, 1, 1) <=> n <= m /\ \A k \in 1..n : Fold(s[k]) = Fold(q[k])
  <2>1. 1 + (n + 1 - 1) <= m + 1 <=> n <= m
    BY <1>1
  <2>2. \A k \in 1..n : 1 + k - 1 = k
    BY <1>1
  <2> QED  BY <2>1, <2>2 DEF Rest, n, m
<1> QED  BY <1>2, <1>9, <1>10 DEF n, m

(* A text ends at its first NUL, if it has one. *)
LEMMA TextParts ==
  ASSUME NEW S, NEW s \in Seq(S)
  PROVE  \E t \in 0..Len(s) :
           /\ Text(s) \in Seq(S) /\ Len(Text(s)) = t
           /\ \A i \in 1..t : Text(s)[i] = s[i]
           /\ t = Len(s) \/ s[t + 1] = Nul
<1> DEFINE ends == {i \in DOMAIN s : s[i] = Nul}
<1>1. Len(s) \in Nat /\ DOMAIN s = 1..Len(s)
  OBVIOUS
<1>2. CASE ends = {}
  <2>1. Text(s) = s
    BY <1>2 DEF Text
  <2>2. Len(s) \in 0..Len(s)
    BY <1>1
  <2> QED  BY <2>1, <2>2
<1>3. CASE ends # {}
  <2>1. \E k \in ends : \A j \in ends : k =< j
    <3>1. PICK k \in ends : \A j \in ends : <<j, k>> \notin OpToRel(<, Nat)
      <4>1. ends \subseteq Nat
        BY <1>1
      <4> HIDE DEF ends
      <4> QED  BY <1>3, <4>1, WFMin, NatLessThanWellFounded, Zenon
    <3>2. \A j \in ends : ~ (j < k)
      <4>1. \A j \in ends : j \in Nat
        BY <1>1
      <4> HIDE DEF ends
      <4> QED  BY <3>1, <4>1 DEF OpToRel
    <3>3. \A j \in ends : k =< j
      <4>1. k \in Nat /\ \A j \in ends : j \in Nat
        BY <1>1
      <4> HIDE DEF ends
      <4> QED  BY <3>2, <4>1
    <3> QED  BY <3>3
  <2>2. PICK k : k = Min(ends)
    OBVIOUS
  <2>3. k \in ends
    <3> HIDE DEF ends
    <3> QED  BY <2>1, <2>2 DEF Min
  <2>4. k \in 1..Len(s) /\ s[k] = Nul
    BY <1>1, <2>3
  <2>5. Text(s) = SubSeq(s, 1, k - 1)
    BY <1>3, <2>2 DEF Text
  <2>6. k - 1 \in 0..Len(s) /\ k - 1 + 1 = k /\ \A i \in 1..k - 1 : i \in 1..Len(s)
    BY <1>1, <2>4
  <2>7. /\ SubSeq(s, 1, k - 1) \in Seq(S) /\ Len(SubSeq(s, 1, k - 1)) = k - 1
        /\ \A i \in 1..k - 1 : SubSeq(s, 1, k - 1)[i] = s[i]
    BY <1>1, <2>6
  <2> QED  BY <2>4, <2>5, <2>6, <2>7
<1> QED  BY <1>2, <1>3

(* query_by_prefix (store.rs) asks for the keys that begin with the prefix *)
(* but for the case of letters, whatever characters the keys have; of a    *)
(* prefix that has the escape character or NUL the theorem says nothing.   *)
THEOREM QueryMeansPrefix ==
  ASSUME NEW q \in Seq(Chars), \A k \in DOMAIN q : q[k] \notin {"\\", Nul},
         NEW s \in Seq(Chars)
  PROVE  Like(Text(s), Text(Pattern(q))) <=> BeginsWith(s, q)
<1> DEFINE S == Chars \ {"\\", Nul}
<1>1. q \in Seq(S) /\ q \in Seq(Chars \ {"\\"}) /\ Len(q) \in Nat /\ DOMAIN q = 1..Len(q)
  OBVIOUS
<1>2. Text(Pattern(q)) = Pattern(q)
  <2>1. Pattern(q) \in Seq(S \cup {"%", "\\"})
    BY <1>1, PatternParts
  <2>2. Nul \notin S \cup {"%", "\\"}
    BY CharsAssumption
  <2>3. \A i \in DOMAIN Pattern(q) : Pattern(q)[i] # Nul
    <3> HIDE DEF S
    <3> QED  BY <2>1, <2>2
  <2>4. {i \in DOMAIN Pattern(q) : Pattern(q)[i] = Nul} = {}
    BY <2>3
  <2> QED  BY <2>4 DEF Text
<1>3. PICK t \in 0..Len(s) :
        /\ Text(s) \in Seq(Chars) /\ Len(Text(s)) = t
        /\ \A i \in 1..t : Text(s)[i] = s[i]
        /\ t = Len(s) \/ s[t + 1] = Nul
  BY TextParts
<1>4. Like(Text(s), Pattern(q))
        <=> Len(q) <= t /\ \A k \in 1..Len(q) : Fold(Text(s)[k]) = Fold(q[k])
  BY <1>1, <1>3, PatternMeansFoldedPrefix
<1>5. PICK n, m : n = Len(q) /\ m = Len(s) /\ n \in Nat /\ m \in Nat /\ t \in Nat /\ t <= m
  BY <1>1, <1>3
<1>6. ASSUME n <= t
      PROVE  (\A k \in 1..n : Fold(Text(s)[k]) = Fold(q[k])) <=> \A k \in 1..n : Fold(s[k]) = Fold(q[k])
  <2>1. \A k \in 1..n : k \in 1..t
    BY <1>5, <1>6
  <2> QED  BY <1>3, <2>1
<1>7. ASSUME n <= m, \A k \in 1..n : Fold(s[k]) = Fold(q[k]) PROVE n <= t
  <2> SUFFICES ASSUME t < n PROVE FALSE
    BY <1>5
  <2>1. t + 1 \in 1..n /\ t # m
    BY <1>5, <1>7
  <2>2. s[t + 1] = Nul
    BY <1>3, <1>5, <2>1
  <2>3. q[t + 1] \in Chars /\ q[t + 1] # Nul
    BY <1>1, <1>5, <2>1
  <2>4. Fold(q[t + 1]) = Fold(Nul)
    BY <1>7, <2>1, <2>2
  <2> QED  BY <2>3, <2>4, CharsAssumption
<1>8. n <= t => n <= m
  BY <1>5
<1> QED  BY <1>2, <1>4, <1>5, <1>6, <1>7, <1>8 DEF BeginsWith

-----------------------------------------------------------------------------
(* A connection has an answer only between the handler and its delivery,   *)
(* and a request from when it is sent to then.                             *)
Waiting ==
  \A c \in Clients : /\ stage[c] # "done" => answer[c] = NoRequest
                     /\ stage[c] # "idle" => request[c] \in Requests

(* Every operation of the daemon and of its clients keeps that. *)
LEMMA WaitingStep == TypeOK /\ Waiting /\ [Next]_vars => Waiting'
<1> SUFFICES ASSUME TypeOK, Waiting, [Next]_vars PROVE Waiting'
  OBVIOUS
<1>1. DOMAIN stage = Clients /\ DOMAIN request = Clients /\ DOMAIN answer = Clients
  BY DEF TypeOK
<1> USE DEF Waiting
<1>2. ASSUME NEW c \in Clients, NEW a, Answer(c, a), stage[c] # "idle" PROVE Waiting'
  BY <1>1, <1>2 DEF Answer
<1>3. ASSUME NEW c \in Clients, Send(c) PROVE Waiting'
  BY <1>1, <1>3 DEF Send
<1>4. ASSUME NEW c \in Clients,
             HandleInvalid(c) \/ Insert(c) \/ Read(c) \/ Query(c) \/ History(c) \/ Fails(c)
      PROVE  Waiting'
  BY <1>2, <1>4 DEF HandleInvalid, Insert, Read, Query, History, Fails, Return
<1>5. ASSUME NEW c \in Clients, Lock(c) \/ Stamp(c) PROVE Waiting'
  BY <1>1, <1>5 DEF Lock, Stamp
<1>6. ASSUME NEW c \in Clients, Hangup(c) \/ Deliver(c) PROVE Waiting'
  BY <1>1, <1>6 DEF Hangup, Deliver
<1>7. CASE Crash \/ Reboot
  BY <1>7 DEF Crash, Reboot, Idle
<1>8. CASE Start \/ Tick \/ UNCHANGED vars
  BY <1>8 DEF Start, Tick, vars, threads
<1> QED  BY <1>3, <1>4, <1>5, <1>6, <1>7, <1>8 DEF Next, Serve

(* What the refinement rests on. *)
Memorable == TypeOK /\ Stamped /\ Ordered /\ Addressed /\ Waiting

(* It holds in every state. *)
LEMMA MemorableInvariant == Spec => []Memorable
<1>1. Init => Memorable
  BY TypeInit, OrderInit, AddressedInit DEF Memorable, Init, Waiting
<1>2. Memorable /\ [Next]_vars => Memorable'
  BY TypeStep, OrderStep, AddressedStep, WaitingStep DEF Memorable
<1> QED  BY <1>1, <1>2, PTL DEF Spec

-----------------------------------------------------------------------------
(* The table, as the abstract memory has it. *)
Entries == {EntryOf(table[i]) : i \in DOMAIN table}

(* The rows are of contents, each once and under its own hash. *)
LEMMA Contented ==
  ASSUME Memorable
  PROVE  /\ Len(table) \in Nat /\ DOMAIN table = 1..Len(table)
         /\ \A i \in DOMAIN table :
              /\ table[i].content \in Contents /\ table[i].time \in Nat
              /\ table[i].hash = compute_hash(table[i].content)
         /\ \A i, j \in DOMAIN table : table[i].content = table[j].content => i = j
<1>1. table \in Seq(Rows)
  BY DEF Memorable, TypeOK
<1>2. \A i \in DOMAIN table : table[i] \in Rows
  BY <1>1
<1>3. \A r \in Rows : r.content \in Contents /\ r.time \in Nat
  BY BoundsAssumption DEF Rows
<1>4. /\ \A i \in DOMAIN table : table[i].hash = compute_hash(table[i].content)
      /\ \A i, j \in DOMAIN table : table[i].hash = table[j].hash => i = j
  BY DEF Memorable, Addressed
<1> QED  BY <1>1, <1>2, <1>3, <1>4

(* The reply to an answer. *)
LEMMA Replies ==
  /\ ReplyOf(NoRequest) = NoRequest
  /\ ReplyOf(Error) = [error |-> TRUE]
  /\ \A h \in Hashes : ReplyOf([ok |-> h]) = [ok |-> h]
  /\ \A s \in Seq(Rows) :
       ReplyOf([entries |-> s]) = [entries |-> [i \in DOMAIN s |-> EntryOf(s[i])]]
<1>1. ReplyOf(NoRequest) = NoRequest /\ ReplyOf(Error) = [error |-> TRUE]
  BY DEF ReplyOf, Error
<1>2. ASSUME NEW h \in Hashes PROVE ReplyOf([ok |-> h]) = [ok |-> h]
  <2> DEFINE a == [ok |-> h]
  <2>1. a # NoRequest
    BY MarkerAssumption DEF Answers
  <2>2. DOMAIN a = {"ok"} /\ DOMAIN Error = {"error"} /\ a.ok = h
    BY DEF Error
  <2>3. a # Error
    BY <2>2
  <2> HIDE DEF a
  <2>4. ReplyOf(a) = [ok |-> a.ok]
    BY <2>1, <2>2, <2>3 DEF ReplyOf
  <2> QED  BY <2>2, <2>4 DEF a
<1>3. ASSUME NEW s \in Seq(Rows)
      PROVE  ReplyOf([entries |-> s]) = [entries |-> [i \in DOMAIN s |-> EntryOf(s[i])]]
  <2> DEFINE a == [entries |-> s]
  <2>1. a # NoRequest
    BY MarkerAssumption DEF Answers
  <2>2. DOMAIN a = {"entries"} /\ DOMAIN Error = {"error"} /\ a.entries = s
    BY DEF Error
  <2>3. a # Error
    BY <2>2
  <2> HIDE DEF a
  <2>4. ReplyOf(a) = [entries |-> [i \in DOMAIN a.entries |-> EntryOf(a.entries[i])]]
    BY <2>1, <2>2, <2>3 DEF ReplyOf
  <2> QED  BY <2>2, <2>4 DEF a
<1> QED  BY <1>1, <1>2, <1>3

(* The abstract memory counts as the daemon does. *)
LEMMA MemoryCardinality == \A S : Memory!Cardinality(S) = Cardinality(S)
BY DEF Memory!Cardinality, Cardinality

(* The rows that a statement chooses, in one of the orders it allows, are  *)
(* the entries asked for in such an order.                                 *)
LEMMA Listing ==
  ASSUME Memorable, NEW W, NEW chosen,
         chosen = {i \in DOMAIN table : table[i].content \in W},
         NEW s \in NewestFirst(chosen)
  PROVE  [i \in DOMAIN s |-> EntryOf(s[i])]
           \in Memory!NewestFirst({m \in Entries : m.content \in W})
<1> DEFINE asked == {m \in Entries : m.content \in W}
           entry == [i \in chosen |-> EntryOf(table[i])]
<1>1. PICK o \in [1..Cardinality(chosen) -> chosen] :
        /\ \A i, j \in DOMAIN o :
             i < j => o[i] # o[j] /\ table[o[i]].time >= table[o[j]].time
        /\ s = [i \in DOMAIN o |-> table[o[i]]]
  BY DEF NewestFirst
<1>2. IsFiniteSet(chosen) /\ Cardinality(chosen) \in Nat
  <2>1. IsFiniteSet(DOMAIN table)
    BY Contented, FS_Interval
  <2>2. IsFiniteSet(chosen)
    BY <2>1, FS_Subset
  <2> QED  BY <2>2, FS_CardinalityType
<1>3. \A i : EntryOf(table[i]).content = table[i].content /\ EntryOf(table[i]).time = table[i].time
  BY DEF EntryOf
<1>4. entry \in Bijection(chosen, asked)
  <2>1. ASSUME NEW i \in chosen PROVE entry[i] \in asked
    BY <1>3 DEF Entries
  <2>2. ASSUME NEW i \in chosen, NEW j \in chosen, entry[i] = entry[j] PROVE i = j
    <3>1. table[i].content = table[j].content
      BY <1>3, <2>2
    <3> QED  BY <3>1, Contented
  <2>3. ASSUME NEW m \in asked PROVE \E i \in chosen : entry[i] = m
    BY <1>3 DEF Entries
  <2> HIDE DEF asked
  <2>4. entry \in [chosen -> asked]
    BY <2>1
  <2> HIDE DEF entry
  <2> QED  BY <2>2, <2>3, <2>4 DEF Bijection, Injection, Surjection, IsInjective
<1>5. Cardinality(asked) = Cardinality(chosen)
  BY <1>2, <1>4, FS_Bijection DEF ExistsBijection
<1> DEFINE r == [i \in DOMAIN s |-> EntryOf(s[i])]
<1>6. DOMAIN o = 1..Cardinality(chosen) /\ DOMAIN s = DOMAIN o
  BY <1>1
<1>7. \A i \in DOMAIN o : o[i] \in chosen /\ r[i] = entry[o[i]]
  BY <1>1, <1>6
<1> HIDE DEF r
<1>8. r \in [1..Cardinality(asked) -> asked]
  <2>1. \A i \in DOMAIN o : r[i] \in asked
    BY <1>4, <1>7 DEF Bijection, Injection
  <2>2. r = [i \in 1..Cardinality(asked) |-> r[i]]
    BY <1>5, <1>6 DEF r
  <2> HIDE DEF asked
  <2> QED  BY <1>5, <1>6, <2>1, <2>2
<1>9. ASSUME NEW i \in DOMAIN r, NEW j \in DOMAIN r, i < j
      PROVE  r[i] # r[j] /\ r[i].time >= r[j].time
  <2>1. i \in DOMAIN o /\ j \in DOMAIN o
    BY <1>6 DEF r
  <2>2. o[i] # o[j] /\ table[o[i]].time >= table[o[j]].time
    BY <1>1, <1>9, <2>1
  <2>3. r[i] # r[j]
    <3>1. \A k, l \in chosen : k # l => entry[k] # entry[l]
      BY <1>4 DEF Bijection, Injection, IsInjective
    <3> HIDE DEF entry
    <3> QED  BY <1>7, <2>1, <2>2, <3>1
  <2>4. r[i].time = table[o[i]].time /\ r[j].time = table[o[j]].time
    BY <1>3, <1>7, <2>1
  <2> QED  BY <2>2, <2>3, <2>4
<1> HIDE DEF asked
<1>10. r \in Memory!NewestFirst(asked)
  <2>1. \A i, j \in DOMAIN r : i < j => r[i] # r[j] /\ r[i].time >= r[j].time
    BY <1>9
  <2> QED  BY <1>8, <2>1, MemoryCardinality, Zenon DEF Memory!NewestFirst
<1> QED  BY <1>10 DEF r, asked

-----------------------------------------------------------------------------
(* An answer is given: the call it is for is finished. *)
LEMMA Finishes ==
  ASSUME TypeOK, NEW c \in Clients, stage[c] \in {"sent", "locked", "stamped"},
         NEW a, Answer(c, a), NEW b, b = ReplyOf(a)
  PROVE  Memory!Finish(c, b)
<1>1. stage \in [Clients -> {"idle", "sent", "locked", "stamped", "done"}] /\ DOMAIN answer = Clients
  BY DEF TypeOK
<1>2. UNCHANGED <<clock, request>>
  BY DEF Answer
<1>3. [d \in Clients |-> StatusOf(stage[d])][c] = "pending"
  BY DEF StatusOf
<1>4. [d \in Clients |-> StatusOf(stage'[d])]
        = [[d \in Clients |-> StatusOf(stage[d])] EXCEPT ![c] = "done"]
  BY <1>1 DEF Answer, StatusOf
<1>5. [d \in Clients |-> ReplyOf(answer'[d])]
        = [[d \in Clients |-> ReplyOf(answer[d])] EXCEPT ![c] = b]
  BY <1>1 DEF Answer
<1> QED  BY <1>2, <1>3, <1>4, <1>5 DEF Memory!Finish

(* A thread ends, or its answer is delivered: the call is over. *)
LEMMA Returns ==
  ASSUME TypeOK, Waiting, NEW c \in Clients, Hangup(c) \/ Deliver(c)
  PROVE  Memory!Return(c)
<1>1. /\ stage \in [Clients -> {"idle", "sent", "locked", "stamped", "done"}]
      /\ DOMAIN answer = Clients /\ DOMAIN request = Clients
  BY DEF TypeOK
<1>2. /\ stage[c] # "idle" /\ stage' = [stage EXCEPT ![c] = "idle"]
      /\ request' = [request EXCEPT ![c] = NoRequest]
      /\ UNCHANGED <<table, clock>>
  BY DEF Hangup, Deliver
<1>3. answer' = [answer EXCEPT ![c] = NoRequest]
  <2>1. CASE Deliver(c)
    BY <2>1 DEF Deliver
  <2>2. CASE Hangup(c)
    <3>1. answer' = answer /\ answer[c] = NoRequest
      BY <2>2 DEF Hangup, Waiting
    <3>2. answer = [d \in Clients |-> answer[d]]
      BY DEF TypeOK
    <3> QED  BY <3>1, <3>2
  <2> QED  BY <2>1, <2>2
<1>4. [d \in Clients |-> StatusOf(stage[d])][c] # "idle"
  BY <1>2 DEF StatusOf
<1>5. [d \in Clients |-> StatusOf(stage'[d])]
        = [[d \in Clients |-> StatusOf(stage[d])] EXCEPT ![c] = "idle"]
  BY <1>1, <1>2 DEF StatusOf
<1>6. [d \in Clients |-> ReplyOf(answer'[d])]
        = [[d \in Clients |-> ReplyOf(answer[d])] EXCEPT ![c] = NoRequest]
  BY <1>1, <1>3, Replies
<1> QED  BY <1>2, <1>4, <1>5, <1>6 DEF Memory!Return

(* A request is sent. *)
LEMMA Calls == ASSUME TypeOK, NEW c \in Clients, Send(c) PROVE Memory!Call(c)
<1>1. DOMAIN stage = Clients
  BY DEF TypeOK
<1>2. [d \in Clients |-> StatusOf(stage[d])][c] = "idle"
  BY DEF Send, StatusOf
<1>3. [d \in Clients |-> StatusOf(stage'[d])]
        = [[d \in Clients |-> StatusOf(stage[d])] EXCEPT ![c] = "pending"]
  BY <1>1 DEF Send, StatusOf
<1> QED  BY <1>2, <1>3 DEF Send, Requests, Memory!Call

(* What the client cannot see: the start of the daemon, the mutex and the  *)
(* reading of the clock.                                                   *)
LEMMA Unseen ==
  ASSUME TypeOK, Start \/ (\E c \in Clients : Lock(c) \/ Stamp(c)) \/ UNCHANGED vars
  PROVE  UNCHANGED Memory!vars
<1>1. UNCHANGED <<table, clock, request, answer>>
  BY DEF Start, Lock, Stamp, vars, threads
<1>2. [d \in Clients |-> StatusOf(stage'[d])] = [d \in Clients |-> StatusOf(stage[d])]
  <2>1. stage \in [Clients -> {"idle", "sent", "locked", "stamped", "done"}]
    BY DEF TypeOK
  <2> QED  BY <2>1 DEF Start, Lock, Stamp, vars, threads, StatusOf
<1> QED  BY <1>1, <1>2 DEF Memory!vars, Memory!calls

(* The daemon or the machine ends. *)
LEMMA Ends ==
  ASSUME Crash \/ Reboot PROVE Memory!Crash \/ Memory!Reboot
<1>1. UNCHANGED clock /\ Idle
  BY DEF Crash, Reboot
<1>2. Memory!Hangup
  BY <1>1, Replies DEF Idle, StatusOf, Memory!Hangup
<1>3. CASE Crash
  BY <1>2, <1>3 DEF Crash, Memory!Crash
<1>4. CASE Reboot
  <2>1. {EntryOf(table'[i]) : i \in DOMAIN table'} = {}
    BY <1>4 DEF Reboot
  <2> QED  BY <1>2, <2>1 DEF Memory!Reboot
<1> QED  BY <1>3, <1>4

(* INSERT OR IGNORE enters a content once, with a time that is not before  *)
(* that of any other.                                                      *)
LEMMA Writing ==
  ASSUME Memorable, NEW c \in Clients, Insert(c)
  PROVE  Memory!Write(c)
<1> DEFINE x == request[c].content
<1>1. /\ stage[c] = "stamped" /\ request[c] \in Writes /\ x \in Contents
      /\ RowOf(c).hash = compute_hash(x) /\ RowOf(c).content = x /\ RowOf(c).time = stamp[c]
  BY DEF Insert, Memorable, Stamped, Writes, RowOf
<1>2. /\ stamp[c] \in Nat /\ clock \in Nat /\ stamp[c] <= clock
      /\ \A i \in DOMAIN table : table[i].time <= stamp[c]
  BY <1>1, BoundsAssumption DEF Memorable, Ordered, TypeOK
<1>3. Memory!Finish(c, [ok |-> compute_hash(x)])
  <2>1. [ok |-> compute_hash(x)] = ReplyOf([ok |-> RowOf(c).hash])
    BY <1>1, Replies DEF Hashes
  <2> QED  BY <1>1, <2>1, Finishes DEF Insert, Return, Memorable
<1>4. \A i : EntryOf(table[i]).content = table[i].content /\ EntryOf(table[i]).time = table[i].time
  BY DEF EntryOf
<1>5. RowOf(c).hash \in Stored <=> compute_hash(x) \in {compute_hash(m.content) : m \in Entries}
  <2>1. RowOf(c).hash \in Stored <=> \E i \in DOMAIN table : compute_hash(table[i].content) = compute_hash(x)
    BY <1>1, Contented DEF Stored
  <2>2. compute_hash(x) \in {compute_hash(m.content) : m \in Entries}
          <=> \E i \in DOMAIN table : compute_hash(table[i].content) = compute_hash(x)
    BY <1>4 DEF Entries
  <2> QED  BY <2>1, <2>2
<1>6. CASE RowOf(c).hash \in Stored
  <2>1. UNCHANGED table
    BY <1>6 DEF Insert
  <2> QED  BY <1>1, <1>3, <1>5, <1>6, <2>1 DEF Memory!Write, Memory!Known, Entries
<1>7. CASE RowOf(c).hash \notin Stored
  <2>1. table' = Append(table, RowOf(c)) /\ table \in Seq(Rows)
    BY <1>7 DEF Insert, Memorable, TypeOK
  <2>2. /\ DOMAIN table' = DOMAIN table \cup {Len(table) + 1}
        /\ \A i \in DOMAIN table : table'[i] = table[i]
        /\ table'[Len(table) + 1] = RowOf(c)
    BY <2>1
  <2>3. {EntryOf(table'[i]) : i \in DOMAIN table'} = Entries \cup {[content |-> x, time |-> stamp[c]]}
    BY <1>1, <2>2 DEF Entries, EntryOf
  <2>4. \A m \in Entries : m.time <= stamp[c]
    BY <1>2, <1>4 DEF Entries
  <2>5. stamp[c] \in 0..clock
    BY <1>2
  <2> QED  BY <1>1, <1>3, <1>5, <1>7, <2>3, <2>4, <2>5 DEF Memory!Write, Memory!Known, Entries
<1> QED  BY <1>6, <1>7

(* A statement that chooses the rows with the contents asked for. *)
LEMMA LookingUp ==
  ASSUME Memorable, NEW c \in Clients, stage[c] = "locked", request[c] \in Lookups,
         NEW W \in Meanings(request[c]),
         NEW chosen, chosen = {i \in DOMAIN table : table[i].content \in W},
         NEW s \in NewestFirst(chosen), Return(c, [entries |-> s]), UNCHANGED table
  PROVE  Memory!Lookup(c)
<1>1. s \in Seq(Rows)
  BY RowLists DEF Memorable, TypeOK
<1> DEFINE r == [i \in DOMAIN s |-> EntryOf(s[i])]
<1>2. r \in Memory!NewestFirst({m \in Entries : m.content \in W})
  BY Listing
<1>3. Memory!Finish(c, [entries |-> r])
  <2>1. [entries |-> r] = ReplyOf([entries |-> s])
    BY <1>1, Replies
  <2> HIDE DEF r
  <2> QED  BY <2>1, Finishes DEF Return, Memorable
<1> HIDE DEF r
<1> QED  BY <1>2, <1>3 DEF Memory!Lookup, Entries

(* The three statements of store.rs choose the rows that may be meant:     *)
(* LIKE the ones with the prefix, by QueryMeansPrefix.                     *)
LEMMA LooksUp ==
  ASSUME Memorable, NEW c \in Clients, Read(c) \/ Query(c) \/ History(c)
  PROVE  Memory!Lookup(c)
<1>1. stage[c] = "locked" /\ request[c] \in Requests /\ UNCHANGED table
  BY DEF Read, Query, History, Memorable, Waiting
<1>2. request[c].op \in {"read", "query", "history"}
  BY DEF Read, Query, History
<1>3. request[c] \in Lookups
  BY <1>1, <1>2 DEF Requests, Writes, Invalid
<1>4. CASE Read(c)
  <2>1. PICK W : W = {x \in Contents : compute_hash(x) = request[c].hash}
    OBVIOUS
  <2>2. W \in Meanings(request[c])
    BY <1>4, <2>1 DEF Read, Meanings
  <2>3. {i \in DOMAIN table : table[i].hash = request[c].hash}
          = {i \in DOMAIN table : table[i].content \in W}
    BY <2>1, Contented
  <2> QED  BY <1>1, <1>3, <1>4, <2>2, <2>3, LookingUp DEF Read
<1>5. CASE Query(c)
  <2>1. PICK q : q = request[c].prefix /\ q \in Seq(Chars)
    BY <1>3, <1>5, NamesAssumption DEF Query, Lookups
  <2>2. PICK W : W = {x \in Contents : Like(Text(x.key), Text(Pattern(q)))}
    OBVIOUS
  <2>3. W \in Meanings(request[c])
    <3>1. request[c].op = "query" /\ W \in SUBSET Contents
      BY <1>5, <2>2 DEF Query
    <3>2. CASE \E k \in DOMAIN q : q[k] \in {"\\", Nul}
      BY <2>1, <3>1, <3>2 DEF Meanings
    <3>3. CASE \A k \in DOMAIN q : q[k] \notin {"\\", Nul}
      <4>1. \A x \in Contents : x.key \in Seq(Chars)
        BY NamesAssumption
      <4>2. \A x \in Contents : Like(Text(x.key), Text(Pattern(q))) <=> BeginsWith(x.key, q)
        BY <2>1, <3>3, <4>1, QueryMeansPrefix
      <4>3. W = {x \in Contents : BeginsWith(x.key, q)}
        BY <2>2, <4>2
      <4> QED  BY <2>1, <3>1, <4>3 DEF Meanings
    <3> QED  BY <3>2, <3>3
  <2>4. {i \in DOMAIN table : Like(Text(table[i].content.key), Text(Pattern(request[c].prefix)))}
          = {i \in DOMAIN table : table[i].content \in W}
    BY <2>1, <2>2, Contented
  <2> QED  BY <1>1, <1>3, <1>5, <2>3, <2>4, LookingUp DEF Query
<1>6. CASE History(c)
  <2>1. PICK W : W = {x \in Contents : x.key = request[c].key}
    OBVIOUS
  <2>2. W \in Meanings(request[c])
    BY <1>6, <2>1 DEF History, Meanings
  <2>3. {i \in DOMAIN table : table[i].content.key = request[c].key}
          = {i \in DOMAIN table : table[i].content \in W}
    BY <2>1, Contented
  <2> QED  BY <1>1, <1>3, <1>6, <2>2, <2>3, LookingUp DEF History
<1> QED  BY <1>4, <1>5, <1>6

(* A line that is no request, or a statement that fails.                   *)
LEMMA Refuses ==
  ASSUME Memorable, NEW c \in Clients, HandleInvalid(c) \/ Fails(c)
  PROVE  Memory!Refuse(c)
<1>1. Answer(c, Error) /\ UNCHANGED table /\ stage[c] \in {"sent", "locked", "stamped"}
  BY DEF HandleInvalid, Fails, Return
<1>2. Memory!Finish(c, [error |-> TRUE])
  BY <1>1, Replies, Finishes DEF Memorable
<1> QED  BY <1>1, <1>2 DEF Memory!Refuse

(* The daemon with its threads, its mutex, its table and its statements    *)
(* implements a memory that answers one request at a time (store.rs,       *)
(* main.rs): every step is a step of that memory or invisible.             *)
THEOREM MemoryImplemented == Spec => ImplementsMemory
<1>1. Init => Memory!Init
  BY Replies DEF Init, Memory!Init, StatusOf
<1>2. ASSUME Memorable, [Next]_vars PROVE [Memory!Next]_(Memory!vars)
  <2>1. ASSUME NEW c \in Clients, Send(c) PROVE Memory!Next
    BY <1>2, <2>1, Calls DEF Memory!Next, Memorable
  <2>2. ASSUME NEW c \in Clients, HandleInvalid(c) \/ Fails(c) PROVE Memory!Next
    BY <1>2, <2>2, Refuses DEF Memory!Next
  <2>3. ASSUME NEW c \in Clients, Hangup(c) \/ Deliver(c) PROVE Memory!Next
    BY <1>2, <2>3, Returns DEF Memory!Next, Memorable
  <2>4. ASSUME NEW c \in Clients, Insert(c) PROVE Memory!Next
    BY <1>2, <2>4, Writing DEF Memory!Next
  <2>5. ASSUME NEW c \in Clients, Read(c) \/ Query(c) \/ History(c) PROVE Memory!Next
    BY <1>2, <2>5, LooksUp DEF Memory!Next
  <2>6. ASSUME Start \/ (\E c \in Clients : Lock(c) \/ Stamp(c)) \/ UNCHANGED vars
        PROVE  UNCHANGED Memory!vars
    BY <1>2, <2>6, Unseen DEF Memorable
  <2>7. CASE Crash \/ Reboot
    BY <2>7, Ends DEF Memory!Next
  <2>8. CASE Tick
    BY <2>8 DEF Tick, threads, Memory!Tick, Memory!calls, Memory!Next
  <2> QED
    BY <1>2, <2>1, <2>2, <2>3, <2>4, <2>5, <2>6, <2>7, <2>8 DEF Next, Serve
<1>3. Memorable /\ [Next]_vars => [Memory!Next]_(Memory!vars)
  BY <1>2
<1> QED  BY <1>1, <1>3, MemorableInvariant, PTL DEF Spec, ImplementsMemory, Memory!Spec
=============================================================================
