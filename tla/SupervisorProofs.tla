-------------------------- MODULE SupervisorProofs --------------------------
(***************************************************************************)
(* Proofs about nulld for every set of services, every accepted dependency *)
(* graph, every restart policy and every set of pids.                      *)
(***************************************************************************)
EXTENDS Supervisor, FiniteSetTheorems, SequenceTheorems, TLAPS

N == Cardinality(Services)

(* A start order lists every service at exactly one position. *)
LEMMA OrderFacts ==
  ASSUME NEW o \in StartOrders
  PROVE  /\ N \in Nat
         /\ o \in Seq(Services)
         /\ Len(o) = N
         /\ DOMAIN o = 1 .. N
         /\ \A i \in 1 .. N : o[i] \in Services
         /\ \A i, j \in 1 .. N : o[i] = o[j] => i = j
         /\ \A s \in Services : \E i \in 1 .. N : o[i] = s
         /\ \A i \in 1 .. N : \A d \in Needs[o[i]] :
              \E j \in 1 .. N : j < i /\ o[j] = d
<1>1. N \in Nat
  BY GraphAccepted, FS_CardinalityType DEF N
<1>2. o \in [1 .. N -> Services] /\ IsInjective(o) /\ RespectsNeeds(o, Needs)
  BY DEF StartOrders, N
<1>3. o \in Seq(Services) /\ Len(o) = N /\ DOMAIN o = 1 .. N
  BY <1>1, <1>2
<1>4. \A s \in Services : \E i \in 1 .. N : o[i] = s
  <2>1. IsFiniteSet(1 .. N) /\ Cardinality(1 .. N) = N
    BY <1>1, FS_Interval
  <2>2. o \in Injection(1 .. N, Services)
    BY <1>2 DEF Injection
  <2>3. o \in Surjection(1 .. N, Services)
    BY <2>1, <2>2, GraphAccepted, FS_Injection DEF N
  <2> QED  BY <2>3 DEF Surjection
<1>5. \A i, j \in 1 .. N : o[i] = o[j] => i = j
  BY <1>2, <1>3 DEF IsInjective
<1>6. \A i \in 1 .. N : \A d \in Needs[o[i]] :
        \E j \in 1 .. N : j < i /\ o[j] = d
  BY <1>1, <1>2, <1>3 DEF RespectsNeeds
<1> QED  BY <1>1, <1>2, <1>3, <1>4, <1>5, <1>6

(* A backoff is a number of ticks, at most the cap. *)
LEMMA BackoffFacts ==
  ASSUME NEW count \in Nat
  PROVE  /\ calculate_backoff(count) \in Int
         /\ calculate_backoff(count) <= Stable
<1>1. Smaller(count, 30) \in Nat
  BY DEF Smaller
<1>2. \A n \in Nat : 2 ^ n \in Int
  OBVIOUS
<1>3. InitialBackoff * 2 ^ Smaller(count, 30) \in Int
  BY <1>1, <1>2, Durations
<1> QED  BY <1>3, Durations DEF calculate_backoff, Smaller

-----------------------------------------------------------------------------
LEMMA TypeInit == Init => TypeOK
<1> SUFFICES ASSUME Init PROVE TypeOK
  OBVIOUS
<1>1. start_order \in StartOrders /\ N \in Nat
  BY OrderFacts DEF Init
<1>2. idx \in 0 .. Cardinality(Services) + 1
  BY <1>1 DEF Init, N
<1>3. reaped \in Seq([pid : Pids, reason : Reasons])
  BY EmptySeq DEF Init
<1>4. /\ pid \in [Services -> Pids \cup {NoPid}]
      /\ state \in [Services -> {"stopped", "running", "failed", "waitingrestart"}]
      /\ restart_count \in [Services -> Nat]
      /\ age \in [Services -> Nat] /\ due \in [Services -> Int]
      /\ lastExit \in [Services -> Reasons \cup {"none"}]
  BY DEF Init
<1>5. /\ life \in [Pids -> {"free", "alive", "killed", "zombie"}]
      /\ owner \in [Pids -> Services \cup {Nobody}]
      /\ why \in [Pids -> Reasons]
  BY DEF Init, Reasons
<1> QED  BY <1>1, <1>2, <1>3, <1>4, <1>5 DEF Init, TypeOK

(* Where start_all and stop_all index start_order, and what stop_all waits *)
(* for.                                                                    *)
WaitOK ==
  /\ pc = "start" => idx >= 1
  /\ pc = "wait" => idx \in DOMAIN start_order /\ target \in Pids

LEMMA TypeStep == TypeOK /\ WaitOK /\ [Next]_vars => TypeOK' /\ WaitOK'
<1> SUFFICES ASSUME TypeOK, WaitOK, [Next]_vars PROVE TypeOK' /\ WaitOK'
  OBVIOUS
<1> USE DEF TypeOK, WaitOK, kernel, services, control, Reasons
<1>1. /\ N \in Nat /\ Len(start_order) = N /\ DOMAIN start_order = 1 .. N
      /\ \A i \in 1 .. N : start_order[i] \in Services
  BY OrderFacts
<1>2. ASSUME NEW p \in Pids, NEW s \in Services, Spawned(s, p)
      PROVE  /\ life' \in [Pids -> {"free", "alive", "killed", "zombie"}]
             /\ owner' \in [Pids -> Services \cup {Nobody}]
             /\ why' \in [Pids -> Reasons] /\ adopted' \in Nat
             /\ pid' \in [Services -> Pids \cup {NoPid}]
             /\ state' \in [Services -> {"stopped", "running", "failed", "waitingrestart"}]
             /\ restart_count' \in [Services -> Nat]
             /\ age' \in [Services -> Nat] /\ due' \in [Services -> Int]
  BY <1>2 DEF Spawned
<1>3. ASSUME NEW s \in Services, SpawnFailed(s)
      PROVE  /\ life' \in [Pids -> {"free", "alive", "killed", "zombie"}]
             /\ owner' \in [Pids -> Services \cup {Nobody}]
             /\ why' \in [Pids -> Reasons] /\ adopted' \in Nat
             /\ pid' \in [Services -> Pids \cup {NoPid}]
             /\ state' \in [Services -> {"stopped", "running", "failed", "waitingrestart"}]
             /\ restart_count' \in [Services -> Nat]
             /\ age' \in [Services -> Nat] /\ due' \in [Services -> Int]
  BY <1>3 DEF SpawnFailed
<1>4. CASE StartAll
  <2>1. start_order[idx] \in Services /\ idx + 1 \in 0 .. N + 1
    BY <1>1, <1>4 DEF StartAll, N
  <2>2. CASE (\E p \in Pids : Spawned(start_order[idx], p)) /\ idx' = idx + 1 /\ UNCHANGED pc
    BY <1>2, <1>4, <2>1, <2>2 DEF StartAll, N
  <2>3. CASE SpawnFailed(start_order[idx]) /\ pc' = "hold" /\ UNCHANGED idx
    BY <1>3, <1>4, <2>1, <2>3 DEF StartAll, N
  <2> QED  BY <1>4, <2>2, <2>3 DEF StartAll
<1>5. CASE AllStarted
  BY <1>5 DEF AllStarted
<1>6. CASE CheckFlag
  BY <1>1, <1>6 DEF CheckFlag, N
<1>7. ASSUME NEW p \in Pids, Reap(p) PROVE TypeOK' /\ WaitOK'
  <2>1. [pid |-> p, reason |-> why[p]] \in [pid : Pids, reason : Reasons]
    OBVIOUS
  <2>2. reaped' \in Seq([pid : Pids, reason : Reasons])
    BY <1>7, <2>1 DEF Reap
  <2> QED  BY <1>7, <2>2 DEF Reap
<1>8. CASE ReapDone
  BY <1>8 DEF ReapDone
<1>9. ASSUME NEW s \in Services, HandleServiceExit(s) PROVE TypeOK' /\ WaitOK'
  <2>1. reaped' \in Seq([pid : Pids, reason : Reasons])
    BY <1>9 DEF HandleServiceExit
  <2>2. CASE ScheduleRestart(s)
    <3> DEFINE count == IF age[s] > Stable THEN 0 ELSE restart_count[s]
    <3>1. count \in Nat /\ calculate_backoff(count) \in Int
      BY BackoffFacts
    <3> QED  BY <1>9, <2>1, <2>2, <3>1 DEF HandleServiceExit, ScheduleRestart
  <2>3. CASE GiveUp(s)
    BY <1>9, <2>1, <2>3 DEF HandleServiceExit, GiveUp
  <2> QED  BY <1>9, <2>2, <2>3 DEF HandleServiceExit
<1>10. CASE HandleOrphanExit
  <2>1. reaped' \in Seq([pid : Pids, reason : Reasons])
    BY <1>10 DEF HandleOrphanExit
  <2> QED  BY <1>10, <2>1 DEF HandleOrphanExit
<1>11. CASE CollectDue
  BY <1>11 DEF CollectDue
<1>12. ASSUME NEW s \in ready, Restart(s) PROVE TypeOK' /\ WaitOK'
  BY <1>2, <1>3, <1>12 DEF Restart
<1>13. CASE PollControl
  BY <1>13 DEF PollControl
<1>14. CASE StopSkip
  BY <1>1, <1>14 DEF StopSkip, N
<1>15. CASE StopTerm
  BY <1>1, <1>15, Durations DEF StopTerm, N
<1>16. CASE StopReaped
  <2>1. idx' \in 0 .. N + 1 /\ start_order[idx] \in Services
    BY <1>1, <1>16 DEF StopReaped, Stopped, N
  <2> QED  BY <1>16, <2>1 DEF StopReaped, Stopped, N
<1>17. CASE StopKill
  <2>1. idx' \in 0 .. N + 1 /\ start_order[idx] \in Services
    BY <1>1, <1>17 DEF StopKill, Stopped, N
  <2> QED  BY <1>17, <2>1 DEF StopKill, Stopped, N
<1>18. CASE PowerOff
  BY <1>18 DEF PowerOff
<1>19. CASE Tick
  BY <1>19, Durations DEF Tick, Smaller
<1>20. ASSUME NEW p \in Pids, NEW reason \in Reasons, ProcessEnds(p, reason)
       PROVE  TypeOK' /\ WaitOK'
  BY <1>20 DEF ProcessEnds
<1>21. ASSUME NEW p \in Pids, Adopt(p) PROVE TypeOK' /\ WaitOK'
  BY <1>21 DEF Adopt
<1>22. CASE ShutdownSignal
  BY <1>22 DEF ShutdownSignal
<1>23. CASE UNCHANGED vars
  BY <1>23 DEF vars
<1> QED
  BY <1>4, <1>5, <1>6, <1>7, <1>8, <1>9, <1>10, <1>11, <1>12, <1>13, <1>14,
     <1>15, <1>16, <1>17, <1>18, <1>19, <1>20, <1>21, <1>22, <1>23
  DEF Next, Nulld

(* Every variable of nulld and of the process table keeps its type. *)
THEOREM TypeCorrect == Spec => []TypeOK
<1>1. Init => TypeOK /\ WaitOK
  BY TypeInit DEF Init, WaitOK
<1> QED  BY <1>1, TypeStep, PTL DEF Spec

-----------------------------------------------------------------------------
(***************************************************************************)
(* The inductive invariant.  nulld's picture of its children (pid, state)  *)
(* and the process table (owner, life) agree except for two windows: from  *)
(* waitpid to handle_child_exit the dead process is only in reaped, and in *)
(* stop_all the process waited for is only in target.                      *)
(***************************************************************************)
InBatch(batch, p) == \E i \in DOMAIN batch : batch[i].pid = p

Stopping == pc \in {"stop", "wait", "off"}

(* The local variables are empty outside the phases that use them. *)
LocalsInv ==
  /\ reaped # << >> => pc \in {"reap", "handle"}
  /\ ready # {} => pc = "restart"
  /\ pc = "start" => idx >= 1
  /\ pc = "wait" => idx \in DOMAIN start_order /\ target \in Pids
  /\ pc # "wait" => target = NoPid
  /\ pc = "off" => idx = 0
  /\ Stopping => idx <= Len(start_order)

(* From a pid nulld holds to the process. *)
PidInv ==
  /\ \A s \in Services : pid[s] # NoPid =>
       /\ state[s] = "running"
       /\ owner[pid[s]] = s \/ InBatch(reaped, pid[s])
  /\ \A s, t \in Services : pid[s] = pid[t] /\ pid[s] # NoPid => s = t

(* From a process to the service that holds its pid. *)
OwnerInv ==
  \A p \in Pids : owner[p] \in Services =>
    /\ life[p] # "free"
    /\ ~InBatch(reaped, p)
    /\ state[owner[p]] \in {"running", "stopped"}
    /\ \/ pid[owner[p]] = p
       \/ Stopping /\ (target = p \/ life[p] \in {"killed", "zombie"})

(* start_all has not touched the services from idx on, process_restarts    *)
(* not those in ready, and stop_all is through with those after idx.       *)
PhaseInv ==
  /\ pc = "start" =>
       /\ \A i \in DOMAIN start_order : i >= idx => state[start_order[i]] = "stopped"
       /\ \A s \in Services : restart_count[s] = 0
  /\ \A s \in ready : state[s] = "waitingrestart" /\ due[s] <= 0
  /\ Stopping => \A i \in DOMAIN start_order : i > idx => pid[start_order[i]] = NoPid
  /\ pc = "wait" => pid[start_order[idx]] = NoPid /\ owner[target] = start_order[idx]

(* The reason that reaches handle_child_exit is the service's own. *)
ReasonInv ==
  /\ \A p \in Pids :
       owner[p] \in Services /\ life[p] = "zombie" => why[p] = lastExit[owner[p]]
  /\ \A s \in Services : pid[s] # NoPid /\ InBatch(reaped, pid[s]) =>
       \E i \in DOMAIN reaped :
         /\ reaped[i] = [pid |-> pid[s], reason |-> lastExit[s]]
         /\ \A j \in DOMAIN reaped : j < i => reaped[j].pid # pid[s]
  /\ ExitJudged

(* The part of a backoff that has passed since the exit is in age. *)
SpacingInv ==
  \A s \in Services : state[s] = "waitingrestart" =>
    /\ restart_count[s] > 0
    /\ due[s] > 0 => age[s] + due[s] >= calculate_backoff(restart_count[s] - 1)
    /\ due[s] <= 0 => age[s] >= calculate_backoff(restart_count[s] - 1)

Inv ==
  /\ LocalsInv
  /\ OneProcess
  /\ PidInv
  /\ OwnerInv
  /\ PhaseInv
  /\ ReasonInv
  /\ SpacingInv

-----------------------------------------------------------------------------
(* The part of Inv about processes and services. *)
Bookkeeping == OneProcess /\ PidInv /\ OwnerInv /\ ReasonInv /\ SpacingInv

(* What an exit appended to reaped, or taken from it, changes. *)
LEMMA BatchPush ==
  ASSUME TypeOK, NEW e \in [pid : Pids, reason : Reasons],
         reaped' = Append(reaped, e)
  PROVE  /\ DOMAIN reaped' = 1 .. Len(reaped) + 1
         /\ DOMAIN reaped = 1 .. Len(reaped) /\ Len(reaped) \in Nat
         /\ \A i \in DOMAIN reaped : reaped'[i] = reaped[i]
         /\ reaped'[Len(reaped) + 1] = e
         /\ \A p : InBatch(reaped', p) <=> InBatch(reaped, p) \/ p = e.pid
<1> DEFINE E == [pid : Pids, reason : Reasons]
<1>1. reaped \in Seq(E)
  BY DEF TypeOK
<1>2. /\ DOMAIN reaped' = 1 .. Len(reaped) + 1
      /\ DOMAIN reaped = 1 .. Len(reaped) /\ Len(reaped) \in Nat
      /\ \A i \in DOMAIN reaped : reaped'[i] = reaped[i]
      /\ reaped'[Len(reaped) + 1] = e
  BY <1>1
<1>3. ASSUME NEW p PROVE InBatch(reaped', p) => InBatch(reaped, p) \/ p = e.pid
  <2> SUFFICES ASSUME InBatch(reaped', p) PROVE InBatch(reaped, p) \/ p = e.pid
    OBVIOUS
  <2>1. PICK i \in 1 .. Len(reaped) + 1 : reaped'[i].pid = p
    BY <1>2 DEF InBatch
  <2>2. CASE i = Len(reaped) + 1
    BY <1>2, <2>1, <2>2
  <2>3. CASE i \in DOMAIN reaped
    BY <1>2, <2>1, <2>3 DEF InBatch
  <2> QED  BY <1>2, <2>2, <2>3
<1>4. ASSUME NEW p, InBatch(reaped, p) PROVE InBatch(reaped', p)
  BY <1>2, <1>4 DEF InBatch
<1>5. InBatch(reaped', e.pid)
  BY <1>2 DEF InBatch
<1> QED  BY <1>2, <1>3, <1>4, <1>5

LEMMA BatchPop ==
  ASSUME TypeOK, reaped # << >>, reaped' = Tail(reaped)
  PROVE  /\ Len(reaped) \in Nat /\ Len(reaped) >= 1
         /\ DOMAIN reaped = 1 .. Len(reaped)
         /\ DOMAIN reaped' = 1 .. Len(reaped) - 1
         /\ Head(reaped) = reaped[1]
         /\ reaped[1] \in [pid : Pids, reason : Reasons]
         /\ \A i \in 1 .. Len(reaped) - 1 : reaped'[i] = reaped[i + 1]
         /\ \A p : InBatch(reaped', p) => InBatch(reaped, p)
         /\ \A p : InBatch(reaped, p) /\ p # reaped[1].pid => InBatch(reaped', p)
<1> DEFINE E == [pid : Pids, reason : Reasons]
<1>1. reaped \in Seq(E)
  BY DEF TypeOK
<1>2. /\ Len(reaped) \in Nat /\ Len(reaped) >= 1
      /\ DOMAIN reaped = 1 .. Len(reaped)
      /\ DOMAIN reaped' = 1 .. Len(reaped) - 1
      /\ Head(reaped) = reaped[1]
      /\ reaped[1] \in E
      /\ \A i \in 1 .. Len(reaped) - 1 : reaped'[i] = reaped[i + 1]
  <2>1. /\ Tail(reaped) \in Seq(E) /\ Head(reaped) \in E
        /\ Len(Tail(reaped)) = Len(reaped) - 1
        /\ \A i \in 1 .. Len(Tail(reaped)) : Tail(reaped)[i] = reaped[i + 1]
    BY <1>1, HeadTailProperties
  <2>2. Len(reaped) \in Nat /\ DOMAIN reaped = 1 .. Len(reaped) /\ Len(reaped) # 0
    BY <1>1, EmptySeq
  <2>3. Head(reaped) = reaped[1]
    BY <1>1
  <2>4. DOMAIN Tail(reaped) = 1 .. Len(Tail(reaped))
    BY <2>1
  <2> QED  BY <2>1, <2>2, <2>3, <2>4
<1>3. \A p : InBatch(reaped', p) => InBatch(reaped, p)
  BY <1>2 DEF InBatch
<1>4. ASSUME NEW p, InBatch(reaped, p), p # reaped[1].pid PROVE InBatch(reaped', p)
  <2>1. PICK i \in 1 .. Len(reaped) : reaped[i].pid = p
    BY <1>2, <1>4 DEF InBatch
  <2>2. i - 1 \in 1 .. Len(reaped) - 1 /\ reaped'[i - 1] = reaped[i]
    BY <1>2, <1>4, <2>1
  <2> QED  BY <1>2, <2>1, <2>2 DEF InBatch
<1> QED  BY <1>2, <1>3, <1>4

(* start_service, called while nulld neither reaps nor stops, for a        *)
(* service without a process.                                              *)
LEMMA SpawnStep ==
  ASSUME TypeOK, Inv, NEW s \in Services, NEW p \in Pids, Spawned(s, p),
         pid[s] = NoPid, ~Stopping, reaped = << >>,
         UNCHANGED <<reaped, lastExit, target>>
  PROVE  Bookkeeping'
<1> USE DEF TypeOK, Inv, LocalsInv
<1>1. \A q : ~InBatch(reaped, q) /\ ~InBatch(reaped', q)
  BY DEF InBatch
<1>2. \A q \in Pids : owner[q] # s
  BY <1>1, ProcessIds DEF OwnerInv
<1>3. ASSUME NEW t \in Services, pid[t] = p PROVE FALSE
  <2>1. owner[p] = t
    BY <1>1, <1>3, ProcessIds DEF PidInv
  <2> QED  BY <2>1 DEF OwnerInv, Spawned
<1>4. /\ owner' = [owner EXCEPT ![p] = s] /\ life' = [life EXCEPT ![p] = "alive"]
      /\ pid' = [pid EXCEPT ![s] = p] /\ state' = [state EXCEPT ![s] = "running"]
      /\ age' = [age EXCEPT ![s] = 0] /\ why' = why
      /\ restart_count' = restart_count /\ due' = due
      /\ life[p] = "free"
  BY DEF Spawned
<1>5. OneProcess'
  BY <1>2, <1>4, ProcessIds DEF OneProcess
<1>6. PidInv'
  BY <1>1, <1>3, <1>4, ProcessIds DEF PidInv, OwnerInv
<1>7. OwnerInv'
  BY <1>1, <1>2, <1>4 DEF OwnerInv
<1>8. ReasonInv'
  BY <1>1, <1>2, <1>4 DEF ReasonInv, ExitJudged, ShouldRestart
<1>9. SpacingInv'
  BY <1>4 DEF SpacingInv
<1> QED  BY <1>5, <1>6, <1>7, <1>8, <1>9 DEF Bookkeeping

LEMMA SpawnFailStep ==
  ASSUME TypeOK, Inv, NEW s \in Services, SpawnFailed(s),
         pid[s] = NoPid, ~Stopping, reaped = << >>,
         UNCHANGED <<reaped, lastExit, target>>
  PROVE  Bookkeeping'
<1> USE DEF TypeOK, Inv, LocalsInv
<1>1. \A q : ~InBatch(reaped, q) /\ ~InBatch(reaped', q)
  BY DEF InBatch
<1>2. \A q \in Pids : owner[q] # s
  BY <1>1, ProcessIds DEF OwnerInv
<1>3. /\ state' = [state EXCEPT ![s] = "failed"]
      /\ UNCHANGED <<life, owner, why, pid, restart_count, age, due>>
  BY DEF SpawnFailed, kernel
<1>4. OneProcess' /\ PidInv' /\ SpacingInv'
  BY <1>1, <1>3 DEF OneProcess, PidInv, SpacingInv
<1>5. OwnerInv'
  BY <1>1, <1>2, <1>3 DEF OwnerInv
<1>6. ReasonInv'
  BY <1>1, <1>3 DEF ReasonInv, ExitJudged, ShouldRestart
<1> QED  BY <1>4, <1>5, <1>6 DEF Bookkeeping

(* What a step keeps that changes neither the process table nor the        *)
(* managed services.                                                       *)
LEMMA QuietStep ==
  ASSUME Inv, Stopping => Stopping',
         UNCHANGED <<kernel, services, reaped, lastExit, target>>
  PROVE  Bookkeeping'
<1> USE DEF Inv, kernel, services
<1>1. \A p : InBatch(reaped', p) <=> InBatch(reaped, p)
  BY DEF InBatch
<1>2. OneProcess' /\ PidInv'
  BY <1>1 DEF OneProcess, PidInv
<1>3. OwnerInv'
  BY <1>1 DEF OwnerInv
<1>4. ReasonInv'
  BY <1>1 DEF ReasonInv, ExitJudged, ShouldRestart
<1>5. SpacingInv'
  BY DEF SpacingInv
<1> QED  BY <1>2, <1>3, <1>4, <1>5 DEF Bookkeeping

LEMMA InvInit == Init => Inv
<1> SUFFICES ASSUME Init PROVE Inv
  OBVIOUS
<1> USE DEF Init, Stopping
<1>1. \A p : ~InBatch(reaped, p)
  BY DEF InBatch
<1>2. OneProcess /\ OwnerInv
  BY ProcessIds DEF OneProcess, OwnerInv
<1>3. LocalsInv
  BY DEF LocalsInv
<1>4. PidInv
  BY <1>1 DEF PidInv
<1>5. PhaseInv
  BY OrderFacts DEF PhaseInv
<1>6. ReasonInv
  BY <1>1, ProcessIds DEF ReasonInv, ExitJudged
<1>7. SpacingInv
  BY DEF SpacingInv
<1> QED  BY <1>2, <1>3, <1>4, <1>5, <1>6, <1>7 DEF Inv

LEMMA InvStep == TypeOK /\ Inv /\ [Next]_vars => Inv'
<1> SUFFICES ASSUME TypeOK, Inv, [Next]_vars PROVE Inv'
  OBVIOUS
<1> USE DEF TypeOK, Inv, kernel, services, control, Stopping
<1>1. /\ N \in Nat /\ Len(start_order) = N /\ DOMAIN start_order = 1 .. N
      /\ \A i \in 1 .. N : start_order[i] \in Services
      /\ \A i, j \in 1 .. N : start_order[i] = start_order[j] => i = j
  BY OrderFacts
<1>2. idx \in Int
  BY <1>1 DEF N
<1>3. CASE StartAll
  <2> DEFINE s == start_order[idx]
  <2>1. /\ pc = "start" /\ idx \in 1 .. N /\ s \in Services /\ state[s] = "stopped"
        /\ reaped = << >> /\ ready = {} /\ target = NoPid
        /\ UNCHANGED <<reaped, ready, target, grace, start_order, shutdown, lastExit>>
    <3>1. /\ pc = "start" /\ idx \in 1 .. N /\ s \in Services
          /\ UNCHANGED <<reaped, ready, target, grace, start_order, shutdown, lastExit>>
      BY <1>1, <1>2, <1>3 DEF StartAll, LocalsInv
    <3>2. reaped = << >> /\ ready = {} /\ target = NoPid
      BY <3>1 DEF LocalsInv
    <3>3. state[s] = "stopped"
      <4>1. idx \in DOMAIN start_order /\ idx >= idx
        BY <1>1, <1>2, <3>1
      <4> QED  BY <3>1, <4>1 DEF PhaseInv
    <3> QED  BY <3>1, <3>2, <3>3
  <2>2. pid[s] = NoPid
    BY <2>1 DEF PidInv
  <2>3. CASE (\E p \in Pids : Spawned(s, p)) /\ idx' = idx + 1 /\ UNCHANGED pc
    <3>1. PICK p \in Pids : Spawned(s, p)
      BY <2>3
    <3>2. Bookkeeping'
      BY <2>1, <2>2, <3>1, SpawnStep
    <3>3. LocalsInv'
      BY <1>1, <2>1, <2>3 DEF LocalsInv
    <3>4. PhaseInv'
      BY <1>1, <2>1, <2>3, <3>1 DEF PhaseInv, Spawned
    <3> QED  BY <3>2, <3>3, <3>4 DEF Bookkeeping
  <2>4. CASE SpawnFailed(s) /\ pc' = "hold" /\ UNCHANGED idx
    <3>1. Bookkeeping'
      BY <2>1, <2>2, <2>4, SpawnFailStep
    <3>2. LocalsInv' /\ PhaseInv'
      BY <1>1, <2>1, <2>4 DEF LocalsInv, PhaseInv
    <3> QED  BY <3>1, <3>2 DEF Bookkeeping
  <2> QED  BY <1>3, <2>3, <2>4 DEF StartAll
<1>4. CASE AllStarted
  <2>1. Bookkeeping'
    BY <1>4, QuietStep DEF AllStarted
  <2>2. LocalsInv' /\ PhaseInv'
    BY <1>1, <1>4 DEF AllStarted, LocalsInv, PhaseInv
  <2> QED  BY <2>1, <2>2 DEF Bookkeeping
<1>5. CASE CheckFlag
  <2>1. Bookkeeping'
    BY <1>5, QuietStep DEF CheckFlag
  <2>2. LocalsInv' /\ PhaseInv'
    BY <1>1, <1>5 DEF CheckFlag, LocalsInv, PhaseInv
  <2> QED  BY <2>1, <2>2 DEF Bookkeeping
<1>6. CASE ReapDone
  <2>1. Bookkeeping'
    BY <1>6, QuietStep DEF ReapDone
  <2>2. LocalsInv' /\ PhaseInv'
    BY <1>1, <1>6 DEF ReapDone, LocalsInv, PhaseInv
  <2> QED  BY <2>1, <2>2 DEF Bookkeeping
<1>7. CASE CollectDue
  <2>1. Bookkeeping'
    BY <1>7, QuietStep DEF CollectDue
  <2>2. LocalsInv' /\ PhaseInv'
    BY <1>1, <1>7 DEF CollectDue, LocalsInv, PhaseInv
  <2> QED  BY <2>1, <2>2 DEF Bookkeeping
<1>8. CASE PollControl
  <2>1. Bookkeeping'
    BY <1>8, QuietStep DEF PollControl
  <2>2. LocalsInv' /\ PhaseInv'
    BY <1>1, <1>8 DEF PollControl, LocalsInv, PhaseInv
  <2> QED  BY <2>1, <2>2 DEF Bookkeeping
<1>9. CASE StopSkip
  <2>1. Bookkeeping'
    BY <1>9, QuietStep DEF StopSkip
  <2>2. LocalsInv' /\ PhaseInv'
    BY <1>1, <1>9 DEF StopSkip, LocalsInv, PhaseInv
  <2> QED  BY <2>1, <2>2 DEF Bookkeeping
<1>10. CASE PowerOff
  <2>1. Bookkeeping'
    BY <1>10, QuietStep DEF PowerOff
  <2>2. LocalsInv' /\ PhaseInv'
    BY <1>1, <1>10 DEF PowerOff, LocalsInv, PhaseInv
  <2> QED  BY <2>1, <2>2 DEF Bookkeeping
<1>11. CASE ShutdownSignal
  <2>1. Bookkeeping'
    BY <1>11, QuietStep DEF ShutdownSignal
  <2>2. LocalsInv' /\ PhaseInv'
    BY <1>1, <1>11 DEF ShutdownSignal, LocalsInv, PhaseInv
  <2> QED  BY <2>1, <2>2 DEF Bookkeeping
<1>12. ASSUME NEW p \in Pids, Reap(p) PROVE Inv'
  <2> DEFINE e == [pid |-> p, reason |-> why[p]]
  <2>1. /\ life' = [life EXCEPT ![p] = "free"] /\ owner' = [owner EXCEPT ![p] = Nobody]
        /\ why' = [why EXCEPT ![p] = "ok"]
        /\ UNCHANGED <<pid, state, restart_count, age, due, lastExit, pc, idx, ready, target, start_order>>
        /\ pc = "reap" /\ life[p] = "zombie" /\ reaped' = Append(reaped, e)
    BY <1>12 DEF Reap
  <2>2. e \in [pid : Pids, reason : Reasons]
    OBVIOUS
  <2>3. /\ DOMAIN reaped' = 1 .. Len(reaped) + 1
        /\ DOMAIN reaped = 1 .. Len(reaped) /\ Len(reaped) \in Nat
        /\ \A i \in DOMAIN reaped : reaped'[i] = reaped[i]
        /\ reaped'[Len(reaped) + 1] = e
        /\ \A q : InBatch(reaped', q) <=> InBatch(reaped, q) \/ q = p
    BY <2>1, <2>2, BatchPush
  <2>4. OneProcess'
    BY <2>1, ProcessIds DEF OneProcess
  <2>5. PidInv'
    BY <2>1, <2>3 DEF PidInv
  <2>6. OwnerInv'
    BY <2>1, <2>3, ProcessIds DEF OwnerInv
  <2>7. LocalsInv' /\ PhaseInv' /\ SpacingInv'
    BY <2>1 DEF LocalsInv, PhaseInv, SpacingInv
  <2>8. ReasonInv'
    <3>1. ASSUME NEW q \in Pids, owner'[q] \in Services, life'[q] = "zombie"
          PROVE  why'[q] = lastExit'[owner'[q]]
      BY <2>1, <3>1 DEF ReasonInv
    <3>2. ASSUME NEW s \in Services, pid[s] # NoPid, InBatch(reaped, pid[s])
          PROVE  \E i \in DOMAIN reaped' :
                   /\ reaped'[i] = [pid |-> pid[s], reason |-> lastExit[s]]
                   /\ \A j \in DOMAIN reaped' : j < i => reaped'[j].pid # pid[s]
      <4>1. PICK i \in DOMAIN reaped :
              /\ reaped[i] = [pid |-> pid[s], reason |-> lastExit[s]]
              /\ \A j \in DOMAIN reaped : j < i => reaped[j].pid # pid[s]
        BY <3>2 DEF ReasonInv
      <4>2. \A j \in DOMAIN reaped' : j < i => j \in DOMAIN reaped
        BY <2>3
      <4>3. i \in DOMAIN reaped' /\ reaped'[i] = reaped[i]
        BY <2>3, <4>1
      <4>4. \A j \in DOMAIN reaped' : j < i => reaped'[j].pid # pid[s]
        BY <2>3, <4>1, <4>2
      <4> QED  BY <4>1, <4>3, <4>4
    <3>3. ASSUME NEW s \in Services, pid[s] = p, ~InBatch(reaped, p)
          PROVE  \E i \in DOMAIN reaped' :
                   /\ reaped'[i] = [pid |-> pid[s], reason |-> lastExit[s]]
                   /\ \A j \in DOMAIN reaped' : j < i => reaped'[j].pid # pid[s]
      <4>1. why[p] = lastExit[s]
        <5>1. owner[p] = s
          BY <3>3, ProcessIds DEF PidInv
        <5> QED  BY <2>1, <5>1 DEF ReasonInv
      <4>2. \A j \in DOMAIN reaped : reaped'[j].pid # p
        BY <2>3, <3>3 DEF InBatch
      <4>3. \A j \in DOMAIN reaped' : j < Len(reaped) + 1 => j \in DOMAIN reaped
        BY <2>3
      <4>4. Len(reaped) + 1 \in DOMAIN reaped'
        BY <2>3
      <4> QED  BY <2>3, <3>3, <4>1, <4>2, <4>3, <4>4
    <3>4. ExitJudged'
      BY <2>1 DEF ReasonInv, ExitJudged, ShouldRestart
    <3>5. ASSUME NEW s \in Services, pid'[s] # NoPid, InBatch(reaped', pid'[s])
          PROVE  \E i \in DOMAIN reaped' :
                   /\ reaped'[i] = [pid |-> pid'[s], reason |-> lastExit'[s]]
                   /\ \A j \in DOMAIN reaped' : j < i => reaped'[j].pid # pid'[s]
      <4>1. InBatch(reaped, pid[s]) \/ pid[s] = p
        BY <2>1, <2>3, <3>5
      <4> QED  BY <2>1, <3>2, <3>3, <3>5, <4>1
    <3> QED  BY <3>1, <3>4, <3>5 DEF ReasonInv
  <2> QED  BY <2>4, <2>5, <2>6, <2>7, <2>8
<1>13. ASSUME NEW s \in Services, HandleServiceExit(s) PROVE Inv'
  <2>1. /\ pc = "handle" /\ reaped # << >> /\ pid[s] = reaped[1].pid
        /\ pid' = [pid EXCEPT ![s] = NoPid]
        /\ reaped' = Tail(reaped)
        /\ UNCHANGED <<life, owner, why, adopted, age, pc, idx, ready, target, start_order, lastExit>>
    BY <1>13, BatchPop DEF HandleServiceExit
  <2>2. /\ Len(reaped) \in Nat /\ Len(reaped) >= 1
        /\ DOMAIN reaped = 1 .. Len(reaped)
        /\ DOMAIN reaped' = 1 .. Len(reaped) - 1
        /\ Head(reaped) = reaped[1]
        /\ reaped[1] \in [pid : Pids, reason : Reasons]
        /\ \A i \in 1 .. Len(reaped) - 1 : reaped'[i] = reaped[i + 1]
        /\ \A p : InBatch(reaped', p) => InBatch(reaped, p)
        /\ \A p : InBatch(reaped, p) /\ p # reaped[1].pid => InBatch(reaped', p)
    BY <2>1, BatchPop
  <2>3. \A t \in Services : t # s => state'[t] = state[t] /\ due'[t] = due[t] /\ restart_count'[t] = restart_count[t]
    BY <1>13 DEF HandleServiceExit, ScheduleRestart, GiveUp
  <2>4. reaped[1].reason = lastExit[s] /\ pid[s] # NoPid /\ InBatch(reaped, pid[s])
    <3>1. pid[s] # NoPid /\ InBatch(reaped, pid[s]) /\ 1 \in DOMAIN reaped
      <4>1. reaped[1].pid \in Pids
        BY <2>2
      <4>2. 1 \in DOMAIN reaped
        BY <2>2
      <4> QED  BY <2>1, <4>1, <4>2, ProcessIds DEF InBatch
    <3>2. PICK i \in DOMAIN reaped :
            /\ reaped[i] = [pid |-> pid[s], reason |-> lastExit[s]]
            /\ \A j \in DOMAIN reaped : j < i => reaped[j].pid # pid[s]
      BY <3>1 DEF ReasonInv
    <3>3. ~(1 < i)
      BY <2>1, <3>1, <3>2
    <3>4. i = 1
      BY <2>2, <3>3
    <3> QED  BY <3>1, <3>2, <3>4
  <2>5. \A p \in Pids : owner[p] # s
    BY <2>1, <2>4 DEF OwnerInv
  <2>6. OneProcess'
    BY <2>1 DEF OneProcess
  <2>7. PidInv'
    BY <2>1, <2>2, <2>3 DEF PidInv
  <2>8. OwnerInv'
    BY <2>1, <2>2, <2>3, <2>5 DEF OwnerInv
  <2>9. LocalsInv' /\ PhaseInv'
    BY <2>1 DEF LocalsInv, PhaseInv
  <2>10. ReasonInv'
    <3>1. ASSUME NEW t \in Services, pid'[t] # NoPid, InBatch(reaped', pid'[t])
          PROVE  \E i \in DOMAIN reaped' :
                   /\ reaped'[i] = [pid |-> pid'[t], reason |-> lastExit'[t]]
                   /\ \A j \in DOMAIN reaped' : j < i => reaped'[j].pid # pid'[t]
      <4>1. t # s /\ pid'[t] = pid[t] /\ pid[t] # pid[s] /\ InBatch(reaped, pid[t])
        BY <2>1, <2>2, <3>1 DEF PidInv
      <4>2. PICK i \in DOMAIN reaped :
              /\ reaped[i] = [pid |-> pid[t], reason |-> lastExit[t]]
              /\ \A j \in DOMAIN reaped : j < i => reaped[j].pid # pid[t]
        BY <3>1, <4>1 DEF ReasonInv
      <4>3. i # 1
        BY <2>1, <4>1, <4>2
      <4>4. i - 1 \in DOMAIN reaped' /\ reaped'[i - 1] = reaped[i]
        BY <2>2, <4>2, <4>3
      <4>5. \A j \in DOMAIN reaped' : j < i - 1 =>
              j + 1 \in DOMAIN reaped /\ j + 1 < i /\ reaped'[j] = reaped[j + 1]
        BY <2>2, <4>2
      <4> QED  BY <2>1, <4>1, <4>2, <4>4, <4>5
    <3>2. ExitJudged'
      <4>1. ASSUME NEW t \in Services, t # s, state'[t] = "waitingrestart"
            PROVE  ShouldRestart(t, lastExit'[t])
        BY <2>1, <2>3, <4>1 DEF ReasonInv, ExitJudged
      <4>2. ASSUME state'[s] = "waitingrestart" PROVE ShouldRestart(s, lastExit'[s])
        BY <1>13, <2>1, <2>2, <2>4, <4>2 DEF HandleServiceExit, GiveUp, ShouldRestart
      <4> QED  BY <4>1, <4>2 DEF ExitJudged, ShouldRestart
    <3>3. \A p \in Pids :
            owner'[p] \in Services /\ life'[p] = "zombie" => why'[p] = lastExit'[owner'[p]]
      BY <2>1 DEF ReasonInv
    <3> QED  BY <3>1, <3>2, <3>3 DEF ReasonInv
  <2>11. SpacingInv'
    <3> DEFINE count == IF age[s] > Stable THEN 0 ELSE restart_count[s]
    <3>1. CASE ScheduleRestart(s)
      <4>1. /\ count \in Nat /\ restart_count'[s] = count + 1
            /\ due'[s] = calculate_backoff(count) /\ age[s] \in Nat
        BY <1>13, <3>1 DEF ScheduleRestart
      <4>2. calculate_backoff(count) \in Int
        BY <4>1, BackoffFacts
      <4> HIDE DEF count
      <4>3. restart_count'[s] - 1 = count /\ restart_count'[s] > 0
        BY <4>1
      <4>4. /\ due'[s] > 0 => age'[s] + due'[s] >= calculate_backoff(restart_count'[s] - 1)
            /\ due'[s] <= 0 => age'[s] >= calculate_backoff(restart_count'[s] - 1)
        BY <2>1, <4>1, <4>2, <4>3
      <4> QED  BY <2>1, <2>3, <4>3, <4>4 DEF SpacingInv
    <3>2. CASE GiveUp(s)
      BY <2>1, <2>3, <3>2 DEF SpacingInv, GiveUp
    <3> QED  BY <1>13, <3>1, <3>2 DEF HandleServiceExit
  <2> QED  BY <2>6, <2>7, <2>8, <2>9, <2>10, <2>11
<1>14. CASE HandleOrphanExit
  <2>1. /\ pc = "handle" /\ reaped # << >> /\ reaped' = Tail(reaped)
        /\ \A s \in Services : pid[s] # reaped[1].pid
        /\ UNCHANGED <<kernel, services, pc, idx, ready, target, start_order, lastExit>>
    BY <1>14, BatchPop DEF HandleOrphanExit
  <2>2. /\ Len(reaped) \in Nat /\ Len(reaped) >= 1
        /\ DOMAIN reaped = 1 .. Len(reaped)
        /\ DOMAIN reaped' = 1 .. Len(reaped) - 1
        /\ \A i \in 1 .. Len(reaped) - 1 : reaped'[i] = reaped[i + 1]
        /\ \A p : InBatch(reaped', p) => InBatch(reaped, p)
        /\ \A p : InBatch(reaped, p) /\ p # reaped[1].pid => InBatch(reaped', p)
    BY <2>1, BatchPop
  <2>3. OneProcess' /\ PidInv' /\ SpacingInv'
    BY <2>1, <2>2 DEF OneProcess, PidInv, SpacingInv
  <2>4. OwnerInv'
    BY <2>1, <2>2 DEF OwnerInv
  <2>5. LocalsInv' /\ PhaseInv'
    BY <2>1 DEF LocalsInv, PhaseInv
  <2>6. ReasonInv'
    <3>1. ASSUME NEW t \in Services, pid[t] # NoPid, InBatch(reaped', pid[t])
          PROVE  \E i \in DOMAIN reaped' :
                   /\ reaped'[i] = [pid |-> pid[t], reason |-> lastExit[t]]
                   /\ \A j \in DOMAIN reaped' : j < i => reaped'[j].pid # pid[t]
      <4>1. InBatch(reaped, pid[t])
        BY <2>2, <3>1
      <4>2. PICK i \in DOMAIN reaped :
              /\ reaped[i] = [pid |-> pid[t], reason |-> lastExit[t]]
              /\ \A j \in DOMAIN reaped : j < i => reaped[j].pid # pid[t]
        BY <3>1, <4>1 DEF ReasonInv
      <4>3. i # 1
        BY <2>1, <4>2
      <4>4. i - 1 \in DOMAIN reaped' /\ reaped'[i - 1] = reaped[i]
        BY <2>2, <4>2, <4>3
      <4>5. \A j \in DOMAIN reaped' : j < i - 1 =>
              j + 1 \in DOMAIN reaped /\ j + 1 < i /\ reaped'[j] = reaped[j + 1]
        BY <2>2, <4>2
      <4>6. \A j \in DOMAIN reaped' : j < i - 1 => reaped'[j].pid # pid[t]
        BY <4>2, <4>5
      <4> QED  BY <4>2, <4>4, <4>6
    <3> QED  BY <2>1, <3>1 DEF ReasonInv, ExitJudged, ShouldRestart
  <2> QED  BY <2>3, <2>4, <2>5, <2>6
<1>15. ASSUME NEW s \in ready, Restart(s) PROVE Inv'
  <2>1. /\ s \in Services /\ pc = "restart" /\ reaped = << >>
        /\ ready' = ready \ {s}
        /\ UNCHANGED <<pc, idx, reaped, target, start_order, lastExit>>
    BY <1>15 DEF Restart, LocalsInv
  <2>2. pid[s] = NoPid
    BY <2>1 DEF PidInv, PhaseInv
  <2>3. CASE \E p \in Pids : Spawned(s, p)
    <3>1. PICK p \in Pids : Spawned(s, p)
      BY <2>3
    <3>2. Bookkeeping'
      BY <2>1, <2>2, <3>1, SpawnStep
    <3>3. LocalsInv' /\ PhaseInv'
      BY <2>1, <3>1 DEF LocalsInv, PhaseInv, Spawned
    <3> QED  BY <3>2, <3>3 DEF Bookkeeping
  <2>4. CASE SpawnFailed(s)
    <3>1. Bookkeeping'
      BY <2>1, <2>2, <2>4, SpawnFailStep
    <3>2. LocalsInv' /\ PhaseInv'
      BY <2>1, <2>4 DEF LocalsInv, PhaseInv, SpawnFailed
    <3> QED  BY <3>1, <3>2 DEF Bookkeeping
  <2> QED  BY <1>15, <2>3, <2>4 DEF Restart
<1>16. CASE StopTerm
  <2> DEFINE s == start_order[idx]
  <2>1. /\ pc = "stop" /\ pc' = "wait" /\ idx \in 1 .. N /\ s \in Services
        /\ pid[s] \in Pids /\ target' = pid[s] /\ pid' = [pid EXCEPT ![s] = NoPid]
        /\ UNCHANGED <<kernel, state, restart_count, age, due, idx, reaped, ready, start_order, lastExit>>
    BY <1>1, <1>16 DEF StopTerm
  <2>2. reaped = << >> /\ ready = {} /\ target = NoPid /\ \A p : ~InBatch(reaped, p)
    BY <2>1 DEF LocalsInv, InBatch
  <2>3. owner[pid[s]] = s /\ life[pid[s]] # "free"
    <3> HIDE DEF s
    <3>1. pid[s] # NoPid /\ ~InBatch(reaped, pid[s])
      BY <2>1, <2>2, ProcessIds
    <3>2. owner[pid[s]] = s
      BY <2>1, <3>1 DEF PidInv
    <3> QED  BY <2>1, <3>2 DEF OwnerInv
  <2>4. OneProcess' /\ SpacingInv'
    BY <2>1 DEF OneProcess, SpacingInv
  <2>5. PidInv'
    BY <2>1, <2>2 DEF PidInv
  <2>6. OwnerInv'
    <3> HIDE DEF s
    <3>1. ASSUME NEW p \in Pids, owner[p] \in Services
          PROVE  pid'[owner[p]] = p \/ target' = p \/ life[p] \in {"killed", "zombie"}
      BY <2>1, <2>2, <3>1, ProcessIds DEF OwnerInv
    <3> QED  BY <2>1, <2>2, <3>1 DEF OwnerInv
  <2>7. LocalsInv'
    BY <1>1, <2>1, <2>2 DEF LocalsInv
  <2>8. PhaseInv'
    BY <1>1, <2>1, <2>2, <2>3 DEF PhaseInv
  <2>9. ReasonInv'
    BY <2>1, <2>2 DEF ReasonInv, ExitJudged, ShouldRestart
  <2> QED  BY <2>4, <2>5, <2>6, <2>7, <2>8, <2>9
<1>17. CASE StopReaped
  <2> DEFINE s == start_order[idx]
  <2>1. /\ pc = "wait" /\ pc' = "stop" /\ idx \in 1 .. N /\ s \in Services
        /\ target \in Pids /\ target' = NoPid /\ idx' = idx - 1
        /\ state' = [state EXCEPT ![s] = "stopped"]
        /\ life' = [life EXCEPT ![target] = "free"]
        /\ owner' = [owner EXCEPT ![target] = Nobody]
        /\ why' = [why EXCEPT ![target] = "ok"]
        /\ UNCHANGED <<adopted, pid, restart_count, age, due, reaped, ready, start_order, lastExit>>
    BY <1>1, <1>17 DEF StopReaped, Stopped, LocalsInv
  <2>2. reaped = << >> /\ ready = {} /\ \A p : ~InBatch(reaped, p)
    BY <2>1 DEF LocalsInv, InBatch
  <2>3. owner[target] = s /\ pid[s] = NoPid
    BY <2>1 DEF PhaseInv
  <2>4. OneProcess'
    BY <2>1, ProcessIds DEF OneProcess
  <2>5. PidInv'
    BY <2>1, <2>2, <2>3, ProcessIds DEF PidInv
  <2>6. OwnerInv'
    BY <2>1, <2>2, <2>3, ProcessIds DEF OwnerInv
  <2>7. LocalsInv'
    BY <1>1, <2>1, <2>2 DEF LocalsInv
  <2>8. PhaseInv'
    BY <1>1, <2>1, <2>2, <2>3 DEF PhaseInv
  <2>9. ReasonInv'
    BY <2>1, <2>2, ProcessIds DEF ReasonInv, ExitJudged, ShouldRestart
  <2>10. SpacingInv'
    BY <2>1 DEF SpacingInv
  <2> QED  BY <2>4, <2>5, <2>6, <2>7, <2>8, <2>9, <2>10
<1>18. CASE StopKill
  <2> DEFINE s == start_order[idx]
  <2>1. /\ pc = "wait" /\ pc' = "stop" /\ idx \in 1 .. N /\ s \in Services
        /\ target \in Pids /\ target' = NoPid /\ idx' = idx - 1
        /\ state' = [state EXCEPT ![s] = "stopped"]
        /\ life' = [life EXCEPT ![target] = IF @ = "alive" THEN "killed" ELSE @]
        /\ UNCHANGED <<owner, why, adopted, pid, restart_count, age, due, reaped, ready, start_order, lastExit>>
    BY <1>1, <1>18 DEF StopKill, Stopped, LocalsInv
  <2>2. reaped = << >> /\ ready = {} /\ \A p : ~InBatch(reaped, p)
    BY <2>1 DEF LocalsInv, InBatch
  <2>3. owner[target] = s /\ pid[s] = NoPid
    BY <2>1 DEF PhaseInv
  <2>4. OneProcess'
    BY <2>1, ProcessIds DEF OneProcess
  <2>5. PidInv'
    BY <2>1, <2>2, <2>3, ProcessIds DEF PidInv
  <2>6. OwnerInv'
    <3>1. life[target] # "free"
      BY <2>1, <2>3 DEF OwnerInv
    <3> QED  BY <2>1, <2>2, <2>3, <3>1, ProcessIds DEF OwnerInv
  <2>7. LocalsInv'
    BY <1>1, <2>1, <2>2 DEF LocalsInv
  <2>8. PhaseInv'
    BY <1>1, <2>1, <2>2, <2>3 DEF PhaseInv
  <2>9. ReasonInv'
    BY <2>1, <2>2, ProcessIds DEF ReasonInv, ExitJudged, ShouldRestart
  <2>10. SpacingInv'
    BY <2>1 DEF SpacingInv
  <2> QED  BY <2>4, <2>5, <2>6, <2>7, <2>8, <2>9, <2>10
<1>19. CASE Tick
  <2>1. /\ age' = [t \in Services |-> Smaller(age[t] + 1, Stable + 1)]
        /\ due' = [t \in Services |-> IF due[t] > 0 THEN due[t] - 1 ELSE due[t]]
        /\ UNCHANGED <<kernel, pid, state, restart_count, pc, idx, reaped, ready, target, start_order, lastExit>>
    BY <1>19 DEF Tick
  <2>2. OneProcess' /\ PidInv' /\ OwnerInv' /\ LocalsInv'
    BY <2>1 DEF OneProcess, PidInv, OwnerInv, LocalsInv
  <2>3. ReasonInv'
    BY <2>1 DEF ReasonInv, ExitJudged, ShouldRestart
  <2>4. PhaseInv'
    BY <2>1 DEF PhaseInv
  <2>5. ASSUME NEW s \in Services, state'[s] = "waitingrestart"
        PROVE  /\ restart_count'[s] > 0
               /\ due'[s] > 0 => age'[s] + due'[s] >= calculate_backoff(restart_count'[s] - 1)
               /\ due'[s] <= 0 => age'[s] >= calculate_backoff(restart_count'[s] - 1)
    <3> DEFINE b == calculate_backoff(restart_count[s] - 1)
    <3>1. /\ restart_count[s] > 0
          /\ due[s] > 0 => age[s] + due[s] >= b
          /\ due[s] <= 0 => age[s] >= b
      BY <2>1, <2>5 DEF SpacingInv
    <3>2. restart_count[s] - 1 \in Nat
      BY <3>1
    <3>3. b \in Int /\ b <= Stable
      BY <3>2, BackoffFacts
    <3>4. /\ age'[s] = IF age[s] + 1 < Stable + 1 THEN age[s] + 1 ELSE Stable + 1
          /\ due'[s] = IF due[s] > 0 THEN due[s] - 1 ELSE due[s]
          /\ age[s] \in Nat /\ due[s] \in Int /\ Stable \in Nat
          /\ restart_count' = restart_count
      BY <2>1, Durations DEF Smaller
    <3> HIDE DEF b
    <3>5. /\ due'[s] > 0 => age'[s] + due'[s] >= b
          /\ due'[s] <= 0 => age'[s] >= b
      BY <3>1, <3>3, <3>4
    <3> QED  BY <3>1, <3>4, <3>5 DEF b
  <2> QED  BY <2>2, <2>3, <2>4, <2>5 DEF SpacingInv
<1>20. ASSUME NEW p \in Pids, NEW reason \in Reasons, ProcessEnds(p, reason) PROVE Inv'
  <2>1. /\ life[p] \in {"alive", "killed"}
        /\ life' = [life EXCEPT ![p] = "zombie"]
        /\ why' = [why EXCEPT ![p] = reason]
        /\ lastExit' = IF owner[p] \in Services
                          THEN [lastExit EXCEPT ![owner[p]] = reason] ELSE lastExit
        /\ UNCHANGED <<owner, adopted, services, control, start_order, shutdown>>
    BY <1>20 DEF ProcessEnds
  <2>2. OneProcess' /\ PidInv' /\ SpacingInv'
    BY <2>1 DEF OneProcess, PidInv, SpacingInv
  <2>3. OwnerInv' /\ LocalsInv' /\ PhaseInv'
    BY <2>1 DEF OwnerInv, LocalsInv, PhaseInv
  <2>4. ReasonInv'
    <3>1. ASSUME NEW q \in Pids, owner[q] \in Services, life'[q] = "zombie"
          PROVE  why'[q] = lastExit'[owner[q]]
      BY <2>1, <3>1 DEF ReasonInv, OneProcess
    <3>2. ASSUME NEW s \in Services, owner[p] = s
          PROVE  /\ state[s] # "waitingrestart"
                 /\ ~(pid[s] # NoPid /\ InBatch(reaped, pid[s]))
      <4>1. state[s] # "waitingrestart" /\ ~InBatch(reaped, p)
        BY <3>2 DEF OwnerInv
      <4>2. pid[s] = p \/ Stopping
        BY <3>2 DEF OwnerInv
      <4>3. Stopping => ~InBatch(reaped, pid[s])
        BY DEF LocalsInv, InBatch
      <4> QED  BY <4>1, <4>2, <4>3
    <3>3. \A s \in Services : owner[p] # s => lastExit'[s] = lastExit[s]
      BY <2>1
    <3>4. ExitJudged'
      BY <2>1, <3>2, <3>3 DEF ReasonInv, ExitJudged, ShouldRestart
    <3>5. \A s \in Services : pid[s] # NoPid /\ InBatch(reaped, pid[s]) =>
            /\ lastExit'[s] = lastExit[s]
            /\ \E i \in DOMAIN reaped :
                 /\ reaped[i] = [pid |-> pid[s], reason |-> lastExit[s]]
                 /\ \A j \in DOMAIN reaped : j < i => reaped[j].pid # pid[s]
      BY <3>2, <3>3 DEF ReasonInv
    <3> QED  BY <2>1, <3>1, <3>4, <3>5 DEF ReasonInv
  <2> QED  BY <2>2, <2>3, <2>4
<1>21. ASSUME NEW p \in Pids, Adopt(p) PROVE Inv'
  <2>1. /\ life[p] = "free" /\ life' = [life EXCEPT ![p] = "alive"]
        /\ UNCHANGED <<owner, why, services, control, start_order, lastExit>>
    BY <1>21 DEF Adopt
  <2>2. OneProcess' /\ PidInv' /\ SpacingInv'
    BY <2>1 DEF OneProcess, PidInv, SpacingInv
  <2>3. OwnerInv' /\ LocalsInv' /\ PhaseInv'
    BY <2>1 DEF OwnerInv, LocalsInv, PhaseInv
  <2>4. ReasonInv'
    BY <2>1 DEF ReasonInv, ExitJudged, ShouldRestart
  <2> QED  BY <2>2, <2>3, <2>4
<1>22. CASE UNCHANGED vars
  <2>1. Bookkeeping'
    BY <1>22, QuietStep DEF vars
  <2>2. LocalsInv' /\ PhaseInv'
    BY <1>22 DEF vars, LocalsInv, PhaseInv
  <2> QED  BY <2>1, <2>2 DEF Bookkeeping
<1> QED
  BY <1>3, <1>4, <1>5, <1>6, <1>7, <1>8, <1>9, <1>10, <1>11, <1>12, <1>13,
     <1>14, <1>15, <1>16, <1>17, <1>18, <1>19, <1>20, <1>21, <1>22
  DEF Next, Nulld

(* nulld and the process table agree as Inv says, whatever the order of    *)
(* exits, orphans, ticks and signals.                                      *)
THEOREM InvHolds == Spec => []Inv
<1> QED  BY TypeCorrect, InvInit, InvStep, PTL DEF Spec

-----------------------------------------------------------------------------
(* supervisor.rs:157-226.  No service ever has two processes. *)
THEOREM OneProcessHolds == Spec => []OneProcess
<1>1. Inv => OneProcess
  BY DEF Inv
<1> QED  BY <1>1, InvHolds, PTL

(* supervisor.rs:250-280.  stop_all signals and waits for children of      *)
(* nulld only, never for a pid that has been given to another process.     *)
THEOREM SignalsOwnChildHolds == Spec => []SignalsOwnChild
<1>1. TypeOK /\ Inv => SignalsOwnChild
  <2> SUFFICES ASSUME TypeOK, Inv PROVE SignalsOwnChild
    OBVIOUS
  <2> USE DEF TypeOK, Inv
  <2>1. ASSUME pc = "stop", NEW s \in Services, pid[s] # NoPid
        PROVE  owner[pid[s]] = s /\ life[pid[s]] # "free"
    <3>1. pid[s] \in Pids /\ ~InBatch(reaped, pid[s])
      BY <2>1 DEF LocalsInv, InBatch
    <3>2. owner[pid[s]] = s
      BY <2>1, <3>1 DEF PidInv
    <3> QED  BY <3>1, <3>2 DEF OwnerInv
  <2>2. ASSUME pc = "wait"
        PROVE  owner[target] = start_order[idx] /\ life[target] # "free"
    <3>1. target \in Pids /\ idx \in DOMAIN start_order
      BY <2>2 DEF LocalsInv
    <3>2. owner[target] = start_order[idx] /\ start_order[idx] \in Services
      BY <2>2, <3>1, OrderFacts DEF PhaseInv
    <3> QED  BY <3>1, <3>2 DEF OwnerInv
  <2> QED  BY <2>1, <2>2 DEF SignalsOwnChild
<1> QED  BY <1>1, TypeCorrect, InvHolds, PTL

(* supervisor.rs:244-288.  At the reboot every process of a service has    *)
(* ended or has a SIGKILL on its way.                                      *)
THEOREM CleanShutdownHolds == Spec => []CleanShutdown
<1>1. TypeOK /\ Inv => CleanShutdown
  <2> SUFFICES ASSUME TypeOK, Inv, pc = "off", NEW p \in Pids, owner[p] \in Services
               PROVE  life[p] # "alive"
    BY DEF CleanShutdown
  <2> USE DEF TypeOK, Inv
  <2>1. idx = 0 /\ target = NoPid
    BY DEF LocalsInv
  <2>2. PICK i \in 1 .. N : start_order[i] = owner[p]
    BY OrderFacts
  <2>3. i \in DOMAIN start_order /\ i > idx
    BY <2>1, <2>2, OrderFacts
  <2>4. pid[owner[p]] = NoPid
    BY <2>2, <2>3 DEF PhaseInv, Stopping
  <2> QED  BY <2>1, <2>4, ProcessIds DEF OwnerInv
<1> QED  BY <1>1, TypeCorrect, InvHolds, PTL

(* A dependency is earlier in the order. *)
LEMMA NeedsEarlier ==
  ASSUME NEW o \in StartOrders, NEW i \in 1 .. N, NEW d \in Needs[o[i]]
  PROVE  \E j \in 1 .. N : j < i /\ o[j] = d
BY OrderFacts, Zenon

(* supervisor.rs:243-246.  A service is stopped only when nothing that     *)
(* needs it runs any more: the start order, walked backwards.              *)
THEOREM StopOrderHolds == Spec => []StopOrder
<1>1. TypeOK /\ Inv => StopOrder
  <2> SUFFICES ASSUME TypeOK, Inv, pc = "wait", NEW p \in Pids, owner[p] \in Services,
                      start_order[idx] \in Needs[owner[p]]
               PROVE  life[p] # "alive"
    BY DEF StopOrder
  <2> USE DEF TypeOK, Inv
  <2>1. idx \in 1 .. N
    BY OrderFacts DEF LocalsInv
  <2>2. PICK i \in 1 .. N : start_order[i] = owner[p]
    BY OrderFacts
  <2>3. PICK j \in 1 .. N : j < i /\ start_order[j] = start_order[idx]
    <3>1. start_order \in StartOrders
      OBVIOUS
    <3> HIDE DEF TypeOK, Inv
    <3>2. start_order[idx] \in Needs[start_order[i]]
      BY <2>2
    <3> QED  BY <2>2, <3>1, <3>2, NeedsEarlier
  <2>4. j = idx
    BY <2>1, <2>3, OrderFacts
  <2>5. i \in DOMAIN start_order /\ i > idx
    BY <2>2, <2>3, <2>4, OrderFacts
  <2>6. pid[owner[p]] = NoPid
    BY <2>2, <2>5 DEF PhaseInv, Stopping
  <2>7. target # p
    <3>1. owner[target] = start_order[idx]
      BY DEF PhaseInv
    <3>2. i # idx
      BY <2>3, <2>4
    <3>3. start_order[i] # start_order[idx]
      BY <2>1, <3>2, OrderFacts
    <3> QED  BY <2>2, <3>1, <3>3
  <2> QED  BY <2>6, <2>7, ProcessIds DEF OwnerInv
<1> QED  BY <1>1, TypeCorrect, InvHolds, PTL

(* supervisor.rs:157-179.  Each exit is judged by the restart policy of    *)
(* the service it belongs to, with its own exit status.                    *)
THEOREM ExitJudgedHolds == Spec => []ExitJudged
<1>1. Inv => ExitJudged
  BY DEF Inv, ReasonInv
<1> QED  BY <1>1, InvHolds, PTL

(* Only start_service gives a service a pid. *)
LEMMA PidGained ==
  ASSUME TypeOK, [Next]_vars, NEW s \in Services, pid[s] = NoPid, pid'[s] # NoPid
  PROVE  \/ pc = "start" /\ idx <= Len(start_order) /\ s = start_order[idx]
         \/ pc = "restart" /\ s \in ready
<1> USE DEF TypeOK, kernel, services, control
<1>1. ASSUME NEW t, NEW p \in Pids, Spawned(t, p) PROVE s = t
  BY <1>1 DEF Spawned
<1>2. ASSUME NEW t, SpawnFailed(t) PROVE FALSE
  BY <1>2 DEF SpawnFailed
<1>3. CASE StartAll
  BY <1>1, <1>2, <1>3 DEF StartAll
<1>4. ASSUME NEW t \in ready, Restart(t) PROVE pc = "restart" /\ s \in ready
  BY <1>1, <1>2, <1>4 DEF Restart
<1>5. ASSUME NEW t \in Services, HandleServiceExit(t) PROVE FALSE
  BY <1>5 DEF HandleServiceExit
<1>6. ASSUME StopTerm \/ StopReaped \/ StopKill PROVE FALSE
  <2>1. pid' = pid \/ \E t : pid' = [pid EXCEPT ![t] = NoPid]
    BY <1>6 DEF StopTerm, StopReaped, StopKill, Stopped
  <2> QED  BY <2>1
<1>7. ASSUME NEW p \in Pids, NEW reason \in Reasons,
             Reap(p) \/ ProcessEnds(p, reason) \/ Adopt(p) PROVE FALSE
  BY <1>7 DEF Reap, ProcessEnds, Adopt
<1>8. CASE \/ AllStarted \/ CheckFlag \/ ReapDone \/ HandleOrphanExit \/ CollectDue
           \/ PollControl \/ StopSkip \/ PowerOff \/ Tick \/ ShutdownSignal \/ UNCHANGED vars
  BY <1>8 DEF AllStarted, CheckFlag, ReapDone, HandleOrphanExit, CollectDue,
    PollControl, StopSkip, PowerOff, Tick, ShutdownSignal, vars
<1> QED
  BY <1>3, <1>4, <1>5, <1>6, <1>7, <1>8 DEF Next, Nulld, Reasons

(* supervisor.rs:181-226.  A service is not started again before the       *)
(* backoff its count of restarts asks for has passed since its last start. *)
THEOREM RestartsSpacedHolds == Spec => RestartsSpaced
<1>1. ASSUME TypeOK, Inv, [Next]_vars, NEW s \in Services,
             pid[s] = NoPid, pid'[s] # NoPid, restart_count[s] > 0
      PROVE  age[s] >= calculate_backoff(restart_count[s] - 1)
  <2>1. CASE pc = "start"
    BY <1>1, <2>1 DEF Inv, PhaseInv
  <2>2. CASE pc = "restart" /\ s \in ready
    BY <1>1, <2>2 DEF Inv, PhaseInv, SpacingInv
  <2> QED  BY <1>1, <2>1, <2>2, PidGained
<1>2. TypeOK /\ Inv /\ [Next]_vars =>
        [\A s \in Services :
           pid[s] = NoPid /\ pid'[s] # NoPid /\ restart_count[s] > 0
             => age[s] >= calculate_backoff(restart_count[s] - 1)]_vars
  BY <1>1
<1> QED  BY <1>2, TypeCorrect, InvHolds, PTL DEF Spec, RestartsSpaced
=============================================================================
