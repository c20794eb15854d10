----------------------------- MODULE CageProofs -----------------------------
(***************************************************************************)
(* cage's map of VMs and the process table agree, for any number of        *)
(* agents and pids, any health checks and any end of either daemon.        *)
(***************************************************************************)
EXTENDS Cage, FiniteSetTheorems, TLAPS

(* Agent a is on the way to its health restart. *)
Waits(jobs, a) == \E i \in DOMAIN jobs : jobs[i] = Job("unhealthy", a)

(* Every VM with too many failures is about to be stopped, so the next     *)
(* sweep counts from below the limit.                                      *)
FailuresInv ==
  /\ pc \in {"sweep", "down"} => todo = <<>>
  /\ \A a \in Agents : failures[a] = MaxFailures => Waits(todo, a)

Inv == TypeOK /\ TracksOwnVm /\ NoStrayVm /\ FailuresInv

-----------------------------------------------------------------------------
(* What is left of todo after its first job is done. *)
LEMMA RestOfTodo ==
  ASSUME NEW jobs \in Seq(Jobs), jobs # <<>>
  PROVE  /\ Head(jobs) \in Jobs /\ Tail(jobs) \in Seq(Jobs)
         /\ \A x \in Jobs : <<x>> \o Tail(jobs) \in Seq(Jobs)
         /\ \A a \in Agents : Waits(jobs, a) /\ Head(jobs) # Job("unhealthy", a)
              => /\ Waits(Tail(jobs), a)
                 /\ \A x \in Jobs : Waits(<<x>> \o Tail(jobs), a)
<1>1. Head(jobs) \in Jobs /\ Tail(jobs) \in Seq(Jobs) /\ Head(jobs) = jobs[1]
  OBVIOUS
<1>2. \A x \in Jobs : <<x>> \o Tail(jobs) \in Seq(Jobs)
  BY <1>1
<1>3. ASSUME NEW a \in Agents, Waits(jobs, a), Head(jobs) # Job("unhealthy", a)
      PROVE  Waits(Tail(jobs), a) /\ \A x \in Jobs : Waits(<<x>> \o Tail(jobs), a)
  <2>1. PICK i \in DOMAIN jobs : jobs[i] = Job("unhealthy", a)
    BY <1>3 DEF Waits
  <2>2. i \in 2 .. Len(jobs)
    BY <1>1, <1>3, <2>1
  <2>3. i - 1 \in DOMAIN Tail(jobs) /\ Tail(jobs)[i - 1] = jobs[i]
    BY <2>2
  <2>4. \A x \in Jobs : /\ i \in DOMAIN (<<x>> \o Tail(jobs))
                        /\ (<<x>> \o Tail(jobs))[i] = jobs[i]
    BY <1>1, <2>2, <2>3
  <2> QED  BY <2>1, <2>3, <2>4 DEF Waits
<1> QED  BY <1>1, <1>2, <1>3

(* An order of a finite set of agents, as jobs: a sequence with all.       *)
LEMMA OrderAsJobs ==
  ASSUME NEW S \in SUBSET Agents, NEW s \in SetToSeqs(S),
         NEW j \in {"start", "unhealthy"}
  PROVE  /\ [i \in DOMAIN s |-> Job(j, s[i])] \in Seq(Jobs)
         /\ \A a \in S : \E i \in DOMAIN s : Job(j, s[i]) = Job(j, a)
<1> DEFINE N == Cardinality(S)
<1>1. IsFiniteSet(S) /\ N \in Nat
  BY FS_Subset, FS_CardinalityType, VmMarkers
<1>2. s \in [1 .. N -> S] /\ DOMAIN s = 1 .. N /\ \A i, k \in 1 .. N : i # k => s[i] # s[k]
  BY DEF SetToSeqs
<1>3. \A a \in S : \E i \in 1 .. N : s[i] = a
  <2>1. IsFiniteSet(1 .. N) /\ Cardinality(1 .. N) = N
    BY <1>1, FS_Interval
  <2>2. s \in Injection(1 .. N, S)
    BY <1>2 DEF Injection, IsInjective
  <2>3. s \in Surjection(1 .. N, S)
    BY <1>1, <2>1, <2>2, FS_Injection
  <2> QED  BY <2>3 DEF Surjection
<1>4. \A i \in 1 .. N : Job(j, s[i]) \in Jobs
  BY <1>2 DEF Job, Jobs
<1>5. [i \in DOMAIN s |-> Job(j, s[i])] \in Seq(Jobs)
  BY <1>1, <1>2, <1>4
<1> QED  BY <1>2, <1>3, <1>5

(* A step of egress keeps its variables in their types. *)
LEMMA EgressType ==
  ASSUME EgressTypeOK, EgressStart \/ EgressServes \/ EgressCrash
  PROVE  EgressTypeOK'
<1> USE DEF EgressTypeOK
<1>1. ASSUME NEW entries \in [Agents -> {NoEntry} \cup SUBSET Ips], RegenerateAndApply(entries)
      PROVE  kernel' \subseteq Ips /\ stale' \in BOOLEAN
  <2>1. Ruleset(entries) \subseteq Ips
    BY DEF Ruleset
  <2> QED  BY <1>1, <2>1 DEF RegenerateAndApply
<1>2. CASE EgressStart
  BY <1>1, <1>2 DEF EgressStart
<1>3. CASE EgressServes
  <2>1. /\ inbox # <<>> /\ inbox' = Tail(inbox) /\ egress' = egress
        /\ HandleAddAgent \/ HandleRemoveAgent \/ HandleRemoveUnknown
    BY <1>3 DEF EgressServes, HandleAddAgent, HandleRemoveAgent, HandleRemoveUnknown, Take
  <2>2. Head(inbox) \in Requests /\ inbox' \in Seq(Requests) /\ Len(inbox') <= Len(inbox)
    BY <2>1
  <2>3. Len(inbox') <= MaxInbox
    BY <2>1, <2>2, InboxBound
  <2>4. agents' \in [Agents -> {NoEntry} \cup SUBSET Ips]
    BY <2>1, <2>2, Addresses
    DEF HandleAddAgent, HandleRemoveAgent, HandleRemoveUnknown, Requests, Resolved
  <2> QED  BY <1>1, <2>1, <2>2, <2>3, <2>4
           DEF HandleAddAgent, HandleRemoveAgent, HandleRemoveUnknown
<1>4. CASE EgressCrash
  BY <1>4, InboxBound DEF EgressCrash, NoAgents
<1> QED  BY <1>2, <1>3, <1>4

-----------------------------------------------------------------------------
(* FailuresInv of the next state. *)
LEMMA FailuresNext ==
  FailuresInv' <=> /\ pc' \in {"sweep", "down"} => todo' = <<>>
                   /\ \A a \in Agents : failures'[a] = MaxFailures => Waits(todo', a)
BY DEF FailuresInv, Waits

(* A step that leaves the map and the processes alone. *)
LEMMA SameVms ==
  ASSUME TracksOwnVm, NoStrayVm, vms' = vms, proc' = proc
  PROVE  TracksOwnVm' /\ NoStrayVm'
BY DEF TracksOwnVm, NoStrayVm, Tracked, Alive

(* A step that leaves egress alone. *)
LEMMA SameEgress ==
  ASSUME EgressTypeOK, UNCHANGED egressVars
  PROVE  EgressTypeOK'
BY DEF EgressTypeOK, egressVars

(* stop_agent, of a VM that is tracked or of none. *)
LEMMA StopKeeps ==
  ASSUME TypeOK, TracksOwnVm, NoStrayVm, NEW a \in Agents, StopAgent(a)
  PROVE  /\ vms' \in [Agents -> Pids \cup {NoPid}]
         /\ failures' \in [Agents -> 0..MaxFailures]
         /\ proc' \in [Pids -> Processes \cup {Free}]
         /\ TracksOwnVm' /\ NoStrayVm'
<1> USE DEF TypeOK
<1>1. /\ vms' = [vms EXCEPT ![a] = NoPid] /\ failures' = [failures EXCEPT ![a] = 0]
      /\ proc' = [proc EXCEPT ![vms[a]].state = IF @ = "runs" THEN "stopping" ELSE @]
  BY DEF StopAgent
<1>2. /\ vms' \in [Agents -> Pids \cup {NoPid}]
      /\ failures' \in [Agents -> 0..MaxFailures]
  BY <1>1, VmMarkers
<1>3. CASE a \notin Tracked
  <2>1. proc' = proc /\ vms' = vms
    BY <1>1, <1>3, VmMarkers DEF Tracked
  <2> QED  BY <1>2, <2>1, SameVms
<1>4. CASE a \in Tracked
  <2> DEFINE p == vms[a]
  <2>1. /\ p \in Pids /\ proc[p] # Free /\ proc[p] \in Processes
        /\ proc[p].child /\ proc[p].agent = a /\ proc[p].state # "stopping"
    BY <1>4 DEF Tracked, TracksOwnVm
  <2>2. /\ \A q \in Pids \ {p} : proc'[q] = proc[q]
        /\ proc'[p] = [proc[p] EXCEPT !.state = IF @ = "runs" THEN "stopping" ELSE @]
        /\ DOMAIN proc' = Pids
    BY <1>1, <2>1
  <2>3. /\ proc'[p] \in Processes /\ proc'[p].agent = a
        /\ proc'[p].state \notin {"runs"}
        /\ proc'[p].state # proc[p].state => proc'[p].state = "stopping"
    <3>1. proc[p] \in Processes /\ proc[p].agent = a
      BY <2>1
    <3> HIDE DEF TypeOK
    <3> QED  BY <2>2, <3>1 DEF Processes
  <2>4. proc' \in [Pids -> Processes \cup {Free}]
    <3>1. \A q \in Pids : proc'[q] \in Processes \cup {Free}
      BY <2>2, <2>3
    <3>2. proc' = [q \in Pids |-> proc'[q]]
      BY <1>1
    <3> QED  BY <3>1, <3>2
  <2>5. TracksOwnVm'
    <3> SUFFICES ASSUME NEW b \in Agents, vms'[b] # NoPid
                 PROVE  /\ proc'[vms'[b]] # Free /\ proc'[vms'[b]].child
                        /\ proc'[vms'[b]].agent = b /\ proc'[vms'[b]].state # "stopping"
      BY DEF TracksOwnVm, Tracked
    <3>1. b # a /\ vms'[b] = vms[b] /\ b \in Tracked
      BY <1>1 DEF Tracked
    <3>2. vms[b] \in Pids /\ vms[b] # p
      BY <2>1, <3>1 DEF TracksOwnVm, Tracked
    <3> QED  BY <2>2, <3>1, <3>2 DEF TracksOwnVm
  <2>6. NoStrayVm'
    <3> SUFFICES ASSUME NEW q \in Pids, proc'[q] # Free, proc'[q].child,
                        proc'[q].state # "stopping", Alive(q)'
                 PROVE  vms'[proc'[q].agent] = q
      BY DEF NoStrayVm
    <3>1. q # p
      BY <2>3 DEF Alive
    <3>2. proc'[q] = proc[q] /\ Alive(q) /\ proc[q] \in Processes
      BY <2>2, <3>1 DEF Alive
    <3>3. vms[proc[q].agent] = q /\ proc[q].agent \in Agents
      BY <3>2 DEF NoStrayVm, Processes
    <3> QED  BY <1>1, <3>1, <3>2, <3>3
  <2> QED  BY <1>2, <2>4, <2>5, <2>6
<1> QED  BY <1>3, <1>4

-----------------------------------------------------------------------------
LEMMA InvInit ==
  ASSUME Init
  PROVE  Inv
<1> USE DEF Init, EgressInit, NoVms, NoAgents
<1>1. TypeOK
  BY VmMarkers, InboxBound DEF TypeOK, EgressTypeOK
<1>2. TracksOwnVm /\ NoStrayVm
  BY DEF TracksOwnVm, NoStrayVm, Tracked
<1>3. FailuresInv
  BY VmMarkers DEF FailuresInv
<1> QED  BY <1>1, <1>2, <1>3 DEF Inv

(* The daemon starts a VM, or fails to. *)
LEMMA LaunchKeeps ==
  ASSUME Inv, Launch \/ LaunchFails
  PROVE  Inv'
<1> USE DEF Inv, TypeOK
<1> DEFINE a == Head(todo).agent
<1>1. /\ todo # <<>> /\ Head(todo) \in Jobs /\ a \in Agents
      /\ \A b \in Agents : Head(todo) # Job("unhealthy", b)
      /\ pc' = pc /\ pc \notin {"sweep", "down"}
  <2>1. todo # <<>> /\ Head(todo).job \in {"start", "restart", "health-restart"}
    BY DEF Launch, LaunchFails, Starting
  <2>2. Head(todo) \in Jobs
    BY <2>1, RestOfTodo
  <2>3. a \in Agents /\ \A b \in Agents : Head(todo) # Job("unhealthy", b)
    BY <2>1, <2>2 DEF Jobs, Job
  <2> QED  BY <2>1, <2>2, <2>3 DEF Launch, LaunchFails, FailuresInv
<1>2. EgressTypeOK'
  BY SameEgress DEF Launch, LaunchFails
<1>3. CASE LaunchFails
  <2>1. /\ todo' = Tail(todo) /\ UNCHANGED <<store, tracking, missed>>
        /\ abandoned' \subseteq Agents
    BY <1>1, <1>3 DEF LaunchFails
  <2>2. TracksOwnVm' /\ NoStrayVm'
    BY <2>1, SameVms DEF tracking
  <2>3. FailuresInv'
    BY <1>1, <2>1, RestOfTodo, FailuresNext DEF FailuresInv, tracking
  <2> QED  BY <1>1, <1>2, <2>1, <2>2, <2>3, RestOfTodo DEF store, tracking
<1>4. CASE Launch
  <2>1. /\ a \notin Tracked /\ failures' = [failures EXCEPT ![a] = 0]
        /\ todo' = <<Job("add", a)>> \o Tail(todo)
        /\ abandoned' \subseteq Agents /\ UNCHANGED <<store, missed>>
    BY <1>4 DEF Launch
  <2>2. PICK p \in Pids :
          /\ proc[p] = Free
          /\ proc' = [proc EXCEPT ![p] = [agent |-> a, state |-> "runs", child |-> TRUE]]
          /\ vms' = [vms EXCEPT ![a] = p]
    BY <1>4 DEF Launch
  <2>3. /\ Job("add", a) \in Jobs /\ proc'[p] \in Processes
        /\ proc'[p] = [agent |-> a, state |-> "runs", child |-> TRUE]
        /\ \A q \in Pids \ {p} : proc'[q] = proc[q]
    BY <1>1, <2>2 DEF Job, Jobs, Processes
  <2>4. /\ todo' \in Seq(Jobs)
        /\ vms' \in [Agents -> Pids \cup {NoPid}]
        /\ failures' \in [Agents -> 0..MaxFailures]
        /\ proc' \in [Pids -> Processes \cup {Free}]
    BY <1>1, <2>1, <2>2, <2>3, RestOfTodo, VmMarkers
  <2>5. TracksOwnVm'
    <3> SUFFICES ASSUME NEW b \in Agents, vms'[b] # NoPid
                 PROVE  /\ proc'[vms'[b]] # Free /\ proc'[vms'[b]].child
                        /\ proc'[vms'[b]].agent = b /\ proc'[vms'[b]].state # "stopping"
      BY DEF TracksOwnVm, Tracked
    <3>1. CASE b = a
      BY <1>1, <2>2, <2>3, <3>1, VmMarkers
    <3>2. CASE b # a
      <4>1. vms'[b] = vms[b] /\ b \in Tracked
        BY <2>2, <3>2 DEF Tracked
      <4>2. vms[b] \in Pids /\ vms[b] # p
        BY <2>2, <4>1 DEF TracksOwnVm, Tracked
      <4> QED  BY <2>3, <4>1, <4>2 DEF TracksOwnVm
    <3> QED  BY <3>1, <3>2
  <2>6. NoStrayVm'
    <3> SUFFICES ASSUME NEW q \in Pids, proc'[q] # Free, proc'[q].child,
                        proc'[q].state # "stopping", Alive(q)'
                 PROVE  vms'[proc'[q].agent] = q
      BY DEF NoStrayVm
    <3>1. CASE q = p
      BY <1>1, <2>2, <2>3, <3>1
    <3>2. CASE q # p
      <4>1. proc'[q] = proc[q] /\ Alive(q) /\ proc[q] \in Processes
        BY <2>3, <3>2 DEF Alive
      <4>2. vms[proc[q].agent] = q /\ proc[q].agent \in Agents
        BY <4>1 DEF NoStrayVm, Processes
      <4>3. proc[q].agent # a
        BY <2>1, <4>2, VmMarkers DEF Tracked
      <4> QED  BY <2>2, <4>1, <4>2, <4>3
    <3> QED  BY <3>1, <3>2
  <2>7. FailuresInv'
    <3>1. \A b \in Agents : failures'[b] = MaxFailures => b # a /\ failures[b] = MaxFailures
      BY <1>1, <2>1, VmMarkers
    <3> QED  BY <1>1, <2>1, <2>3, <3>1, RestOfTodo, FailuresNext DEF FailuresInv
  <2> QED  BY <1>1, <1>2, <2>1, <2>4, <2>5, <2>6, <2>7 DEF store
<1> QED  BY <1>3, <1>4

(* The daemon notifies egress, or finds its socket closed. *)
LEMMA NotifyKeeps ==
  ASSUME Inv, Notify \/ NotifyFails
  PROVE  Inv'
<1> USE DEF Inv, TypeOK
<1>1. /\ todo # <<>> /\ Head(todo) \in Jobs /\ Head(todo).job \in {"add", "remove"}
      /\ Head(todo).agent \in Agents
      /\ \A b \in Agents : Head(todo) # Job("unhealthy", b)
      /\ todo' = Tail(todo) /\ missed' \subseteq Agents
      /\ pc' = pc /\ pc \notin {"sweep", "down"}
      /\ UNCHANGED <<store, tracking, abandoned>>
  <2>1. todo # <<>> /\ Head(todo).job \in {"add", "remove"}
    BY DEF Notify, NotifyFails
  <2>2. Head(todo) \in Jobs
    BY <2>1, RestOfTodo
  <2>3. /\ Head(todo).agent \in Agents
        /\ \A b \in Agents : Head(todo) # Job("unhealthy", b)
    BY <2>1, <2>2 DEF Jobs, Job
  <2> QED  BY <2>1, <2>2, <2>3 DEF Notify, NotifyFails, FailuresInv
<1>2. EgressTypeOK'
  <2>1. CASE Notify
    <3>1. Head(todo) \in Requests
      BY <1>1 DEF Jobs, Requests
    <3>2. inbox' \in Seq(Requests) /\ Len(inbox') = Len(inbox) + 1 /\ Len(inbox) < MaxInbox
      BY <2>1, <3>1 DEF Notify, EgressTypeOK
    <3> QED  BY <2>1, <3>2, InboxBound DEF Notify, EgressTypeOK
  <2>2. CASE NotifyFails
    BY <2>2, SameEgress DEF NotifyFails
  <2> QED  BY <2>1, <2>2
<1>3. TracksOwnVm' /\ NoStrayVm'
  BY <1>1, SameVms DEF tracking
<1>4. FailuresInv'
  BY <1>1, RestOfTodo, FailuresNext DEF FailuresInv, tracking
<1> QED  BY <1>1, <1>2, <1>3, <1>4, RestOfTodo DEF store, tracking

(* wait4 returns a child that ended. *)
LEMMA ReapKeeps ==
  ASSUME Inv, NEW p \in Pids, Reap(p)
  PROVE  Inv'
<1> USE DEF Inv, TypeOK
<1>1. /\ pc = "reap" /\ pc' = pc /\ todo = <<>> /\ Zombie(p) /\ proc[p].child
      /\ proc' = [proc EXCEPT ![p] = Free] /\ UNCHANGED <<store, history, egressVars>>
  BY DEF Reap
<1>2. /\ proc' \in [Pids -> Processes \cup {Free}] /\ proc'[p] = Free
      /\ \A q \in Pids \ {p} : proc'[q] = proc[q]
  BY <1>1
<1>3. EgressTypeOK'
  BY <1>1, SameEgress
<1>4. \A b \in Agents : failures[b] # MaxFailures
  BY <1>1 DEF FailuresInv, Waits
<1>5. CASE \A a \in Agents : vms[a] # p
  <2>1. UNCHANGED <<vms, failures, todo>>
    BY <1>5 DEF Reap
  <2>2. TracksOwnVm'
    BY <1>2, <1>5, <2>1 DEF TracksOwnVm, Tracked
  <2>3. NoStrayVm'
    BY <1>2, <2>1 DEF NoStrayVm, Alive
  <2>4. FailuresInv'
    BY <1>1, <1>4, <2>1, FailuresNext
  <2> QED  BY <1>1, <1>2, <1>3, <2>1, <2>2, <2>3, <2>4 DEF store, history
<1>6. CASE \E a \in Agents : vms[a] = p
  <2>1. PICK a \in Agents :
          /\ vms[a] = p
          /\ vms' = [vms EXCEPT ![a] = NoPid] /\ failures' = [failures EXCEPT ![a] = 0]
          /\ todo' \in {<<Job("remove", a), Job("restart", a)>>, <<Job("remove", a)>>}
    BY <1>6 DEF Reap
  <2>2. /\ vms' \in [Agents -> Pids \cup {NoPid}]
        /\ failures' \in [Agents -> 0..MaxFailures]
        /\ todo' \in Seq(Jobs)
    <3>1. Job("remove", a) \in Jobs /\ Job("restart", a) \in Jobs
      BY DEF Jobs, Job
    <3>2. /\ <<Job("remove", a)>> \in Seq(Jobs)
          /\ <<Job("remove", a), Job("restart", a)>> \in Seq(Jobs)
      BY <3>1
    <3>3. todo' \in Seq(Jobs)
      BY <2>1, <3>2
    <3> QED  BY <2>1, <3>3, VmMarkers
  <2>3. proc[p].agent = a /\ a \in Tracked
    BY <2>1, VmMarkers DEF TracksOwnVm, Tracked
  <2>4. TracksOwnVm'
    <3> SUFFICES ASSUME NEW b \in Agents, vms'[b] # NoPid
                 PROVE  /\ proc'[vms'[b]] # Free /\ proc'[vms'[b]].child
                        /\ proc'[vms'[b]].agent = b /\ proc'[vms'[b]].state # "stopping"
      BY DEF TracksOwnVm, Tracked
    <3>1. b # a /\ vms'[b] = vms[b] /\ b \in Tracked
      BY <2>1 DEF Tracked
    <3>2. vms[b] \in Pids /\ vms[b] # p
      BY <2>3, <3>1 DEF TracksOwnVm, Tracked
    <3> QED  BY <1>2, <3>1, <3>2 DEF TracksOwnVm
  <2>5. NoStrayVm'
    <3> SUFFICES ASSUME NEW q \in Pids, proc'[q] # Free, proc'[q].child,
                        proc'[q].state # "stopping", Alive(q)'
                 PROVE  vms'[proc'[q].agent] = q
      BY DEF NoStrayVm
    <3>1. q # p /\ proc'[q] = proc[q] /\ Alive(q) /\ proc[q] \in Processes
      BY <1>2 DEF Alive
    <3>2. vms[proc[q].agent] = q /\ proc[q].agent \in Agents
      BY <3>1 DEF NoStrayVm, Processes
    <3> QED  BY <2>1, <3>1, <3>2
  <2>6. FailuresInv'
    BY <1>1, <1>4, <2>1, FailuresNext, VmMarkers
  <2> QED  BY <1>1, <1>2, <1>3, <2>2, <2>4, <2>5, <2>6 DEF store, history
<1> QED  BY <1>5, <1>6

(* A round of health checks, and the stop of what failed too often. *)
LEMMA HealthKeeps ==
  ASSUME Inv, Sweep \/ StopUnhealthy
  PROVE  Inv'
<1> USE DEF Inv, TypeOK
<1>1. CASE Sweep
  <2>1. /\ pc = "sweep" /\ pc' = "accept" /\ todo = <<>>
        /\ UNCHANGED <<store, vms, proc, history, egressVars>>
    BY <1>1 DEF Sweep, FailuresInv
  <2>2. \A b \in Agents : failures[b] \in 0 .. MaxFailures - 1
    BY <2>1, VmMarkers DEF FailuresInv, Waits
  <2>3. PICK due \in SUBSET (Watched \cap Tracked), bad \in SUBSET Agents :
          /\ failures' = [a \in Agents |-> IF a \in bad THEN failures[a] + 1
                                           ELSE IF a \in due THEN 0 ELSE failures[a]]
          /\ \E s \in SetToSeqs({a \in bad : failures[a] + 1 >= MaxFailures}) :
               todo' = [i \in DOMAIN s |-> Job("unhealthy", s[i])]
    BY <1>1 DEF Sweep, Tracked
  <2> DEFINE S == {a \in bad : failures[a] + 1 >= MaxFailures}
  <2>4. S \in SUBSET Agents
    BY DEF Tracked
  <2>5. PICK s \in SetToSeqs(S) : todo' = [i \in DOMAIN s |-> Job("unhealthy", s[i])]
    BY <2>3
  <2>6. todo' \in Seq(Jobs) /\ \A a \in S : Waits(todo', a)
    <3> HIDE DEF S
    <3>1. /\ [i \in DOMAIN s |-> Job("unhealthy", s[i])] \in Seq(Jobs)
          /\ \A a \in S : \E i \in DOMAIN s : Job("unhealthy", s[i]) = Job("unhealthy", a)
      BY <2>4, OrderAsJobs
    <3> QED  BY <2>5, <3>1 DEF Waits
  <2>7. /\ failures' \in [Agents -> 0..MaxFailures]
        /\ \A a \in Agents : failures'[a] = MaxFailures => a \in S
    BY <2>2, <2>3, VmMarkers
  <2>8. FailuresInv'
    BY <2>1, <2>6, <2>7, FailuresNext
  <2>9. TracksOwnVm' /\ NoStrayVm'
    BY <2>1, SameVms
  <2> QED  BY <2>1, <2>6, <2>7, <2>8, <2>9, SameEgress DEF store, history
<1>2. CASE StopUnhealthy
  <2> DEFINE a == Head(todo).agent
  <2>1. /\ todo # <<>> /\ Head(todo).job = "unhealthy" /\ StopAgent(a)
        /\ todo' = <<Job("health-restart", a)>> \o Tail(todo)
        /\ UNCHANGED <<pc, store, history, egressVars>>
    BY <1>2 DEF StopUnhealthy
  <2>2. Head(todo) \in Jobs
    BY <2>1, RestOfTodo
  <2>3. /\ a \in Agents /\ Job("health-restart", a) \in Jobs
        /\ \A b \in Agents : b # a => Head(todo) # Job("unhealthy", b)
    BY <2>1, <2>2 DEF Jobs, Job
  <2>4. /\ vms' \in [Agents -> Pids \cup {NoPid}]
        /\ failures' \in [Agents -> 0..MaxFailures]
        /\ proc' \in [Pids -> Processes \cup {Free}]
        /\ TracksOwnVm' /\ NoStrayVm'
    BY <2>1, <2>3, StopKeeps
  <2>5. \A b \in Agents : failures'[b] = MaxFailures => b # a /\ failures[b] = MaxFailures
    BY <2>1, <2>3, VmMarkers DEF StopAgent
  <2>6. FailuresInv'
    BY <2>1, <2>3, <2>5, RestOfTodo, FailuresNext DEF FailuresInv
  <2> QED  BY <2>1, <2>3, <2>4, <2>6, RestOfTodo, SameEgress DEF store, history
<1> QED  BY <1>1, <1>2

(* The other steps of the daemon: the start, the turns of the main loop,   *)
(* and the commands, which only find it with nothing left to do.           *)
LEMMA LoopKeeps ==
  ASSUME Inv, Boot \/ EndReap \/ EndAccept \/ Command
  PROVE  Inv'
<1> USE DEF Inv, TypeOK
<1>1. todo = <<>> /\ UNCHANGED egressVars
  BY DEF Boot, EndReap, EndAccept, Command, HandleStart, HandleStop, HandleDeploy,
         HandleDeployFails, FailuresInv, daemon
<1>2. \A a \in Agents : failures[a] # MaxFailures
  BY <1>1 DEF FailuresInv, Waits
<1>3. EgressTypeOK'
  BY <1>1, SameEgress
<1>4. CASE Boot
  <2>1. /\ pc' = "reap" /\ manifests' = installed
        /\ UNCHANGED <<installed, tracking, history>>
    BY <1>4 DEF Boot
  <2>2. PICK s \in SetToSeqs(installed) : todo' = [i \in DOMAIN s |-> Job("start", s[i])]
    BY <1>4 DEF Boot
  <2>3. todo' \in Seq(Jobs)
    BY <2>2, OrderAsJobs
  <2>4. TracksOwnVm' /\ NoStrayVm'
    BY <2>1, SameVms DEF tracking
  <2>5. FailuresInv'
    BY <1>2, <2>1, FailuresNext DEF tracking
  <2> QED  BY <1>3, <2>1, <2>3, <2>4, <2>5 DEF tracking, history
<1>5. CASE EndReap \/ EndAccept
  <2>1. /\ pc' \in {"sweep", "reap"} /\ todo' = <<>>
        /\ UNCHANGED <<store, tracking, history>>
    BY <1>1, <1>5 DEF EndReap, EndAccept
  <2>2. TracksOwnVm' /\ NoStrayVm'
    BY <2>1, SameVms DEF tracking
  <2>3. FailuresInv'
    BY <1>2, <2>1, FailuresNext DEF tracking
  <2> QED  BY <1>1, <1>3, <2>1, <2>2, <2>3 DEF store, tracking, history
<1>6. ASSUME NEW a \in Agents, HandleStart(a) \/ HandleDeploy(a) \/ HandleDeployFails(a)
      PROVE  Inv'
  <2>1. /\ pc = "accept" /\ pc' = pc /\ todo' \in {<<>>, <<Job("start", a)>>}
        /\ UNCHANGED <<tracking, history>>
        /\ installed' \subseteq Agents /\ manifests' \subseteq Agents
    BY <1>1, <1>6 DEF HandleStart, HandleDeploy, HandleDeployFails, daemon, store
  <2>2. Job("start", a) \in Jobs
    BY DEF Job, Jobs
  <2>3. todo' \in Seq(Jobs)
    <3>1. <<>> \in Seq(Jobs) /\ <<Job("start", a)>> \in Seq(Jobs)
      BY <2>2
    <3> QED  BY <2>1, <3>1
  <2>4. TracksOwnVm' /\ NoStrayVm'
    BY <2>1, SameVms DEF tracking
  <2>5. FailuresInv'
    BY <1>2, <2>1, FailuresNext DEF tracking
  <2> QED  BY <1>3, <2>1, <2>3, <2>4, <2>5 DEF tracking, history
<1>7. ASSUME NEW a \in Agents, HandleStop(a)
      PROVE  Inv'
  <2>1. /\ pc = "accept" /\ StopAgent(a) /\ todo' = <<Job("remove", a)>>
        /\ UNCHANGED <<pc, store, history>>
    BY <1>7 DEF HandleStop
  <2>2. Job("remove", a) \in Jobs
    BY DEF Job, Jobs
  <2>3. todo' \in Seq(Jobs)
    BY <2>1, <2>2
  <2>4. /\ vms' \in [Agents -> Pids \cup {NoPid}]
        /\ failures' \in [Agents -> 0..MaxFailures]
        /\ proc' \in [Pids -> Processes \cup {Free}]
        /\ TracksOwnVm' /\ NoStrayVm'
    BY <2>1, StopKeeps
  <2>5. FailuresInv'
    <3>1. failures' = [failures EXCEPT ![a] = 0]
      BY <2>1 DEF StopAgent
    <3> QED  BY <1>2, <2>1, <3>1, FailuresNext, VmMarkers
  <2> QED  BY <1>3, <2>1, <2>3, <2>4, <2>5 DEF store, history
<1> QED  BY <1>4, <1>5, <1>6, <1>7 DEF Command

(* A VM ends, or one of the daemons does. *)
LEMMA EndsKeep ==
  ASSUME Inv, (\E p \in Pids : Exit(p)) \/ CageCrash
  PROVE  Inv'
<1> USE DEF Inv, TypeOK
<1>1. ASSUME NEW p \in Pids, Exit(p)
      PROVE  Inv'
  <2>1. /\ Alive(p) /\ proc[p] \in Processes /\ proc[p] # Free
        /\ UNCHANGED <<daemon, store, vms, failures, history, egressVars>>
    BY <1>1 DEF Exit, Alive
  <2>2. /\ proc' \in [Pids -> Processes \cup {Free}]
        /\ \A q \in Pids \ {p} : proc'[q] = proc[q]
        /\ \/ proc'[p] = Free /\ ~proc[p].child
           \/ /\ proc[p].child /\ proc'[p] # Free
              /\ proc'[p].child /\ proc'[p].agent = proc[p].agent
              /\ proc'[p].state \in {"clean", "crashed", "killed"}
    <3>1. CASE proc' = [proc EXCEPT ![p] = Free] /\ ~proc[p].child
      BY <3>1
    <3>2. ASSUME NEW end \in {"clean", "crashed", "killed"}, proc[p].child,
                 proc' = [proc EXCEPT ![p].state = end]
          PROVE  <2>2!1 /\ <2>2!2 /\ <2>2!3
      <4>1. /\ proc'[p] = [proc[p] EXCEPT !.state = end]
            /\ [proc[p] EXCEPT !.state = end] \in Processes
        BY <2>1, <3>2 DEF Processes
      <4>2. /\ proc'[p].state = end /\ proc'[p].agent = proc[p].agent
            /\ proc'[p].child = proc[p].child
        BY <2>1, <4>1 DEF Processes
      <4> QED  BY <3>2, <4>1, <4>2, VmMarkers
    <3> QED  BY <1>1, <3>1, <3>2 DEF Exit
  <2>3. TracksOwnVm'
    BY <2>1, <2>2 DEF TracksOwnVm, Tracked
  <2>4. NoStrayVm'
    BY <2>1, <2>2 DEF NoStrayVm, Alive
  <2>5. FailuresInv'
    BY <2>1, FailuresNext DEF FailuresInv, daemon
  <2> QED  BY <2>1, <2>2, <2>3, <2>4, <2>5, SameEgress DEF daemon, store, history
<1>2. CASE CageCrash
  <2>1. /\ pc' = "down" /\ todo' = <<>> /\ manifests' = {} /\ vms' = NoVms
        /\ failures' = [a \in Agents |-> 0]
        /\ proc' = [p \in Pids |-> IF Alive(p) THEN [proc[p] EXCEPT !.child = FALSE] ELSE Free]
        /\ missed' = missed \cup Tracked \cup {todo[i].agent : i \in DOMAIN todo}
        /\ UNCHANGED <<installed, abandoned, egressVars>>
    BY <1>2 DEF CageCrash
  <2>2. \A p \in Pids : /\ proc'[p] \in Processes \cup {Free}
                        /\ proc'[p] # Free => ~proc'[p].child
    BY <2>1 DEF Alive, Processes
  <2>3. proc' \in [Pids -> Processes \cup {Free}]
    BY <2>1, <2>2
  <2>4. missed' \subseteq Agents
    <3>1. \A i \in DOMAIN todo : todo[i].agent \in Agents
      <4>1. \A i \in DOMAIN todo : todo[i] \in Jobs
        OBVIOUS
      <4> QED  BY <4>1 DEF Jobs
    <3> QED  BY <2>1, <3>1 DEF Tracked
  <2>5. TracksOwnVm' /\ NoStrayVm'
    BY <2>1, <2>2 DEF TracksOwnVm, NoStrayVm, Tracked, NoVms
  <2>6. FailuresInv'
    BY <2>1, FailuresNext, VmMarkers
  <2> QED  BY <2>1, <2>3, <2>4, <2>5, <2>6, SameEgress, VmMarkers DEF NoVms
<1> QED  BY <1>1, <1>2

(* A step of egress. *)
LEMMA EgressKeeps ==
  ASSUME Inv, EgressLoads \/ EgressWorks \/ EgressDies
  PROVE  Inv'
<1> USE DEF Inv, TypeOK
<1>1. /\ EgressStart \/ EgressServes \/ EgressCrash
      /\ UNCHANGED <<daemon, store, tracking, abandoned>> /\ missed' \subseteq Agents
  BY DEF EgressLoads, EgressWorks, EgressDies, cageVars, history
<1>2. EgressTypeOK'
  BY <1>1, EgressType
<1>3. TracksOwnVm' /\ NoStrayVm'
  BY <1>1, SameVms DEF tracking
<1>4. FailuresInv'
  BY <1>1, FailuresNext DEF FailuresInv, daemon, tracking
<1> QED  BY <1>1, <1>2, <1>3, <1>4 DEF daemon, store, tracking

LEMMA InvStep ==
  ASSUME Inv, [Next]_vars
  PROVE  Inv'
<1>1. CASE Daemon
  BY <1>1, LaunchKeeps, NotifyKeeps, ReapKeeps, HealthKeeps, LoopKeeps DEF Daemon
<1>2. CASE Command
  BY <1>2, LoopKeeps
<1>3. CASE (\E p \in Pids : Exit(p)) \/ CageCrash
  BY <1>3, EndsKeep
<1>4. CASE EgressLoads \/ EgressWorks \/ EgressDies
  BY <1>4, EgressKeeps
<1>5. CASE UNCHANGED vars
  <2>1. UNCHANGED <<daemon, store, tracking, history, egressVars>>
    BY <1>5 DEF vars, cageVars
  <2>2. TracksOwnVm' /\ NoStrayVm'
    BY <2>1, SameVms DEF tracking, Inv
  <2>3. FailuresInv'
    BY <2>1, FailuresNext DEF FailuresInv, daemon, tracking, Inv
  <2> QED  BY <2>1, <2>2, <2>3, SameEgress DEF Inv, TypeOK, daemon, store, tracking, history
<1> QED  BY <1>1, <1>2, <1>3, <1>4, <1>5 DEF Next

-----------------------------------------------------------------------------
(* The invariant holds in every behaviour of cage and egress. *)
THEOREM InvHolds == Spec => []Inv
BY InvInit, InvStep, PTL DEF Spec

(* No counter of failed health checks passes its limit, and the job list   *)
(* of the daemon stays one of jobs it knows, whatever fails and dies.      *)
THEOREM TypesHold == Spec => []TypeOK
BY InvHolds, PTL DEF Inv

(* vm.rs:53-174, main.rs:212-279.  The pid that cage keeps for an agent is *)
(* always its own child, for that agent, that it has neither reaped nor    *)
(* told to stop.                                                           *)
THEOREM OwnVmTracked == Spec => []TracksOwnVm
BY InvHolds, PTL DEF Inv

(* vm.rs:61-63, 143-155.  A VM that runs and was not told to stop is       *)
(* always in the map, so no agent has two.                                 *)
THEOREM NoVmStrays == Spec => []NoStrayVm
BY InvHolds, PTL DEF Inv
=============================================================================
