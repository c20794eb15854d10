----------------------------- MODULE ReachProofs -----------------------------
(***************************************************************************)
(* The firewall follows cage: for any number of agents, addresses and      *)
(* requests under way, what egress will let through once it has served its *)
(* queue is what the VMs of cage need, up to what `missed` and `abandoned` *)
(* excuse.                                                                 *)
(***************************************************************************)
EXTENDS CageProofs

(* The last word of a queue about agent a is an addition; or it has none.  *)
LastAdds(q, a) ==
  \E i \in DOMAIN q : q[i] = Job("add", a) /\ \A j \in i + 1 .. Len(q) : q[j].agent # a

Silent(q, a) == \A i \in DOMAIN q : q[i].agent # a

(* Egress has an entry for the agent when its queue is served. *)
WillRegister(a) == LastAdds(inbox, a) \/ (a \in Registered /\ Silent(inbox, a))

UpNext(j, a) == todo # <<>> /\ Head(todo) = Job(j, a)

(* Egress is told at once: of a start while the VM is in the map, of an    *)
(* end while it is not.                                                    *)
TodoInv ==
  /\ \A i \in DOMAIN todo : i # 1 => todo[i].job \notin {"add", "remove"}
  /\ \A a \in Agents : (UpNext("add", a) => a \in Tracked) /\ (UpNext("remove", a) => a \notin Tracked)

KeptInv == \A a \in Tracked \ missed : WillRegister(a) \/ UpNext("add", a)

RevokedInv ==
  \A a \in Agents : WillRegister(a) =>
    \/ a \in Tracked \cup missed \cup abandoned
    \/ UpNext("remove", a) \/ UpNext("health-restart", a)

RulesInv ==
  /\ \A a \in Registered : agents[a] \subseteq Domains[a] \ Blocked
  /\ egress = "up" /\ ~stale => kernel = Ruleset(agents)

ReachInv == TodoInv /\ KeptInv /\ RevokedInv

-----------------------------------------------------------------------------
(* The queue of egress.                                                    *)

LEMMA TailWords ==
  ASSUME NEW q \in Seq(Requests), q # <<>>, NEW a \in Agents
  PROVE  /\ Silent(q, a) <=> Head(q).agent # a /\ Silent(Tail(q), a)
         /\ LastAdds(q, a) <=> \/ LastAdds(Tail(q), a)
                               \/ Head(q) = Job("add", a) /\ Silent(Tail(q), a)
<1> DEFINE t == Tail(q)
<1>1. /\ t \in Seq(Requests) /\ Len(q) \in Nat \ {0} /\ Len(t) = Len(q) - 1
      /\ DOMAIN q = 1 .. Len(q) /\ DOMAIN t = 1 .. Len(t)
      /\ Head(q) = q[1] /\ \A i \in DOMAIN t : t[i] = q[i + 1]
  OBVIOUS
<1> HIDE DEF t
<1>2. \A i \in DOMAIN q : i = 1 \/ (i - 1 \in DOMAIN t /\ q[i] = t[i - 1])
  BY <1>1
<1>3. \A i \in DOMAIN t : i + 1 \in DOMAIN q
  BY <1>1
<1>4. Silent(q, a) <=> Head(q).agent # a /\ Silent(t, a)
  BY <1>1, <1>2, <1>3 DEF Silent
<1>5. ASSUME LastAdds(t, a) PROVE LastAdds(q, a)
  <2>1. PICK i \in DOMAIN t : t[i] = Job("add", a) /\ \A j \in i + 1 .. Len(t) : t[j].agent # a
    BY <1>5 DEF LastAdds
  <2>2. i + 1 \in DOMAIN q /\ q[i + 1] = Job("add", a)
    BY <1>1, <1>3, <2>1
  <2>3. ASSUME NEW j \in i + 1 + 1 .. Len(q) PROVE q[j].agent # a
    <3>1. j - 1 \in i + 1 .. Len(t) /\ j \in DOMAIN q /\ j # 1
      BY <1>1, <2>1
    <3> QED  BY <1>2, <2>1, <3>1
  <2> QED  BY <2>2, <2>3 DEF LastAdds
<1>6. ASSUME Head(q) = Job("add", a), Silent(t, a) PROVE LastAdds(q, a)
  <2>1. \A j \in 1 + 1 .. Len(q) : q[j].agent # a
    BY <1>1, <1>2, <1>6 DEF Silent
  <2>2. 1 \in DOMAIN q /\ q[1] = Job("add", a)
    BY <1>1, <1>6
  <2> QED  BY <2>1, <2>2 DEF LastAdds
<1>7. ASSUME LastAdds(q, a) PROVE LastAdds(t, a) \/ (Head(q) = Job("add", a) /\ Silent(t, a))
  <2>1. PICK i \in DOMAIN q : q[i] = Job("add", a) /\ \A j \in i + 1 .. Len(q) : q[j].agent # a
    BY <1>7 DEF LastAdds
  <2>2. CASE i = 1
    BY <1>1, <2>1, <2>2 DEF Silent
  <2>3. CASE i # 1
    <3>1. i - 1 \in DOMAIN t /\ t[i - 1] = Job("add", a)
      BY <1>2, <2>1, <2>3
    <3>2. \A j \in i - 1 + 1 .. Len(t) : t[j].agent # a
      BY <1>1, <2>1
    <3> QED  BY <3>1, <3>2 DEF LastAdds
  <2> QED  BY <2>2, <2>3
<1> QED  BY <1>4, <1>5, <1>6, <1>7 DEF t

LEMMA AppendWords ==
  ASSUME NEW q \in Seq(Requests), NEW x \in Requests, NEW a \in Agents
  PROVE  /\ Silent(Append(q, x), a) <=> x.agent # a /\ Silent(q, a)
         /\ LastAdds(Append(q, x), a) <=> \/ x = Job("add", a)
                                          \/ x.agent # a /\ LastAdds(q, a)
<1> DEFINE n == Len(q)
           r == Append(q, x)
<1>1. /\ n \in Nat /\ Len(r) = n + 1 /\ DOMAIN q = 1 .. n /\ DOMAIN r = 1 .. n + 1
      /\ r[n + 1] = x /\ \A i \in 1 .. n : r[i] = q[i]
  OBVIOUS
<1> HIDE DEF n, r
<1>2. Silent(r, a) <=> x.agent # a /\ Silent(q, a)
  BY <1>1 DEF Silent
<1>3. x = Job("add", a) => LastAdds(r, a)
  BY <1>1 DEF LastAdds
<1>4. ASSUME x.agent # a, LastAdds(q, a) PROVE LastAdds(r, a)
  <2>1. PICK i \in 1 .. n : q[i] = Job("add", a) /\ \A j \in i + 1 .. n : q[j].agent # a
    BY <1>1, <1>4 DEF LastAdds, n
  <2>2. \A j \in i + 1 .. n + 1 : r[j].agent # a
    BY <1>1, <1>4, <2>1
  <2> QED  BY <1>1, <2>1, <2>2 DEF LastAdds
<1>5. ASSUME LastAdds(r, a), x # Job("add", a) PROVE x.agent # a /\ LastAdds(q, a)
  <2>1. PICK i \in 1 .. n + 1 : r[i] = Job("add", a) /\ \A j \in i + 1 .. n + 1 : r[j].agent # a
    BY <1>1, <1>5 DEF LastAdds
  <2>2. i \in 1 .. n
    BY <1>1, <1>5, <2>1
  <2>3. x.agent # a /\ q[i] = Job("add", a) /\ \A j \in i + 1 .. n : q[j].agent # a
    BY <1>1, <2>1, <2>2
  <2> QED  BY <1>1, <2>2, <2>3 DEF LastAdds, n
<1> QED  BY <1>2, <1>3, <1>4, <1>5 DEF r

LEMMA SameWill ==
  ASSUME inbox' = inbox, agents' = agents
  PROVE  \A a \in Agents : WillRegister(a)' <=> WillRegister(a)
BY DEF WillRegister, Registered, LastAdds, Silent

(* Serving a request changes nothing about what will be. *)
LEMMA ServeWill ==
  ASSUME EgressTypeOK, EgressServes
  PROVE  \A a \in Agents : WillRegister(a)' <=> WillRegister(a)
<1> SUFFICES ASSUME NEW a \in Agents PROVE WillRegister(a)' <=> WillRegister(a)
  OBVIOUS
<1> DEFINE h == Head(inbox)
<1>1. inbox \in Seq(Requests) /\ inbox # <<>> /\ inbox' = Tail(inbox)
      /\ agents \in [Agents -> {NoEntry} \cup SUBSET Ips]
  BY DEF EgressServes, HandleAddAgent, HandleRemoveAgent, HandleRemoveUnknown, Take, EgressTypeOK
<1>2. h \in Requests
  BY <1>1
<1>3. /\ Silent(inbox, a) <=> h.agent # a /\ Silent(inbox', a)
      /\ LastAdds(inbox, a) <=> LastAdds(inbox', a) \/ (h = Job("add", a) /\ Silent(inbox', a))
  BY <1>1, TailWords
<1>4. WillRegister(a)' <=> LastAdds(inbox', a) \/ (agents'[a] # NoEntry /\ Silent(inbox', a))
  BY DEF WillRegister, Registered, LastAdds, Silent
<1>5. WillRegister(a) <=> LastAdds(inbox, a) \/ (agents[a] # NoEntry /\ Silent(inbox, a))
  BY DEF WillRegister, Registered
<1>6. h = Job("add", a) <=> h.job = "add" /\ h.agent = a
  BY <1>2 DEF Requests, Job
<1>7. h.agent # a => agents'[a] = agents[a]
  BY <1>1, <1>2 DEF EgressServes, HandleAddAgent, HandleRemoveAgent, HandleRemoveUnknown, Requests
<1>8. h.agent = a /\ h.job = "add" => agents'[a] # NoEntry
  <2>1. ASSUME h.agent = a, h.job = "add" PROVE agents'[a] \in SUBSET Ips
    BY <1>1, <2>1, Addresses DEF EgressServes, HandleAddAgent, HandleRemoveAgent,
       HandleRemoveUnknown, Resolved
  <2> QED  BY <2>1, Addresses
<1>9. h.agent = a /\ h.job # "add" => agents'[a] = NoEntry
  BY <1>1, <1>2 DEF EgressServes, HandleAddAgent, HandleRemoveAgent, HandleRemoveUnknown,
     Requests, Registered
<1> QED  BY <1>3, <1>4, <1>5, <1>6, <1>7, <1>8, <1>9

(* A notification decides about its agent. *)
LEMMA NotifyWill ==
  ASSUME EgressTypeOK, todo # <<>>, Head(todo) \in Requests, inbox' = Append(inbox, Head(todo)),
         agents' = agents, NEW a \in Agents
  PROVE  WillRegister(a)' <=> IF Head(todo).agent = a THEN Head(todo).job = "add" ELSE WillRegister(a)
<1>1. inbox \in Seq(Requests)
  BY DEF EgressTypeOK
<1>2. /\ Silent(inbox', a) <=> Head(todo).agent # a /\ Silent(inbox, a)
      /\ LastAdds(inbox', a) <=> \/ Head(todo) = Job("add", a)
                                 \/ Head(todo).agent # a /\ LastAdds(inbox, a)
  BY <1>1, AppendWords
<1>3. Head(todo) = Job("add", a) <=> Head(todo).job = "add" /\ Head(todo).agent = a
  BY DEF Requests, Job
<1>4. WillRegister(a)' <=> LastAdds(inbox', a) \/ (agents'[a] # NoEntry /\ Silent(inbox', a))
  BY DEF WillRegister, Registered, LastAdds, Silent
<1>5. WillRegister(a) <=> LastAdds(inbox, a) \/ (agents[a] # NoEntry /\ Silent(inbox, a))
  BY DEF WillRegister, Registered
<1> QED  BY <1>2, <1>3, <1>4, <1>5

-----------------------------------------------------------------------------
(* The steps.                                                              *)

LEMMA ReachInit == Init => ReachInv /\ RulesInv
<1> SUFFICES ASSUME Init PROVE ReachInv /\ RulesInv
  OBVIOUS
<1>1. todo = <<>> /\ inbox = <<>> /\ egress = "down" /\ Tracked = {} /\ Registered = {}
  BY DEF Init, EgressInit, NoVms, NoAgents, Tracked, Registered
<1> QED  BY <1>1 DEF ReachInv, RulesInv, TodoInv, KeptInv, RevokedInv, WillRegister, LastAdds, UpNext

(* After the first job comes one that cage gives itself, or the rest: what *)
(* is next then is no notification, unless it is that job.                 *)
LEMMA RestUpNext ==
  ASSUME NEW jobs \in Seq(Jobs), jobs # <<>>,
         \A i \in DOMAIN jobs : i # 1 => jobs[i].job \notin {"add", "remove"}
  PROVE  /\ \A i \in DOMAIN Tail(jobs) : Tail(jobs)[i].job \notin {"add", "remove"}
         /\ Tail(jobs) # <<>> => Head(Tail(jobs)).job \notin {"add", "remove"}
         /\ \A x \in Jobs : /\ <<x>> \o Tail(jobs) # <<>> /\ Head(<<x>> \o Tail(jobs)) = x
                            /\ \A i \in DOMAIN (<<x>> \o Tail(jobs)) :
                                 i # 1 => (<<x>> \o Tail(jobs))[i].job \notin {"add", "remove"}
<1> DEFINE t == Tail(jobs)
<1>1. /\ t \in Seq(Jobs) /\ Len(t) \in Nat /\ DOMAIN t = 1 .. Len(t)
      /\ \A i \in DOMAIN t : i + 1 \in DOMAIN jobs /\ t[i] = jobs[i + 1] /\ i + 1 # 1
  OBVIOUS
<1>2. \A i \in DOMAIN t : t[i].job \notin {"add", "remove"}
  BY <1>1
<1> HIDE DEF t
<1>3. t # <<>> => Head(t).job \notin {"add", "remove"}
  <2>1. t # <<>> => 1 \in DOMAIN t /\ Head(t) = t[1]
    BY <1>1
  <2> QED  BY <1>2, <2>1
<1>4. ASSUME NEW x \in Jobs
      PROVE  /\ <<x>> \o t # <<>> /\ Head(<<x>> \o t) = x
             /\ \A i \in DOMAIN (<<x>> \o t) : i # 1 => (<<x>> \o t)[i].job \notin {"add", "remove"}
  <2>1. /\ <<x>> \o t # <<>> /\ Head(<<x>> \o t) = x
        /\ \A i \in DOMAIN (<<x>> \o t) : i # 1 => i - 1 \in DOMAIN t /\ (<<x>> \o t)[i] = t[i - 1]
    BY <1>1
  <2> QED  BY <1>2, <2>1
<1> QED  BY <1>2, <1>3, <1>4 DEF t

LEMMA JobNames ==
  \A j, a : Job(j, a).job = j /\ Job(j, a).agent = a
BY DEF Job

LEMMA LaunchReach ==
  ASSUME Inv, ReachInv, Launch \/ LaunchFails
  PROVE  ReachInv'
<1> USE DEF Inv, TypeOK, ReachInv
<1> DEFINE a == Head(todo).agent
<1>1. /\ todo \in Seq(Jobs) /\ todo # <<>> /\ a \in Agents /\ Head(todo) \in Jobs
      /\ Head(todo).job \in {"start", "restart", "health-restart"}
      /\ inbox' = inbox /\ agents' = agents /\ missed' = missed
  <2>1. todo # <<>> /\ Head(todo).job \in {"start", "restart", "health-restart"}
    BY DEF Launch, LaunchFails, Starting
  <2>2. Head(todo) \in Jobs
    BY <2>1
  <2>3. a \in Agents
    BY <2>2 DEF Jobs
  <2>4. inbox' = inbox /\ agents' = agents /\ missed' = missed
    BY DEF Launch, LaunchFails, egressVars
  <2> QED  BY <2>1, <2>2, <2>3, <2>4
<1>2. \A b \in Agents : WillRegister(b)' <=> WillRegister(b)
  BY <1>1, SameWill
<1>3. \A b \in Agents : /\ ~UpNext("add", b) /\ ~UpNext("remove", b)
                        /\ UpNext("health-restart", b) => b = a /\ Head(todo).job = "health-restart"
  BY <1>1, JobNames DEF UpNext
<1>4. CASE Launch
  <2>1. /\ todo' = <<Job("add", a)>> \o Tail(todo) /\ abandoned' = abandoned \ {a}
        /\ \E p \in Pids : vms' = [vms EXCEPT ![a] = p]
    BY <1>4 DEF Launch
  <2>2. Job("add", a) \in Jobs
    BY <1>1 DEF Jobs, Job
  <2>3. /\ todo' # <<>> /\ Head(todo') = Job("add", a)
        /\ \A i \in DOMAIN todo' : i # 1 => todo'[i].job \notin {"add", "remove"}
    BY <1>1, <2>1, <2>2, RestUpNext DEF TodoInv
  <2>4. Tracked' = Tracked \cup {a}
    BY <1>1, <2>1, VmMarkers DEF Tracked
  <2>5. \A b \in Agents : (UpNext("add", b)' <=> b = a) /\ ~UpNext("remove", b)'
    BY <2>3, JobNames DEF UpNext
  <2>6. TodoInv'
    BY <2>3, <2>4, <2>5 DEF TodoInv
  <2>7. KeptInv'
    BY <1>1, <1>2, <1>3, <2>4, <2>5 DEF KeptInv, Tracked
  <2>8. RevokedInv'
    BY <1>1, <1>2, <1>3, <2>1, <2>4 DEF RevokedInv
  <2> QED  BY <2>6, <2>7, <2>8
<1>5. CASE LaunchFails
  <2>1. /\ todo' = Tail(todo) /\ vms' = vms
        /\ abandoned' = IF Head(todo).job = "health-restart"
                        THEN abandoned \cup ({a} \ Tracked) ELSE abandoned
    BY <1>5 DEF LaunchFails, tracking
  <2>2. Tracked' = Tracked
    BY <2>1 DEF Tracked
  <2>3. \A i \in DOMAIN todo' : todo'[i].job \notin {"add", "remove"}
    BY <1>1, <2>1, RestUpNext DEF TodoInv
  <2>4. \A b \in Agents : ~UpNext("add", b)' /\ ~UpNext("remove", b)'
    BY <1>1, <2>1, RestUpNext, JobNames DEF TodoInv, UpNext
  <2>5. TodoInv'
    BY <2>3, <2>4 DEF TodoInv
  <2>6. KeptInv'
    BY <1>1, <1>2, <1>3, <2>2 DEF KeptInv, Tracked
  <2>7. RevokedInv'
    BY <1>1, <1>2, <1>3, <2>1, <2>2 DEF RevokedInv
  <2> QED  BY <2>5, <2>6, <2>7
<1> QED  BY <1>4, <1>5

LEMMA NotifyReach ==
  ASSUME Inv, ReachInv, Notify \/ NotifyFails
  PROVE  ReachInv'
<1> USE DEF Inv, TypeOK, ReachInv
<1> DEFINE a == Head(todo).agent
<1>1. /\ todo \in Seq(Jobs) /\ todo # <<>> /\ a \in Agents /\ Head(todo) \in Jobs
      /\ Head(todo).job \in {"add", "remove"} /\ Head(todo) \in Requests
      /\ todo' = Tail(todo) /\ vms' = vms /\ abandoned' = abandoned /\ agents' = agents
  <2>1. todo # <<>> /\ Head(todo).job \in {"add", "remove"}
    BY DEF Notify, NotifyFails
  <2>2. Head(todo) \in Jobs
    BY <2>1
  <2>3. a \in Agents /\ Head(todo) \in Requests
    BY <2>1, <2>2 DEF Jobs, Requests
  <2>4. todo' = Tail(todo) /\ vms' = vms /\ abandoned' = abandoned /\ agents' = agents
    BY DEF Notify, NotifyFails, tracking, egressVars
  <2> QED  BY <2>1, <2>2, <2>3, <2>4
<1>2. Tracked' = Tracked
  BY <1>1 DEF Tracked
<1>3. /\ \A i \in DOMAIN todo' : todo'[i].job \notin {"add", "remove"}
      /\ \A b \in Agents : ~UpNext("add", b)' /\ ~UpNext("remove", b)'
  <2>1. \A i \in DOMAIN todo : i # 1 => todo[i].job \notin {"add", "remove"}
    BY DEF TodoInv
  <2> HIDE DEF TypeOK, Inv, ReachInv
  <2>2. \A i \in DOMAIN todo' : todo'[i].job \notin {"add", "remove"}
    BY <1>1, <2>1, RestUpNext
  <2>3. todo' # <<>> => Head(todo').job \notin {"add", "remove"}
    BY <1>1, <2>1, RestUpNext
  <2> QED  BY <2>2, <2>3, JobNames DEF UpNext
<1>4. TodoInv'
  BY <1>3 DEF TodoInv
<1>5. /\ \A b \in Agents : UpNext("add", b) => b = a
      /\ \A b \in Agents : UpNext("remove", b) => b = a
      /\ \A b \in Agents : ~UpNext("health-restart", b)
  BY <1>1, JobNames DEF UpNext
<1>6. (Head(todo).job = "add" => a \in Tracked) /\ (Head(todo).job = "remove" => a \notin Tracked)
  <2>1. Head(todo) = Job(Head(todo).job, a)
    BY <1>1 DEF Requests, Job
  <2> QED  BY <1>1, <2>1 DEF TodoInv, UpNext
<1>7. CASE Notify
  <2>1. inbox' = Append(inbox, Head(todo)) /\ missed' = missed \ {a}
    BY <1>7 DEF Notify
  <2>2. \A b \in Agents : WillRegister(b)' <=> IF a = b THEN Head(todo).job = "add" ELSE WillRegister(b)
    BY <1>1, <2>1, NotifyWill
  <2>3. KeptInv'
    BY <1>1, <1>2, <1>5, <1>6, <2>1, <2>2 DEF KeptInv, Tracked
  <2>4. RevokedInv'
    BY <1>1, <1>2, <1>5, <1>6, <2>1, <2>2 DEF RevokedInv
  <2> QED  BY <1>4, <2>3, <2>4
<1>8. CASE NotifyFails
  <2>1. inbox' = inbox /\ missed' = missed \cup {a}
    BY <1>8 DEF NotifyFails, egressVars
  <2>2. \A b \in Agents : WillRegister(b)' <=> WillRegister(b)
    BY <1>1, <2>1, SameWill
  <2>3. KeptInv'
    BY <1>1, <1>2, <1>5, <2>1, <2>2 DEF KeptInv, Tracked
  <2>4. RevokedInv'
    BY <1>1, <1>2, <1>5, <2>1, <2>2 DEF RevokedInv
  <2> QED  BY <1>4, <2>3, <2>4
<1> QED  BY <1>7, <1>8

(* A step that is taken when nothing is to be done, and takes out of the   *)
(* map just the agent it will tell egress of.                              *)
LEMMA IdleReach ==
  ASSUME Inv, ReachInv, todo = <<>>, UNCHANGED <<missed, abandoned, egressVars>>,
         \A i \in DOMAIN todo' : i # 1 => todo'[i].job \notin {"add", "remove"},
         \A a \in Agents : /\ ~UpNext("add", a)'
                           /\ a \in Tracked' <=> a \in Tracked /\ ~UpNext("remove", a)'
  PROVE  ReachInv'
<1> USE DEF ReachInv
<1>1. \A a \in Agents : WillRegister(a)' <=> WillRegister(a)
  BY SameWill DEF egressVars
<1>2. \A j, a : ~UpNext(j, a)
  BY DEF UpNext
<1>3. TodoInv'
  BY DEF TodoInv
<1>4. KeptInv'
  BY <1>1, <1>2 DEF KeptInv, Tracked
<1>5. RevokedInv'
  BY <1>1, <1>2 DEF RevokedInv
<1> QED  BY <1>3, <1>4, <1>5

LEMMA ReapReach ==
  ASSUME Inv, ReachInv, NEW p \in Pids, Reap(p)
  PROVE  ReachInv'
<1> USE DEF Inv, TypeOK
<1>1. todo = <<>> /\ UNCHANGED <<missed, abandoned, egressVars>>
  BY DEF Reap, history
<1>2. ASSUME NEW a \in Agents, vms[a] = p, vms' = [vms EXCEPT ![a] = NoPid],
             todo' = <<Job("remove", a), Job("restart", a)>> \/ todo' = <<Job("remove", a)>>
      PROVE  ReachInv'
  <2>1. Tracked' = Tracked \ {a}
    BY <1>2 DEF Tracked
  <2>2. \A i \in DOMAIN todo' : i # 1 => todo'[i].job \notin {"add", "remove"}
    BY <1>2, JobNames
  <2>3. todo' # <<>> /\ Head(todo') = Job("remove", a)
    BY <1>2
  <2>4. \A b \in Agents : ~UpNext("add", b)' /\ (UpNext("remove", b)' <=> b \in {a})
    BY <2>3, JobNames DEF UpNext
  <2> QED  BY <1>1, <2>1, <2>2, <2>4, IdleReach
<1>3. ASSUME UNCHANGED <<vms, todo>> PROVE ReachInv'
  <2>1. Tracked' = Tracked /\ todo' = <<>>
    BY <1>1, <1>3 DEF Tracked
  <2>2. \A a \in Agents : ~UpNext("add", a)' /\ ~UpNext("remove", a)'
    BY <2>1 DEF UpNext
  <2>3. \A i \in DOMAIN todo' : i # 1 => todo'[i].job \notin {"add", "remove"}
    BY <2>1
  <2> QED  BY <1>1, <2>1, <2>2, <2>3, IdleReach
<1> QED  BY <1>2, <1>3 DEF Reap

LEMMA HealthReach ==
  ASSUME Inv, ReachInv, Sweep \/ StopUnhealthy
  PROVE  ReachInv'
<1> USE DEF Inv, TypeOK
<1>1. CASE Sweep
  <2>1. /\ todo = <<>> /\ UNCHANGED <<missed, abandoned, egressVars>> /\ Tracked' = Tracked
    BY <1>1 DEF Sweep, FailuresInv, history, Tracked
  <2>2. PICK bad \in SUBSET (Watched \cap Tracked) :
          \E s \in SetToSeqs({a \in bad : failures[a] + 1 >= MaxFailures}) :
            todo' = [i \in DOMAIN s |-> Job("unhealthy", s[i])]
    BY <1>1 DEF Sweep
  <2>3. PICK s \in SetToSeqs({a \in bad : failures[a] + 1 >= MaxFailures}) :
          todo' = [i \in DOMAIN s |-> Job("unhealthy", s[i])]
    BY <2>2
  <2>4. todo' \in Seq(Jobs)
    BY <2>3, OrderAsJobs DEF Tracked
  <2>5. \A i \in DOMAIN todo' : todo'[i].job = "unhealthy"
    BY <2>3, JobNames
  <2>6. \A a \in Agents : ~UpNext("add", a)' /\ ~UpNext("remove", a)'
    BY <2>4, <2>5, JobNames DEF UpNext
  <2> QED  BY <2>1, <2>5, <2>6, IdleReach
<1>2. CASE StopUnhealthy
  <2> DEFINE a == Head(todo).agent
  <2>1. /\ todo # <<>> /\ Head(todo).job = "unhealthy"
        /\ todo' = <<Job("health-restart", a)>> \o Tail(todo)
        /\ vms' = [vms EXCEPT ![a] = NoPid]
        /\ UNCHANGED <<missed, abandoned, egressVars>>
    BY <1>2 DEF StopUnhealthy, StopAgent, history
  <2>2. a \in Agents /\ Job("health-restart", a) \in Jobs
    <3>1. Head(todo) \in Jobs
      BY <2>1
    <3> QED  BY <3>1 DEF Jobs, Job
  <2>3. Tracked' = Tracked \ {a}
    BY <2>1, <2>2 DEF Tracked
  <2>4. /\ todo' # <<>> /\ Head(todo') = Job("health-restart", a)
        /\ \A i \in DOMAIN todo' : i # 1 => todo'[i].job \notin {"add", "remove"}
    BY <2>1, <2>2, RestUpNext DEF ReachInv, TodoInv
  <2>5. \A b \in Agents : ~UpNext("add", b)' /\ ~UpNext("remove", b)' /\ (UpNext("health-restart", b)' <=> b = a)
    BY <2>4, JobNames DEF UpNext
  <2>6. \A b \in Agents : ~UpNext("add", b) /\ ~UpNext("remove", b) /\ ~UpNext("health-restart", b)
    BY <2>1, JobNames DEF UpNext
  <2>7. \A b \in Agents : WillRegister(b)' <=> WillRegister(b)
    BY <2>1, SameWill DEF egressVars
  <2>8. TodoInv'
    BY <2>4, <2>5 DEF TodoInv
  <2>9. KeptInv'
    BY <2>1, <2>3, <2>6, <2>7 DEF ReachInv, KeptInv, Tracked
  <2>10. RevokedInv'
    BY <2>1, <2>3, <2>5, <2>6, <2>7 DEF ReachInv, RevokedInv
  <2> QED  BY <2>8, <2>9, <2>10 DEF ReachInv
<1> QED  BY <1>1, <1>2

LEMMA LoopReach ==
  ASSUME Inv, ReachInv, Boot \/ EndReap \/ EndAccept \/ Command
  PROVE  ReachInv'
<1> USE DEF Inv, TypeOK
<1>1. todo = <<>> /\ UNCHANGED <<missed, abandoned, egressVars>>
  BY DEF Boot, EndReap, EndAccept, Command, HandleStart, HandleStop, HandleDeploy,
         HandleDeployFails, FailuresInv, history
<1>2. CASE Boot
  <2>1. PICK s \in SetToSeqs(installed) : todo' = [i \in DOMAIN s |-> Job("start", s[i])]
    BY <1>2 DEF Boot
  <2>2. todo' \in Seq(Jobs)
    BY <2>1, OrderAsJobs
  <2>3. \A i \in DOMAIN todo' : todo'[i].job = "start"
    BY <2>1, JobNames
  <2>4. \A a \in Agents : ~UpNext("add", a)' /\ ~UpNext("remove", a)'
    BY <2>2, <2>3, JobNames DEF UpNext
  <2>5. Tracked' = Tracked
    BY <1>2 DEF Boot, tracking, Tracked
  <2> QED  BY <1>1, <2>3, <2>4, <2>5, IdleReach
<1>3. ASSUME vms' = vms, todo' = <<>> \/ \E a \in Agents : todo' = <<Job("start", a)>>
      PROVE  ReachInv'
  <2>1. Tracked' = Tracked
    BY <1>3 DEF Tracked
  <2>2. \A i \in DOMAIN todo' : i # 1 => todo'[i].job \notin {"add", "remove"}
    BY <1>3
  <2>3. \A b \in Agents : ~UpNext("add", b)' /\ ~UpNext("remove", b)'
    BY <1>3, JobNames DEF UpNext
  <2> QED  BY <1>1, <2>1, <2>2, <2>3, IdleReach
<1>4. CASE EndReap \/ EndAccept
  BY <1>1, <1>3, <1>4 DEF EndReap, EndAccept, tracking
<1>5. ASSUME NEW a \in Agents, HandleStop(a) PROVE ReachInv'
  <2>1. /\ vms' = [vms EXCEPT ![a] = NoPid] /\ todo' = <<Job("remove", a)>>
    BY <1>5 DEF HandleStop, StopAgent
  <2>2. Tracked' = Tracked \ {a}
    BY <2>1 DEF Tracked
  <2>3. \A i \in DOMAIN todo' : i # 1 => todo'[i].job \notin {"add", "remove"}
    BY <2>1
  <2>4. todo' # <<>> /\ Head(todo') = Job("remove", a)
    BY <2>1
  <2>5. \A b \in Agents : ~UpNext("add", b)' /\ (UpNext("remove", b)' <=> b \in {a})
    BY <2>4, JobNames DEF UpNext
  <2> QED  BY <1>1, <2>2, <2>3, <2>5, IdleReach
<1>6. ASSUME NEW a \in Agents, HandleStart(a) \/ HandleDeploy(a) \/ HandleDeployFails(a) PROVE ReachInv'
  BY <1>1, <1>3, <1>6 DEF HandleStart, HandleDeploy, HandleDeployFails, tracking, daemon
<1> QED  BY <1>2, <1>4, <1>5, <1>6 DEF Command

LEMMA EndsReach ==
  ASSUME Inv, ReachInv, (\E p \in Pids : Exit(p)) \/ CageCrash
  PROVE  ReachInv'
<1> USE DEF ReachInv
<1>1. UNCHANGED <<inbox, agents, abandoned>>
  BY DEF Exit, CageCrash, history, egressVars
<1>2. \A a \in Agents : WillRegister(a)' <=> WillRegister(a)
  BY <1>1, SameWill
<1>3. CASE \E p \in Pids : Exit(p)
  <2>1. UNCHANGED <<todo, vms, missed>>
    BY <1>3 DEF Exit, daemon, history
  <2>2. Tracked' = Tracked /\ \A j, a : UpNext(j, a)' <=> UpNext(j, a)
    BY <2>1 DEF Tracked, UpNext
  <2> QED
    BY <1>1, <1>2, <2>1, <2>2 DEF TodoInv, KeptInv, RevokedInv, Tracked
<1>4. CASE CageCrash
  <2>1. /\ todo' = <<>> /\ vms' = NoVms
        /\ missed' = missed \cup Tracked \cup {todo[i].agent : i \in DOMAIN todo}
    BY <1>4 DEF CageCrash
  <2>2. Tracked' = {} /\ \A j, a : ~UpNext(j, a)'
    BY <2>1 DEF Tracked, NoVms, UpNext
  <2>3. \A j, a : UpNext(j, a) => a \in missed'
    <3>1. todo # <<>> => 1 \in DOMAIN todo /\ Head(todo) = todo[1]
      BY DEF Inv, TypeOK
    <3> QED  BY <2>1, <3>1, JobNames DEF UpNext
  <2>4. TodoInv' /\ KeptInv'
    BY <2>1, <2>2 DEF TodoInv, KeptInv, Tracked
  <2>5. RevokedInv'
    BY <1>1, <1>2, <2>1, <2>2, <2>3 DEF RevokedInv
  <2> QED  BY <2>4, <2>5
<1> QED  BY <1>3, <1>4

LEMMA EgressReach ==
  ASSUME Inv, ReachInv, EgressLoads \/ EgressWorks \/ EgressDies
  PROVE  ReachInv'
<1> USE DEF ReachInv
<1>1. UNCHANGED <<todo, vms, abandoned>>
  BY DEF EgressLoads, EgressWorks, EgressDies, cageVars, daemon, tracking, history
<1>2. Tracked' = Tracked /\ \A j, a : UpNext(j, a)' <=> UpNext(j, a)
  BY <1>1 DEF Tracked, UpNext
<1>3. TodoInv'
  BY <1>1, <1>2 DEF TodoInv
<1>4. CASE EgressDies
  <2>1. missed' = Agents
    BY <1>4 DEF EgressDies
  <2> QED  BY <1>3, <2>1 DEF KeptInv, RevokedInv, Tracked
<1>5. CASE EgressLoads \/ EgressWorks
  <2>1. missed' = missed
    BY <1>5 DEF EgressLoads, EgressWorks, cageVars, history
  <2>2. \A a \in Agents : WillRegister(a)' <=> WillRegister(a)
    BY <1>5, SameWill, ServeWill DEF EgressLoads, EgressWorks, EgressStart, Inv, TypeOK
  <2> QED  BY <1>1, <1>2, <1>3, <2>1, <2>2 DEF KeptInv, RevokedInv, Tracked
<1> QED  BY <1>4, <1>5

LEMMA ReachStep == Inv /\ ReachInv /\ [Next]_vars => ReachInv'
<1> SUFFICES ASSUME Inv, ReachInv, [Next]_vars PROVE ReachInv'
  OBVIOUS
<1>1. CASE Daemon
  BY <1>1, LaunchReach, NotifyReach, ReapReach, HealthReach, LoopReach DEF Daemon
<1>2. CASE Command
  BY <1>2, LoopReach
<1>3. CASE (\E p \in Pids : Exit(p)) \/ CageCrash
  BY <1>3, EndsReach
<1>4. CASE EgressLoads \/ EgressWorks \/ EgressDies
  BY <1>4, EgressReach
<1>5. CASE UNCHANGED vars
  <2>1. UNCHANGED <<todo, vms, missed, abandoned, inbox, agents>>
    BY <1>5 DEF vars, cageVars, daemon, tracking, history, egressVars
  <2>2. /\ Tracked' = Tracked /\ \A j, a : UpNext(j, a)' <=> UpNext(j, a)
        /\ \A a \in Agents : WillRegister(a)' <=> WillRegister(a)
    BY <2>1, SameWill DEF Tracked, UpNext
  <2> QED  BY <2>1, <2>2 DEF ReachInv, TodoInv, KeptInv, RevokedInv, Tracked
<1> QED  BY <1>1, <1>2, <1>3, <1>4, <1>5 DEF Next

-----------------------------------------------------------------------------
(* The rules in the kernel are those of the map, unless they are stale.    *)
LEMMA RulesStep == Inv /\ RulesInv /\ [Next]_vars => RulesInv'
<1> SUFFICES ASSUME Inv, RulesInv, [Next]_vars PROVE RulesInv'
  OBVIOUS
<1> USE DEF RulesInv, Registered
<1>1. agents \in [Agents -> {NoEntry} \cup SUBSET Ips] /\ inbox \in Seq(Requests)
  BY DEF Inv, TypeOK, EgressTypeOK
<1>2. CASE UNCHANGED <<egress, agents, kernel, stale>>
  BY <1>2
<1>3. CASE EgressStart
  <2>1. agents' = agents /\ RegenerateAndApply(agents)
    BY <1>3 DEF EgressStart
  <2>2. ~stale' => kernel' = Ruleset(agents')
    BY <2>1 DEF RegenerateAndApply
  <2> QED  BY <2>1, <2>2
<1>4. CASE HandleAddAgent
  <2> DEFINE a == Head(inbox).agent
  <2>1. a \in Agents
    <3>1. Head(inbox) \in Requests
      BY <1>1, <1>4 DEF HandleAddAgent, Take
    <3> QED  BY <3>1 DEF Requests
  <2>2. PICK resolved \in SUBSET Domains[a] : agents' = [agents EXCEPT ![a] = resolved \ Blocked]
    BY <1>4 DEF HandleAddAgent, Resolved
  <2>3. ~stale' => kernel' = Ruleset(agents')
    BY <1>4 DEF HandleAddAgent, RegenerateAndApply
  <2>4. \A b \in Agents : agents'[b] # NoEntry => agents'[b] \subseteq Domains[b] \ Blocked
    BY <1>1, <2>1, <2>2
  <2> QED  BY <2>3, <2>4
<1>5. CASE HandleRemoveAgent
  <2> DEFINE a == Head(inbox).agent
  <2>1. agents' = [agents EXCEPT ![a] = NoEntry]
    BY <1>5 DEF HandleRemoveAgent
  <2>2. ~stale' => kernel' = Ruleset(agents')
    BY <1>5 DEF HandleRemoveAgent, RegenerateAndApply
  <2>3. \A b \in Agents : agents'[b] # NoEntry => agents'[b] \subseteq Domains[b] \ Blocked
    BY <1>1, <2>1
  <2> QED  BY <2>2, <2>3
<1>6. CASE EgressCrash
  BY <1>6 DEF EgressCrash, NoAgents
<1>7. ASSUME Launch \/ LaunchFails \/ Notify \/ NotifyFails \/ Boot \/ (\E p \in Pids : Reap(p))
             \/ EndReap \/ Sweep \/ StopUnhealthy \/ EndAccept \/ Command
             \/ (\E p \in Pids : Exit(p)) \/ CageCrash \/ HandleRemoveUnknown \/ UNCHANGED vars
      PROVE  UNCHANGED <<egress, agents, kernel, stale>>
  BY <1>7 DEF Launch, LaunchFails, Notify, NotifyFails, Boot, Reap, EndReap, Sweep, StopUnhealthy,
     EndAccept, Command, HandleStart, HandleStop, HandleDeploy, HandleDeployFails, Exit, CageCrash,
     HandleRemoveUnknown, vars, egressVars
<1> QED
  BY <1>2, <1>3, <1>4, <1>5, <1>6, <1>7 DEF Next, Daemon, EgressLoads, EgressWorks, EgressDies,
     EgressServes

LEMMA ReachHolds == Spec => [](Inv /\ ReachInv /\ RulesInv)
<1> QED  BY InvHolds, ReachInit, ReachStep, RulesStep, PTL DEF Spec

(* main.rs:252, 361, egress main.rs:111-190.  Once cage and egress have    *)
(* nothing under way, an agent that runs reaches the addresses that were   *)
(* found for it, whatever was removed for others.                          *)
THEOREM ReachIsKept == Spec => []ReachKept
<1>1. Inv /\ ReachInv /\ RulesInv => ReachKept
  <2> SUFFICES ASSUME Inv, ReachInv, RulesInv, Quiet, ~stale, NEW a \in Tracked \ missed
               PROVE  a \in Registered /\ agents[a] \subseteq kernel
    BY DEF ReachKept
  <2>1. todo = <<>> /\ inbox = <<>> /\ egress = "up" /\ a \in Agents
    BY DEF Quiet, Tracked
  <2>2. a \in Registered
    BY <2>1 DEF ReachInv, KeptInv, WillRegister, LastAdds, UpNext
  <2>3. \A ip : ip \in UNION ({agents[b] : b \in Agents} \ {NoEntry}) /\ ip \notin Blocked => ip \in kernel
    BY <2>1 DEF RulesInv, Ruleset
  <2>4. agents[a] \in {agents[b] : b \in Agents} \ {NoEntry} /\ agents[a] \subseteq Domains[a] \ Blocked
    BY <2>1, <2>2 DEF Registered, RulesInv
  <2>5. \A ip \in agents[a] : ip \in kernel
    BY <2>3, <2>4
  <2> QED  BY <2>2, <2>5
<1> QED  BY <1>1, ReachHolds, PTL

(* main.rs:229, 277, 423.  ... and an address that is let through is one   *)
(* of an agent that runs, or whose end egress could not have heard of.     *)
THEOREM ReachIsRevoked == Spec => []ReachRevoked
<1>1. Inv /\ ReachInv /\ RulesInv => ReachRevoked
  <2> SUFFICES ASSUME Inv, ReachInv, RulesInv, Quiet, ~stale, NEW ip \in kernel
               PROVE  /\ ip \notin Blocked
                      /\ \E a \in Tracked \cup missed \cup abandoned : ip \in Domains[a]
    BY DEF ReachRevoked
  <2>1. todo = <<>> /\ inbox = <<>> /\ egress = "up"
    BY DEF Quiet
  <2>2. ip \in UNION ({agents[b] : b \in Agents} \ {NoEntry}) /\ ip \notin Blocked
    BY <2>1 DEF RulesInv, Ruleset
  <2>3. PICK a \in Agents : agents[a] # NoEntry /\ ip \in agents[a]
    BY <2>2
  <2>4. ip \in Domains[a] /\ a \in Registered
    BY <2>3 DEF RulesInv, Registered
  <2>5. a \in Tracked \cup missed \cup abandoned
    BY <2>1, <2>4 DEF ReachInv, RevokedInv, WillRegister, Silent, UpNext
  <2> QED  BY <2>2, <2>4, <2>5
<1> QED  BY <1>1, ReachHolds, PTL
=============================================================================
