-------------------------------- MODULE Cage --------------------------------
(***************************************************************************)
(* cage: the microVM manager of pkg/cage (main.rs and vm.rs), next to the  *)
(* egress it notifies (module Egress).                                     *)
(*                                                                         *)
(* The daemon is one thread.  What a handler still has to do after its     *)
(* first change is kept in todo, and every entry is a step of its own: VMs *)
(* end, egress serves and either daemon may die in between.  A             *)
(* notification is a request put on the socket of egress; cage stops       *)
(* waiting for the answer after two seconds and only logs it, so it does   *)
(* not wait at all here.  Health checks succeed and fail as they like.     *)
(*                                                                         *)
(* Left out: the secrets asked of warden, which go into the environment of *)
(* the VM, and the notes to sentinel and watcher, two services outside     *)
(* this repository.  cage reads nothing back from them.                    *)
(***************************************************************************)
EXTENDS Egress, FiniteSets, SequencesExt

CONSTANTS
  Pids,
  NoPid,           (* cage tracks no VM for an agent                       *)
  Free,            (* a pid that no process has                            *)
  Watched,         (* agents with a health_check in their manifest         *)
  MaxFailures      (* its max_failures                                     *)

Jobs == [job : {"add", "remove", "start", "restart", "unhealthy", "health-restart"},
         agent : Agents]
Job(j, a) == [job |-> j, agent |-> a]

Processes == [agent : Agents, state : {"runs", "stopping", "clean", "crashed", "killed"},
              child : BOOLEAN]

ASSUME VmMarkers ==
  /\ IsFiniteSet(Agents)
  /\ NoPid \notin Pids /\ Free \notin Processes
  /\ Watched \subseteq Agents
  /\ MaxFailures \in Nat \ {0}

VARIABLES
  pc,              (* of the daemon: "down", "reap", "sweep", "accept"     *)
  todo,            (* jobs the daemon does before anything else, in order  *)
  installed,       (* agents with a manifest in AGENT_DIR                  *)
  manifests,       (* agents with a manifest in memory                     *)
  vms,             (* VmManager::vms: agent -> pid, or NoPid               *)
  failures,        (* consecutive_failures of the VM of an agent           *)
  proc,            (* process table: pid -> process, or Free; child says   *)
                   (* that it is a child of the cage that runs now         *)
  missed,          (* history: agents whose last change egress was not     *)
                   (* told of, or has forgotten                            *)
  abandoned        (* history: agents that a failed health restart left    *)
                   (* without a VM                                         *)

daemon == <<pc, todo>>
store == <<installed, manifests>>
tracking == <<vms, failures, proc>>
history == <<missed, abandoned>>
cageVars == <<daemon, store, tracking, history>>
vars == <<cageVars, egressVars>>

Tracked == {a \in Agents : vms[a] # NoPid}
Alive(p) == proc[p] # Free /\ proc[p].state \in {"runs", "stopping"}
Zombie(p) == proc[p] # Free /\ ~Alive(p)

NoVms == [a \in Agents |-> NoPid]

Init ==
  /\ pc = "down" /\ todo = <<>>
  /\ installed \in SUBSET Agents /\ manifests = {}
  /\ vms = NoVms /\ failures = [a \in Agents |-> 0]
  /\ proc = [p \in Pids |-> Free]
  /\ missed = {} /\ abandoned = {}
  /\ EgressInit

(***************************************************************************)
(* The VMs.                                                                *)
(***************************************************************************)
(* VmManager::start_agent, a step of todo.  There may be a VM already, the *)
(* rootfs may be invalid and the fork may fail; all that the callers do    *)
(* then is log and answer.                                                 *)
Starting == todo # <<>> /\ Head(todo).job \in {"start", "restart", "health-restart"}

(* Mutant of Launch: a VM that is tracked already is replaced. *)
LaunchAgain ==
  /\ Starting
  /\ LET a == Head(todo).agent IN
     \E p \in Pids :
       /\ proc[p] = Free
       /\ proc' = [proc EXCEPT ![p] = [agent |-> a, state |-> "runs", child |-> TRUE]]
       /\ vms' = [vms EXCEPT ![a] = p]
       /\ failures' = [failures EXCEPT ![a] = 0]
       /\ todo' = <<Job("add", a)>> \o Tail(todo)
       /\ abandoned' = abandoned \ {a}
  /\ UNCHANGED <<pc, store, missed, egressVars>>

Launch ==
  /\ Starting
  /\ LET a == Head(todo).agent IN
     /\ a \notin Tracked
     /\ \E p \in Pids :
          /\ proc[p] = Free
          /\ proc' = [proc EXCEPT ![p] = [agent |-> a, state |-> "runs", child |-> TRUE]]
          /\ vms' = [vms EXCEPT ![a] = p]
     /\ failures' = [failures EXCEPT ![a] = 0]
     /\ todo' = <<Job("add", a)>> \o Tail(todo)
     /\ abandoned' = abandoned \ {a}
  /\ UNCHANGED <<pc, store, missed, egressVars>>

LaunchFails ==
  /\ Starting
  /\ todo' = Tail(todo)
  /\ abandoned' = IF Head(todo).job = "health-restart"
                  THEN abandoned \cup ({Head(todo).agent} \ Tracked) ELSE abandoned
  /\ UNCHANGED <<pc, store, tracking, missed, egressVars>>

(* VmManager::stop_agent: forget the VM, send SIGTERM, do not wait. *)
StopAgent(a) ==
  /\ vms' = [vms EXCEPT ![a] = NoPid] /\ failures' = [failures EXCEPT ![a] = 0]
  /\ proc' = [proc EXCEPT ![vms[a]].state = IF @ = "runs" THEN "stopping" ELSE @]

(* notify_egress_add, notify_egress_remove. *)
Notify ==
  /\ todo # <<>> /\ Head(todo).job \in {"add", "remove"}
  /\ egress = "up" /\ Len(inbox) < MaxInbox
  /\ inbox' = Append(inbox, Head(todo))
  /\ missed' = missed \ {Head(todo).agent}
  /\ todo' = Tail(todo)
  /\ UNCHANGED <<pc, store, tracking, abandoned,
                 egress, agents, kernel, stale>>

NotifyFails ==
  /\ todo # <<>> /\ Head(todo).job \in {"add", "remove"}
  /\ egress = "down"
  /\ missed' = missed \cup {Head(todo).agent}
  /\ todo' = Tail(todo)
  /\ UNCHANGED <<pc, store, tracking, abandoned, egressVars>>

(***************************************************************************)
(* The daemon.                                                             *)
(***************************************************************************)
(* run_daemon up to the main loop; the manifests come in any order.  What  *)
(* has no rootfs is one of the launches that fail.                         *)
Boot ==
  /\ pc = "down" /\ pc' = "reap"
  /\ manifests' = installed
  /\ \E s \in SetToSeqs(installed) : todo' = [i \in DOMAIN s |-> Job("start", s[i])]
  /\ UNCHANGED <<installed, tracking, history, egressVars>>

(* Mutant of Reap: handle_exit leaves the VM in the map. *)
ReapKeeping(p) ==
  /\ pc = "reap" /\ todo = <<>>
  /\ Zombie(p) /\ proc[p].child
  /\ proc' = [proc EXCEPT ![p] = Free]
  /\ todo' = [i \in 1..Cardinality({a \in Agents : vms[a] = p}) |->
                Job("remove", CHOOSE a \in Agents : vms[a] = p)]
  /\ UNCHANGED <<pc, vms, failures, store, history, egressVars>>

(* Mutant of Reap: egress hears of clean exits only. *)
ReapSilently(p) ==
  /\ pc = "reap" /\ todo = <<>>
  /\ Zombie(p) /\ proc[p].child
  /\ proc' = [proc EXCEPT ![p] = Free]
  /\ vms' = [a \in Agents |-> IF vms[a] = p THEN NoPid ELSE vms[a]]
  /\ failures' = [a \in Agents |-> IF vms[a] = p THEN 0 ELSE failures[a]]
  /\ todo' = IF proc[p].state = "clean" /\ proc[p].agent \in Tracked
             THEN <<Job("remove", proc[p].agent)>> ELSE <<>>
  /\ UNCHANGED <<pc, store, history, egressVars>>

(* reap_children.  Only an exit code other than 0 leads to a restart, not  *)
(* the end by a signal; a pid that handle_exit does not know was stopped   *)
(* before.                                                                 *)
Reap(p) ==
  /\ pc = "reap" /\ todo = <<>>
  /\ Zombie(p) /\ proc[p].child
  /\ proc' = [proc EXCEPT ![p] = Free]
  /\ \/ \E a \in Agents :
          /\ vms[a] = p
          /\ vms' = [vms EXCEPT ![a] = NoPid] /\ failures' = [failures EXCEPT ![a] = 0]
          /\ todo' = IF proc[p].state = "crashed" /\ a \in manifests
                     THEN <<Job("remove", a), Job("restart", a)>>
                     ELSE <<Job("remove", a)>>
     \/ (\A a \in Agents : vms[a] # p) /\ UNCHANGED <<vms, failures, todo>>
  /\ UNCHANGED <<pc, store, history, egressVars>>

EndReap ==
  /\ pc = "reap" /\ todo = <<>>
  /\ \A p \in Pids : ~(Zombie(p) /\ proc[p].child)
  /\ pc' = "sweep"
  /\ UNCHANGED <<todo, store, tracking, history, egressVars>>

(* Mutant of Sweep: one failure more is let pass. *)
SweepLater ==
  /\ pc = "sweep" /\ pc' = "accept"
  /\ \E due \in SUBSET (Watched \cap Tracked) : \E bad \in SUBSET due :
       /\ failures' = [a \in Agents |-> IF a \in bad THEN failures[a] + 1
                                        ELSE IF a \in due THEN 0 ELSE failures[a]]
       /\ \E s \in SetToSeqs({a \in bad : failures[a] + 1 > MaxFailures}) :
            todo' = [i \in DOMAIN s |-> Job("unhealthy", s[i])]
  /\ UNCHANGED <<store, vms, proc, history, egressVars>>

(* health_check_sweep: some of the watched VMs are due, some of those fail. *)
Sweep ==
  /\ pc = "sweep" /\ pc' = "accept"
  /\ \E due \in SUBSET (Watched \cap Tracked) : \E bad \in SUBSET due :
       /\ failures' = [a \in Agents |-> IF a \in bad THEN failures[a] + 1
                                        ELSE IF a \in due THEN 0 ELSE failures[a]]
       /\ \E s \in SetToSeqs({a \in bad : failures[a] + 1 >= MaxFailures}) :
            todo' = [i \in DOMAIN s |-> Job("unhealthy", s[i])]
  /\ UNCHANGED <<store, vms, proc, history, egressVars>>

(* run_daemon, for each name that the sweep returned.  Nothing is said to  *)
(* egress about the stop.                                                  *)
StopUnhealthy ==
  /\ todo # <<>> /\ Head(todo).job = "unhealthy"
  /\ StopAgent(Head(todo).agent)
  /\ todo' = <<Job("health-restart", Head(todo).agent)>> \o Tail(todo)
  /\ UNCHANGED <<pc, store, history, egressVars>>

(***************************************************************************)
(* Commands: any number of them over one connection.                       *)
(***************************************************************************)
HandleStart(a) ==
  /\ pc = "accept" /\ todo = <<>>
  /\ a \in manifests
  /\ todo' = <<Job("start", a)>>
  /\ UNCHANGED <<pc, store, tracking, history, egressVars>>

HandleStop(a) ==
  /\ pc = "accept" /\ todo = <<>>
  /\ a \in Tracked
  /\ StopAgent(a)
  /\ todo' = <<Job("remove", a)>>
  /\ UNCHANGED <<pc, store, history, egressVars>>

HandleDeploy(a) ==
  /\ pc = "accept" /\ todo = <<>>
  /\ installed' = installed \cup {a} /\ manifests' = manifests \cup {a}
  /\ todo' = <<Job("start", a)>>
  /\ UNCHANGED <<pc, tracking, history, egressVars>>

(* unpack_bundle fails after it has written the manifest. *)
HandleDeployFails(a) ==
  /\ pc = "accept" /\ todo = <<>>
  /\ installed' = installed \cup {a}
  /\ UNCHANGED <<daemon, manifests, tracking, history, egressVars>>

EndAccept ==
  /\ pc = "accept" /\ todo = <<>>
  /\ pc' = "reap"
  /\ UNCHANGED <<todo, store, tracking, history, egressVars>>

(***************************************************************************)
(* Processes end, and the daemons die; nulld starts them again.            *)
(***************************************************************************)
(* A VM of an earlier cage is reaped by nulld at once. *)
Exit(p) ==
  /\ Alive(p)
  /\ \/ proc[p].child /\ \E end \in {"clean", "crashed", "killed"} :
                             proc' = [proc EXCEPT ![p].state = end]
     \/ ~proc[p].child /\ proc' = [proc EXCEPT ![p] = Free]
  /\ UNCHANGED <<daemon, store, vms, failures, history, egressVars>>

(* The VMs outlive the daemon. *)
CageCrash ==
  /\ pc # "down" /\ pc' = "down"
  /\ todo' = <<>> /\ manifests' = {}
  /\ vms' = NoVms /\ failures' = [a \in Agents |-> 0]
  /\ proc' = [p \in Pids |-> IF Alive(p) THEN [proc[p] EXCEPT !.child = FALSE] ELSE Free]
  /\ missed' = missed \cup Tracked \cup {todo[i].agent : i \in DOMAIN todo}
  /\ UNCHANGED <<installed, abandoned, egressVars>>

EgressLoads == EgressStart /\ UNCHANGED cageVars
EgressWorks == EgressServes /\ UNCHANGED cageVars
EgressDies ==
  /\ EgressCrash
  /\ missed' = Agents
  /\ UNCHANGED <<daemon, store, tracking, abandoned>>

Daemon ==
  \/ Boot \/ Launch \/ LaunchFails \/ Notify \/ NotifyFails
  \/ \E p \in Pids : Reap(p)
  \/ EndReap \/ Sweep \/ StopUnhealthy \/ EndAccept

Command == \E a \in Agents :
  HandleStart(a) \/ HandleStop(a) \/ HandleDeploy(a) \/ HandleDeployFails(a)

Next ==
  \/ Daemon
  \/ Command
  \/ \E p \in Pids : Exit(p)
  \/ CageCrash
  \/ EgressLoads \/ EgressWorks
  \/ EgressDies

Spec == Init /\ [][Next]_vars

(* cage and egress keep running and nulld restarts them.  wait4 looks at   *)
(* the children from the oldest on, so a zombie is not passed over for     *)
(* ever, and a connection ends after 64 KiB.                               *)
FairSpec ==
  /\ Spec
  /\ WF_vars(Daemon) /\ SF_vars(EndAccept)
  /\ \A p \in Pids : SF_vars(Reap(p))
  /\ WF_vars(EgressLoads) /\ WF_vars(EgressWorks)

(***************************************************************************)
(* Properties.                                                             *)
(***************************************************************************)
TypeOK ==
  /\ pc \in {"down", "reap", "sweep", "accept"}
  /\ todo \in Seq(Jobs)
  /\ installed \subseteq Agents /\ manifests \subseteq Agents
  /\ vms \in [Agents -> Pids \cup {NoPid}]
  /\ failures \in [Agents -> 0..MaxFailures]
  /\ proc \in [Pids -> Processes \cup {Free}]
  /\ missed \subseteq Agents /\ abandoned \subseteq Agents
  /\ EgressTypeOK

(* vm.rs:53-174, main.rs:212-279.  The pid in the map is a child that cage *)
(* has not reaped, runs the agent it is filed under and was not told to    *)
(* stop: neither SIGTERM nor an exit status can meet another process.      *)
TracksOwnVm ==
  \A a \in Tracked :
    LET p == proc[vms[a]] IN p # Free /\ p.child /\ p.agent = a /\ p.state # "stopping"

(* vm.rs:61-63, 143-155.  A VM that cage started and did not tell to stop  *)
(* is in the map until it is reaped, so no agent has two of them, however  *)
(* stops, restarts and late exits interleave.                              *)
NoStrayVm ==
  \A p \in Pids :
    proc[p] # Free /\ proc[p].child /\ proc[p].state # "stopping" /\ Alive(p)
      => vms[proc[p].agent] = p

(* Nothing is under way in cage and nothing waits in egress. *)
Quiet == pc # "down" /\ todo = <<>> /\ egress = "up" /\ inbox = <<>>

(* main.rs:252, 361, egress main.rs:111-190.  With nothing under way, the  *)
(* addresses found for an agent that runs are let through, whatever was    *)
(* removed for others meanwhile, if egress heard of its last start and nft *)
(* loaded the last ruleset.                                                *)
ReachKept ==
  Quiet /\ ~stale =>
    \A a \in Tracked \ missed : a \in Registered /\ agents[a] \subseteq kernel

(* main.rs:229, 277, 423.  With nothing under way, an address is let       *)
(* through for an agent that runs or for one of which egress could not     *)
(* know better: its end was missed, or a health restart gave it up.        *)
ReachRevoked ==
  Quiet /\ ~stale =>
    \A ip \in kernel : ip \notin Blocked
                     /\ \E a \in Tracked \cup missed \cup abandoned : ip \in Domains[a]

(* docs/features/egress.md:103.  With no notification lost the firewall    *)
(* tracks exactly which agents are running.                                *)
FirewallTracksAgents == Quiet /\ missed = {} => Registered = Tracked

(* vm.rs:317-322.  An exit status other than 0, 128 + signal included, is  *)
(* a crash, after which the agent is restarted.                            *)
CrashRestarts ==
  [][\A a \in Tracked :
       pc = "reap" /\ todo = <<>> /\ a \in manifests
       /\ Zombie(vms[a]) /\ proc[vms[a]].state # "clean" /\ proc'[vms[a]] = Free /\ pc' = "reap"
         => \E i \in DOMAIN todo' : todo'[i] = Job("restart", a)]_vars

(* main.rs:131-132, 164-165.  The main loop accepts commands and reaps     *)
(* children in turn: however VMs end, it gets to the next command.         *)
CommandsHeard == pc = "reap" ~> pc \in {"accept", "down"}
=============================================================================
