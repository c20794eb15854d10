----------------------------- MODULE Supervisor -----------------------------
(***************************************************************************)
(* nulld, the init process: cmd/nulld/src/main.rs (run), supervisor.rs,    *)
(* signal.rs and the shutdown command of control.rs, with the part of the  *)
(* kernel they rely on: a process table whose pids are reused, children    *)
(* that become zombies, orphans that are given to PID 1, SIGTERM, SIGKILL. *)
(*                                                                         *)
(* The configuration has been loaded and its dependency graph accepted     *)
(* (module StartOrder says what that means); a rejected one ends in the    *)
(* recovery hold before any service exists.  Time advances in ticks, at    *)
(* any moment between two steps of nulld.                                  *)
(***************************************************************************)
EXTENDS ServiceGraph, Integers

CONSTANTS
  Services,        (* names of the configured services                     *)
  Needs,           (* depends_on, as a set per service                     *)
  Policy,          (* restart: "always", "on-failure" or "never"           *)
  Pids,            (* the pids the kernel hands out                        *)
  NoPid,           (* Option::None                                         *)
  Nobody,          (* owner of a process nulld did not spawn               *)
  InitialBackoff,  (* INITIAL_BACKOFF, in ticks                            *)
  MaxBackoff,      (* MAX_BACKOFF                                          *)
  Stable,          (* the 300 s after which a run counts as stable         *)
  Grace,           (* the 5 s between SIGTERM and SIGKILL                  *)
  MaxRestarts,     (* bound: a service whose restart_count is this high    *)
                   (* does not exit by itself again                        *)
  MaxOrphans       (* bound: orphans given to PID 1                        *)

ASSUME GraphAccepted ==
  /\ IsFiniteSet(Services) /\ Services # {}
  /\ Needs \in [Services -> SUBSET Services]
  /\ Policy \in [Services -> {"always", "on-failure", "never"}]

ASSUME ProcessIds == NoPid \notin Pids /\ Nobody \notin Services

ASSUME Durations ==
  /\ InitialBackoff \in Nat \ {0} /\ MaxBackoff \in Nat \ {0}
  /\ Stable \in Nat /\ MaxBackoff <= Stable
  /\ Grace \in Nat
  /\ MaxRestarts \in Nat /\ MaxOrphans \in Nat

VARIABLES
  (* The kernel. *)
  life,            (* per pid: "free", "alive", "killed" (SIGKILL pending) *)
                   (* or "zombie"                                          *)
  owner,           (* per pid: the service it was spawned for, or Nobody   *)
  why,             (* per pid: how it ended: "ok", "fail" or "signal"      *)
  adopted,         (* orphans so far                                       *)
  (* ManagedService. *)
  pid, state, restart_count,
  age,             (* ticks since last_start, saturated at Stable + 1      *)
  due,             (* ticks until next_restart; <= 0 when it has passed    *)
  (* nulld's control. *)
  start_order,
  pc,              (* the statement nulld is at                            *)
  idx,             (* position in start_order of start_all and stop_all    *)
  reaped,          (* result of reap_children not handled yet              *)
  ready,           (* services process_restarts has found due              *)
  target,          (* the pid stop_all waits for                           *)
  grace,           (* ticks until its deadline                             *)
  shutdown,        (* SHUTDOWN_REQUESTED                                   *)
  (* History. *)
  lastExit         (* per service: how its last process ended, or "none"   *)

kernel   == <<life, owner, why, adopted>>
services == <<pid, state, restart_count, age, due>>
control  == <<pc, idx, reaped, ready, target, grace>>
vars     == <<kernel, services, control, start_order, shutdown, lastExit>>

Reasons == {"ok", "fail", "signal"}

(* Every order resolve_start_order may return for this configuration. *)
StartOrders ==
  {o \in [1 .. Cardinality(Services) -> Services] :
     IsInjective(o) /\ RespectsNeeds(o, Needs)}

Smaller(a, b) == IF a < b THEN a ELSE b

calculate_backoff(count) ==
  Smaller(InitialBackoff * 2 ^ Smaller(count, 30), MaxBackoff)

Init ==
  /\ life = [p \in Pids |-> "free"]
  /\ owner = [p \in Pids |-> Nobody]
  /\ why = [p \in Pids |-> "ok"]
  /\ adopted = 0
  /\ pid = [s \in Services |-> NoPid]
  /\ state = [s \in Services |-> "stopped"]
  /\ restart_count = [s \in Services |-> 0]
  /\ age = [s \in Services |-> 0]
  /\ due = [s \in Services |-> 0]
  /\ start_order \in StartOrders
  /\ pc = "start" /\ idx = 1
  /\ reaped = << >> /\ ready = {}
  /\ target = NoPid /\ grace = 0
  /\ shutdown = FALSE
  /\ lastExit = [s \in Services |-> "none"]

(***************************************************************************)
(* The world around nulld.                                                 *)
(***************************************************************************)
PoweredOn == pc # "off"

(* A process of a service or an orphan exits or dies of a signal: it stays *)
(* in the process table until it is waited for.                            *)
ProcessEnds(p, reason) ==
  /\ PoweredOn
  /\ life[p] \in {"alive", "killed"}
  /\ owner[p] \in Services /\ life[p] = "alive"
       => restart_count[owner[p]] < MaxRestarts
  /\ life[p] = "killed" => reason = "signal"
  /\ life' = [life EXCEPT ![p] = "zombie"]
  /\ why' = [why EXCEPT ![p] = reason]
  /\ lastExit' = IF owner[p] \in Services
                   THEN [lastExit EXCEPT ![owner[p]] = reason] ELSE lastExit
  /\ UNCHANGED <<owner, adopted, services, control, start_order, shutdown>>

(* A process some service forked loses its parent: PID 1 becomes its       *)
(* parent.  Its pid is any free one, so also one that was just reaped.     *)
Adopt(p) ==
  /\ PoweredOn
  /\ adopted < MaxOrphans
  /\ life[p] = "free"
  /\ life' = [life EXCEPT ![p] = "alive"]
  /\ adopted' = adopted + 1
  /\ UNCHANGED <<owner, why, services, control, start_order, shutdown,
                 lastExit>>

(* handle_shutdown: SIGTERM or SIGINT may reach nulld at any statement. *)
ShutdownSignal ==
  /\ PoweredOn
  /\ shutdown' = TRUE
  /\ UNCHANGED <<kernel, services, control, start_order, lastExit>>

Tick ==
  /\ PoweredOn
  /\ age' = [s \in Services |-> Smaller(age[s] + 1, Stable + 1)]
  /\ due' = [s \in Services |-> IF due[s] > 0 THEN due[s] - 1 ELSE due[s]]
  /\ grace' = IF grace > 0 THEN grace - 1 ELSE 0
  /\ UNCHANGED <<kernel, pid, state, restart_count, pc, idx, reaped, ready,
                 target, start_order, shutdown, lastExit>>

(***************************************************************************)
(* start_service: spawn_process succeeds with a fresh pid, or fails and    *)
(* leaves the service "failed".                                            *)
(***************************************************************************)
Spawned(s, p) ==
  /\ life[p] = "free"
  /\ life' = [life EXCEPT ![p] = "alive"]
  /\ owner' = [owner EXCEPT ![p] = s]
  /\ pid' = [pid EXCEPT ![s] = p]
  /\ state' = [state EXCEPT ![s] = "running"]
  /\ age' = [age EXCEPT ![s] = 0]
  /\ UNCHANGED <<why, adopted, restart_count, due>>

SpawnFailed(s) ==
  /\ state' = [state EXCEPT ![s] = "failed"]
  /\ UNCHANGED <<kernel, pid, restart_count, age, due>>

(* start_all; its `?` gives up at the first failure and main enters the    *)
(* recovery hold, where nulld only sleeps.                                 *)
StartAll ==
  /\ pc = "start"
  /\ idx <= Len(start_order)
  /\ LET s == start_order[idx] IN
       \/ /\ \E p \in Pids : Spawned(s, p)
          /\ idx' = idx + 1
          /\ UNCHANGED pc
       \/ /\ SpawnFailed(s)
          /\ pc' = "hold"
          /\ UNCHANGED idx
  /\ UNCHANGED <<reaped, ready, target, grace, start_order, shutdown,
                 lastExit>>

AllStarted ==
  /\ pc = "start"
  /\ idx > Len(start_order)
  /\ pc' = "check"
  /\ UNCHANGED <<kernel, services, idx, reaped, ready, target, grace,
                 start_order, shutdown, lastExit>>

(***************************************************************************)
(* run_until_shutdown.                                                     *)
(***************************************************************************)
(* Mutant of CheckFlag: stopping begins at the front of start_order.       *)
CheckFlagForward ==
  /\ pc = "check"
  /\ pc' = IF shutdown THEN "stop" ELSE "reap"
  /\ idx' = IF shutdown THEN 1 ELSE idx
  /\ UNCHANGED <<kernel, services, reaped, ready, target, grace, start_order,
                 shutdown, lastExit>>

CheckFlag ==
  /\ pc = "check"
  /\ pc' = IF shutdown THEN "stop" ELSE "reap"
  /\ idx' = IF shutdown THEN Len(start_order) ELSE idx
  /\ UNCHANGED <<kernel, services, reaped, ready, target, grace, start_order,
                 shutdown, lastExit>>

(* Mutant of Reap: only the pids of services are waited for. *)
ReapKnown(p) ==
  /\ pc = "reap"
  /\ life[p] = "zombie"
  /\ \E s \in Services : pid[s] = p
  /\ reaped' = Append(reaped, [pid |-> p, reason |-> why[p]])
  /\ life' = [life EXCEPT ![p] = "free"]
  /\ owner' = [owner EXCEPT ![p] = Nobody]
  /\ why' = [why EXCEPT ![p] = "ok"]
  /\ UNCHANGED <<adopted, services, pc, idx, ready, target, grace,
                 start_order, shutdown, lastExit>>

(* reap_children: waitpid(-1, WNOHANG) until no zombie is left.  The pid   *)
(* is free for the kernel as soon as waitpid returns it.                   *)
Reap(p) ==
  /\ pc = "reap"
  /\ life[p] = "zombie"
  /\ reaped' = Append(reaped, [pid |-> p, reason |-> why[p]])
  /\ life' = [life EXCEPT ![p] = "free"]
  /\ owner' = [owner EXCEPT ![p] = Nobody]
  /\ why' = [why EXCEPT ![p] = "ok"]
  /\ UNCHANGED <<adopted, services, pc, idx, ready, target, grace,
                 start_order, shutdown, lastExit>>

ReapDone ==
  /\ pc = "reap"
  /\ \A p \in Pids : life[p] # "zombie"
  /\ pc' = "handle"
  /\ UNCHANGED <<kernel, services, idx, reaped, ready, target, grace,
                 start_order, shutdown, lastExit>>

ShouldRestart(s, reason) ==
  \/ Policy[s] = "always"
  \/ Policy[s] = "on-failure" /\ reason \in {"fail", "signal"}

(* Mutant of ScheduleRestart: the count runs down. *)
ScheduleCountdown(s) ==
  LET count == IF age[s] > Stable THEN 0 ELSE restart_count[s] IN
  /\ state' = [state EXCEPT ![s] = "waitingrestart"]
  /\ due' = [due EXCEPT ![s] = calculate_backoff(count)]
  /\ restart_count' = [restart_count EXCEPT ![s] = count - 1]

(* Mutant of ScheduleRestart: every backoff is the first one. *)
ScheduleFlat(s) ==
  LET count == IF age[s] > Stable THEN 0 ELSE restart_count[s] IN
  /\ state' = [state EXCEPT ![s] = "waitingrestart"]
  /\ due' = [due EXCEPT ![s] = calculate_backoff(0)]
  /\ restart_count' = [restart_count EXCEPT ![s] = count + 1]

(* handle_child_exit for a pid some service holds. *)
ScheduleRestart(s) ==
  LET count == IF age[s] > Stable THEN 0 ELSE restart_count[s] IN
  /\ state' = [state EXCEPT ![s] = "waitingrestart"]
  /\ due' = [due EXCEPT ![s] = calculate_backoff(count)]
  /\ restart_count' = [restart_count EXCEPT ![s] = count + 1]

GiveUp(s) ==
  /\ state' = [state EXCEPT ![s] = "failed"]
  /\ UNCHANGED <<due, restart_count>>

(* Mutant of HandleServiceExit: the pid of an ended process is kept. *)
HandleKeepingPid(s) ==
  /\ pc = "handle"
  /\ reaped # << >>
  /\ pid[s] = Head(reaped).pid
  /\ IF ShouldRestart(s, Head(reaped).reason) THEN ScheduleRestart(s) ELSE GiveUp(s)
  /\ reaped' = Tail(reaped)
  /\ UNCHANGED <<kernel, pid, age, pc, idx, ready, target, grace, start_order,
                 shutdown, lastExit>>

(* Mutant of HandleServiceExit: the last exit reaped is handled first. *)
HandleLastExit(s) ==
  LET last == reaped[Len(reaped)] IN
  /\ pc = "handle"
  /\ reaped # << >>
  /\ pid[s] = last.pid
  /\ pid' = [pid EXCEPT ![s] = NoPid]
  /\ IF ShouldRestart(s, last.reason) THEN ScheduleRestart(s) ELSE GiveUp(s)
  /\ reaped' = SubSeq(reaped, 1, Len(reaped) - 1)
  /\ UNCHANGED <<kernel, age, pc, idx, ready, target, grace, start_order,
                 shutdown, lastExit>>

HandleServiceExit(s) ==
  /\ pc = "handle"
  /\ reaped # << >>
  /\ pid[s] = Head(reaped).pid
  /\ pid' = [pid EXCEPT ![s] = NoPid]
  /\ IF ShouldRestart(s, Head(reaped).reason) THEN ScheduleRestart(s) ELSE GiveUp(s)
  /\ reaped' = Tail(reaped)
  /\ UNCHANGED <<kernel, age, pc, idx, ready, target, grace, start_order,
                 shutdown, lastExit>>

(* handle_child_exit for a pid no service holds: an orphan's. *)
HandleOrphanExit ==
  /\ pc = "handle"
  /\ reaped # << >>
  /\ \A s \in Services : pid[s] # Head(reaped).pid
  /\ reaped' = Tail(reaped)
  /\ UNCHANGED <<kernel, services, pc, idx, ready, target, grace, start_order,
                 shutdown, lastExit>>

(* Mutant of CollectDue: the state is not looked at, and next_restart is   *)
(* never cleared.                                                          *)
CollectStale ==
  /\ pc = "handle"
  /\ reaped = << >>
  /\ ready' = {s \in Services : restart_count[s] > 0 /\ due[s] <= 0}
  /\ pc' = "restart"
  /\ UNCHANGED <<kernel, services, idx, reaped, target, grace, start_order,
                 shutdown, lastExit>>

(* Mutant of CollectDue: a restart waits until all dependencies run. *)
CollectSatisfied ==
  /\ pc = "handle"
  /\ reaped = << >>
  /\ ready' = {s \in Services :
                 /\ state[s] = "waitingrestart" /\ due[s] <= 0
                 /\ \A d \in Needs[s] : state[d] = "running"}
  /\ pc' = "restart"
  /\ UNCHANGED <<kernel, services, idx, reaped, target, grace, start_order,
                 shutdown, lastExit>>

(* process_restarts: the services found due first, then started one after  *)
(* the other in the order a HashMap gives them.                            *)
CollectDue ==
  /\ pc = "handle"
  /\ reaped = << >>
  /\ ready' = {s \in Services : state[s] = "waitingrestart" /\ due[s] <= 0}
  /\ pc' = "restart"
  /\ UNCHANGED <<kernel, services, idx, reaped, target, grace, start_order,
                 shutdown, lastExit>>

Restart(s) ==
  /\ pc = "restart"
  /\ s \in ready
  /\ \/ \E p \in Pids : Spawned(s, p)
     \/ SpawnFailed(s)
  /\ ready' = ready \ {s}
  /\ UNCHANGED <<pc, idx, reaped, target, grace, start_order, shutdown,
                 lastExit>>

(* ControlSocket::poll, where a client may have asked for the shutdown,    *)
(* and the sleep that ends the iteration.                                  *)
PollControl ==
  /\ pc = "restart"
  /\ ready = {}
  /\ shutdown' \in {shutdown, TRUE}
  /\ pc' = "check"
  /\ UNCHANGED <<kernel, services, idx, reaped, ready, target, grace,
                 start_order, lastExit>>

(***************************************************************************)
(* stop_all.                                                               *)
(***************************************************************************)
(* A service without a pid is passed over, whatever its state says. *)
StopSkip ==
  /\ pc = "stop"
  /\ idx \in DOMAIN start_order
  /\ pid[start_order[idx]] = NoPid
  /\ idx' = idx - 1
  /\ UNCHANGED <<kernel, services, pc, reaped, ready, target, grace,
                 start_order, shutdown, lastExit>>

(* The pid is taken and sent SIGTERM, which the process may ignore. *)
StopTerm ==
  /\ pc = "stop"
  /\ idx \in DOMAIN start_order
  /\ pid[start_order[idx]] # NoPid
  /\ target' = pid[start_order[idx]]
  /\ pid' = [pid EXCEPT ![start_order[idx]] = NoPid]
  /\ grace' = Grace
  /\ pc' = "wait"
  /\ UNCHANGED <<kernel, state, restart_count, age, due, idx, reaped, ready,
                 start_order, shutdown, lastExit>>

Stopped ==
  /\ state' = [state EXCEPT ![start_order[idx]] = "stopped"]
  /\ target' = NoPid
  /\ grace' = 0
  /\ idx' = idx - 1
  /\ pc' = "stop"
  /\ UNCHANGED <<adopted, pid, restart_count, age, due, reaped, ready,
                 start_order, shutdown, lastExit>>

StopReaped ==
  /\ pc = "wait"
  /\ grace > 0
  /\ life[target] = "zombie"
  /\ life' = [life EXCEPT ![target] = "free"]
  /\ owner' = [owner EXCEPT ![target] = Nobody]
  /\ why' = [why EXCEPT ![target] = "ok"]
  /\ Stopped

(* Mutant of StopKill: the deadline only ends the waiting. *)
StopGiveUp ==
  /\ pc = "wait"
  /\ grace = 0
  /\ UNCHANGED <<life, owner, why>>
  /\ Stopped

(* Mutant of StopKill: there is no deadline. *)
StopPatiently ==
  /\ pc = "wait"
  /\ grace = 0
  /\ life[target] = "zombie"
  /\ UNCHANGED <<life, owner, why>>
  /\ Stopped

(* After the deadline SIGKILL is sent and the process is not waited for. *)
StopKill ==
  /\ pc = "wait"
  /\ grace = 0
  /\ life' = [life EXCEPT ![target] = IF @ = "alive" THEN "killed" ELSE @]
  /\ UNCHANGED <<owner, why>>
  /\ Stopped

(* run returns, main reboots the machine. *)
PowerOff ==
  /\ pc = "stop"
  /\ idx \notin DOMAIN start_order
  /\ pc' = "off"
  /\ UNCHANGED <<kernel, services, idx, reaped, ready, target, grace,
                 start_order, shutdown, lastExit>>

Nulld ==
  \/ StartAll
  \/ AllStarted
  \/ CheckFlag
  \/ \E p \in Pids : Reap(p)
  \/ ReapDone
  \/ \E s \in Services : HandleServiceExit(s)
  \/ HandleOrphanExit
  \/ CollectDue
  \/ \E s \in ready : Restart(s)
  \/ PollControl
  \/ StopSkip
  \/ StopTerm
  \/ StopReaped
  \/ StopKill
  \/ PowerOff

Next ==
  \/ Nulld
  \/ Tick
  \/ \E p \in Pids, reason \in Reasons : ProcessEnds(p, reason)
  \/ \E p \in Pids : Adopt(p)
  \/ ShutdownSignal

Spec == Init /\ [][Next]_vars

(* nulld is a thread that never blocks for longer than its own sleeps and  *)
(* the socket timeouts, and time passes.  Nothing is assumed of the        *)
(* services: they may run for ever and ignore SIGTERM.                     *)
FairSpec == Spec /\ WF_vars(Nulld) /\ WF_vars(Tick)

(***************************************************************************)
(* Properties.                                                             *)
(***************************************************************************)
TypeOK ==
  /\ life \in [Pids -> {"free", "alive", "killed", "zombie"}]
  /\ owner \in [Pids -> Services \cup {Nobody}]
  /\ why \in [Pids -> Reasons]
  /\ adopted \in Nat
  /\ pid \in [Services -> Pids \cup {NoPid}]
  /\ state \in [Services -> {"stopped", "running", "failed", "waitingrestart"}]
  /\ restart_count \in [Services -> Nat]
  /\ age \in [Services -> Nat]
  /\ due \in [Services -> Int]
  /\ start_order \in StartOrders
  /\ pc \in {"start", "check", "reap", "handle", "restart", "stop", "wait",
             "hold", "off"}
  /\ idx \in 0 .. Cardinality(Services) + 1
  /\ reaped \in Seq([pid : Pids, reason : Reasons])
  /\ ready \subseteq Services
  /\ target \in Pids \cup {NoPid}
  /\ grace \in Nat
  /\ shutdown \in BOOLEAN
  /\ lastExit \in [Services -> Reasons \cup {"none"}]

(* supervisor.rs:157-226.  A service never has two processes: a restart    *)
(* can not overtake the end of the process it replaces, whatever the order *)
(* of exits, reaping, ticks and pid reuse.                                 *)
OneProcess ==
  \A p, q \in Pids :
    owner[p] = owner[q] /\ owner[p] \in Services => p = q

(* supervisor.rs:250-280.  Every pid stop_all signals or waits for is a    *)
(* child spawned for that service and not reaped yet; a pid that has been  *)
(* reaped could by then belong to any process.                             *)
SignalsOwnChild ==
  /\ pc = "stop" =>
       \A s \in Services : pid[s] # NoPid =>
         owner[pid[s]] = s /\ life[pid[s]] # "free"
  /\ pc = "wait" =>
       owner[target] = start_order[idx] /\ life[target] # "free"

(* supervisor.rs:244-288, main.rs:80-84.  When the machine is rebooted no  *)
(* process of a service runs that has not at least been sent SIGKILL.      *)
CleanShutdown ==
  pc = "off" => \A p \in Pids : owner[p] \in Services => life[p] # "alive"

(* supervisor.rs:243-246.  While a service is being stopped, every service *)
(* that needs it is already gone.                                          *)
StopOrder ==
  pc = "wait" =>
    \A p \in Pids :
      /\ owner[p] \in Services
      /\ start_order[idx] \in Needs[owner[p]]
      => life[p] # "alive"

(* supervisor.rs:172-179.  The verdict on a service is the one its policy  *)
(* gives for the way its own process ended, not for the exit of a later    *)
(* process that got the same pid.                                          *)
ExitJudged ==
  \A s \in Services :
    state[s] = "waitingrestart" => ShouldRestart(s, lastExit[s])

(* supervisor.rs:181-191.  Two starts of a service are at least the        *)
(* backoff apart that its count of restarts asks for.                      *)
RestartsSpaced ==
  [][\A s \in Services :
       pid[s] = NoPid /\ pid'[s] # NoPid /\ restart_count[s] > 0
         => age[s] >= calculate_backoff(restart_count[s] - 1)]_vars

(* supervisor.rs:135-153, 254-281.  A shutdown request is carried out, or  *)
(* nulld is in the recovery hold: no backoff, no burst of exits and no     *)
(* service that ignores SIGTERM can hold it up for ever.                   *)
ShutdownCompletes == shutdown ~> pc \in {"off", "hold"}

(* supervisor.rs:207-226.  A service waiting for its restart is started    *)
(* when the backoff is over, unless nulld stops or the spawn fails.        *)
RestartHappens ==
  \A s \in Services :
    state[s] = "waitingrestart" ~>
      state[s] \in {"running", "failed"} \/ pc \in {"stop", "wait", "off"}

(* signal.rs:55-78.  As long as nulld supervises, every zombie is reaped,  *)
(* a service's or an orphan's.                                             *)
ZombiesReaped ==
  \A p \in Pids :
    life[p] = "zombie" ~>
      life[p] # "zombie" \/ pc \in {"hold", "stop", "wait", "off"}

(* The restart policy "always", as the documentation of nulld states it: a *)
(* service that is down is started again.  Not so after a failed spawn.    *)
AlwaysMeansAlways ==
  \A s \in Services :
    pc # "start" /\ Policy[s] = "always" /\ state[s] = "failed" ~>
      state[s] = "running" \/ pc \in {"hold", "stop", "wait", "off"}
=============================================================================
