------------------------------- MODULE Egress -------------------------------
(***************************************************************************)
(* egress: the default-deny firewall of pkg/egress (main.rs, firewall.rs). *)
(*                                                                         *)
(* The daemon accepts one connection at a time, so the requests waiting on *)
(* its socket form a queue.  It keeps a map from agents to the addresses   *)
(* their domains resolved to, and after every change loads a ruleset made  *)
(* from the whole map.  Rules are abstracted to the set of addresses they  *)
(* let through.  Names resolve to some of the addresses of the agent's     *)
(* domains, or to none.                                                    *)
(***************************************************************************)
EXTENDS Naturals, Sequences

CONSTANTS
  Agents,
  Ips,
  Blocked,         (* blocklist::is_blocked, and the drop rules            *)
  Domains,         (* what the domains in the manifest of an agent may     *)
                   (* resolve to                                           *)
  NoEntry,         (* the map holds nothing for an agent                   *)
  MaxInbox         (* bound: requests waiting on the socket                *)

ASSUME Addresses ==
  /\ Blocked \subseteq Ips
  /\ Domains \in [Agents -> SUBSET Ips]
  /\ \A S \in SUBSET Ips : S # NoEntry

ASSUME InboxBound == MaxInbox \in Nat

Requests == [job : {"add", "remove"}, agent : Agents]

VARIABLES
  egress,          (* "down" or "up"                                       *)
  inbox,           (* requests accepted by the socket, oldest first        *)
  agents,          (* agent -> addresses, or NoEntry                       *)
  kernel,          (* addresses the loaded rules let through               *)
  stale            (* history: the last ruleset did not reach the kernel   *)

egressVars == <<egress, inbox, agents, kernel, stale>>

NoAgents == [a \in Agents |-> NoEntry]
Registered == {a \in Agents : agents[a] # NoEntry}

(* Before the first ruleset nothing is filtered. *)
EgressInit ==
  /\ egress = "down" /\ inbox = <<>>
  /\ agents = NoAgents
  /\ kernel = Ips /\ stale = TRUE

(* firewall::generate_tsi_ruleset: the drop rules come first. *)
Ruleset(entries) == (UNION ({entries[a] : a \in Agents} \ {NoEntry})) \ Blocked

(* regenerate_and_apply.  When the rules file cannot be written the caller *)
(* gets an error, when nft fails it does not; the map keeps the change and *)
(* the kernel its rules either way.                                        *)
RegenerateAndApply(entries) ==
  \/ kernel' = Ruleset(entries) /\ stale' = FALSE
  \/ stale' = TRUE /\ UNCHANGED kernel

(* run: an egress that cannot write the first rules file exits again.      *)
EgressStart ==
  /\ egress = "down"
  /\ egress' = "up"
  /\ RegenerateAndApply(agents)
  /\ UNCHANGED <<inbox, agents>>

Take == egress = "up" /\ inbox # <<>> /\ inbox' = Tail(inbox)

(* resolve_domains: some of the addresses, none when the resolver fails. *)
Resolved(a) == SUBSET Domains[a]

HandleAddAgent ==
  /\ Take /\ Head(inbox).job = "add"
  /\ \E resolved \in Resolved(Head(inbox).agent) :
       agents' = [agents EXCEPT ![Head(inbox).agent] = resolved \ Blocked]
  /\ RegenerateAndApply(agents')
  /\ UNCHANGED egress

(* Mutant of HandleRemoveAgent: only the rules of the agent are deleted. *)
HandleRemoveAgentRules ==
  /\ Take /\ Head(inbox).job = "remove"
  /\ Head(inbox).agent \in Registered
  /\ kernel' = kernel \ agents[Head(inbox).agent] /\ stale' = FALSE
  /\ agents' = [agents EXCEPT ![Head(inbox).agent] = NoEntry]
  /\ UNCHANGED egress

HandleRemoveAgent ==
  /\ Take /\ Head(inbox).job = "remove"
  /\ Head(inbox).agent \in Registered
  /\ agents' = [agents EXCEPT ![Head(inbox).agent] = NoEntry]
  /\ RegenerateAndApply(agents')
  /\ UNCHANGED egress

HandleRemoveUnknown ==
  /\ Take /\ Head(inbox).job = "remove"
  /\ Head(inbox).agent \notin Registered
  /\ UNCHANGED <<egress, agents, kernel, stale>>

EgressServes == HandleAddAgent \/ HandleRemoveAgent \/ HandleRemoveUnknown

(* The map and the waiting requests are lost; the rules stay loaded. *)
EgressCrash ==
  /\ egress = "up" /\ egress' = "down"
  /\ inbox' = <<>> /\ agents' = NoAgents
  /\ UNCHANGED <<kernel, stale>>

EgressTypeOK ==
  /\ egress \in {"down", "up"}
  /\ inbox \in Seq(Requests) /\ Len(inbox) <= MaxInbox
  /\ agents \in [Agents -> {NoEntry} \cup SUBSET Ips]
  /\ kernel \subseteq Ips
  /\ stale \in BOOLEAN
=============================================================================
