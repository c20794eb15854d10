---------------------------- MODULE SharedMemory ----------------------------
(***************************************************************************)
(* What ctxgraph promises the agents, without threads, mutex or SQL: a     *)
(* memory that only grows, in which a content is entered once under its    *)
(* name, with a time; two contents of one name are one to the memory.  A   *)
(* call takes effect at one moment between the request and the answer; a   *)
(* call whose answer is lost may have taken effect or not.  The end of the *)
(* machine empties the memory.                                             *)
(***************************************************************************)
EXTENDS Naturals, FiniteSets

CONSTANTS
  Clients,
  Writes,        (* what is written: records with a content                *)
  Lookups,       (* what is asked                                          *)
  Name(_),       (* what a content is known by                             *)
  Meanings(_),   (* the sets of contents that a lookup may be taken for    *)
  Invalid,       (* a request that is refused                              *)
  NoCall

VARIABLES
  memory,        (* the set of records [content, time]                     *)
  now,
  status, call, reply     (* per client; status "idle", "pending", "done"  *)

calls == <<status, call, reply>>
vars  == <<memory, now, calls>>

Init ==
  /\ memory = {} /\ now = 0
  /\ status = [c \in Clients |-> "idle"]
  /\ call = [c \in Clients |-> NoCall] /\ reply = [c \in Clients |-> NoCall]

Known == {Name(m.content) : m \in memory}

(* The ways to list a set of entries newest first. *)
NewestFirst(S) ==
  {s \in [1..Cardinality(S) -> S] :
     \A i, j \in DOMAIN s : i < j => s[i] # s[j] /\ s[i].time >= s[j].time}

Call(c) ==
  /\ status[c] = "idle"
  /\ \E r \in Writes \cup Lookups \cup {Invalid} : call' = [call EXCEPT ![c] = r]
  /\ status' = [status EXCEPT ![c] = "pending"]
  /\ UNCHANGED <<memory, now, reply>>

Finish(c, a) ==
  /\ status[c] = "pending"
  /\ status' = [status EXCEPT ![c] = "done"]
  /\ reply' = [reply EXCEPT ![c] = a]
  /\ UNCHANGED <<now, call>>

(* A new content gets a time no earlier than any before it; under a known  *)
(* name the memory keeps the content and the time it has.                  *)
Write(c) ==
  /\ call[c] \in Writes
  /\ Finish(c, [ok |-> Name(call[c].content)])
  /\ \/ Name(call[c].content) \in Known /\ UNCHANGED memory
     \/ /\ Name(call[c].content) \notin Known
        /\ \E t \in 0..now :
             /\ \A m \in memory : m.time <= t
             /\ memory' = memory \cup {[content |-> call[c].content, time |-> t]}

(* All the entries asked for, each once. *)
Lookup(c) ==
  /\ call[c] \in Lookups
  /\ \E W \in Meanings(call[c]) : \E s \in NewestFirst({m \in memory : m.content \in W}) :
       Finish(c, [entries |-> s])
  /\ UNCHANGED memory

Refuse(c) == Finish(c, [error |-> TRUE]) /\ UNCHANGED memory

(* The answer arrives, or the client learns that there will be none. *)
Return(c) ==
  /\ status[c] # "idle"
  /\ status' = [status EXCEPT ![c] = "idle"]
  /\ call' = [call EXCEPT ![c] = NoCall] /\ reply' = [reply EXCEPT ![c] = NoCall]
  /\ UNCHANGED <<memory, now>>

Hangup ==
  /\ status' = [c \in Clients |-> "idle"]
  /\ call' = [c \in Clients |-> NoCall] /\ reply' = [c \in Clients |-> NoCall]
  /\ UNCHANGED now

Crash == Hangup /\ UNCHANGED memory

Reboot == Hangup /\ memory' = {}

Tick == now' = now + 1 /\ UNCHANGED <<memory, calls>>

Next ==
  \/ \E c \in Clients : Call(c) \/ Write(c) \/ Lookup(c) \/ Refuse(c) \/ Return(c)
  \/ Crash \/ Reboot \/ Tick

Spec == Init /\ [][Next]_vars
=============================================================================
