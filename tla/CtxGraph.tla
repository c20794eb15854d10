------------------------------ MODULE CtxGraph ------------------------------
(***************************************************************************)
(* ctxgraph: the daemon of pkg/ctxgraph/src/main.rs, one thread per        *)
(* connection, with the store of store.rs behind one mutex and the content *)
(* address of entry.rs.                                                    *)
(*                                                                         *)
(* Agent ids, keys and prefixes are sequences of characters, NUL among     *)
(* them, for the hash joins them and LIKE takes them apart; a value is one *)
(* character.  The digest is injective in what it is given.  The clock,    *)
(* which nothing in the repository sets, does not go back.  SQLite, a      *)
(* library, runs every statement as a whole or not at all, on a file in    *)
(* the tmpfs at /var: the end of the daemon leaves it, the end of the      *)
(* machine does not.                                                       *)
(***************************************************************************)
EXTENDS Naturals, FiniteSets, SequencesExt

CONSTANTS
  Clients,          (* connections, of agents by TCP or of host services   *)
  Chars,
  Contents,         (* the records [agent, key, value] that clients write  *)
  Sought,           (* the prefixes that clients query                     *)
  Nul,              (* the character between the parts of what is hashed,  *)
                    (* at which a text ends for LIKE                       *)
  Fold(_),          (* a character without its case                        *)
  Nobody, NoRequest,
  MaxTime           (* bound of the clock, in seconds                      *)

(* Names are not empty, which the handlers check (HandleInvalid); a value  *)
(* has no NUL character, for its JSON is what is hashed.                   *)
ASSUME NamesAssumption ==
  /\ Nul \in Chars
  /\ \A x \in Contents :
       x \in [agent : Seq(Chars) \ {<<>>}, key : Seq(Chars) \ {<<>>}, value : Chars \ {Nul}]
  /\ Sought \subseteq Seq(Chars)

(* NUL is not a letter, nor a character of patterns. *)
ASSUME CharsAssumption ==
  /\ Nul \notin {"%", "_", "\\"}
  /\ \A ch \in Chars : Fold(ch) = Fold(Nul) => ch = Nul

ASSUME BoundsAssumption == Nobody \notin Clients /\ MaxTime \in Nat

(***************************************************************************)
(* Content addresses and patterns.                                         *)
(***************************************************************************)
(* Mutant of compute_hash: the agent is left out. *)
HashUnscoped(x) == x.key \o <<Nul>> \o <<x.value>>

Names(x) == x.agent \o <<Nul>> \o x.key

compute_hash(x) == Names(x) \o <<Nul>> \o <<x.value>>

Hashes == {compute_hash(x) : x \in Contents}

(* Mutant of Pattern: the prefix is used as it is. *)
PatternRaw(prefix) == prefix \o <<"%">>

Pattern(prefix) ==
  FlattenSeq([i \in 1..Len(prefix) |->
                IF prefix[i] \in {"%", "_"} THEN <<"\\", prefix[i]>> ELSE <<prefix[i]>>])
  \o <<"%">>

(* s LIKE p ESCAPE '\', of characters that Fold makes the same: SQLite's   *)
(* LIKE takes no notice of the case of ASCII letters.  from[j]: where in s *)
(* the rest of the pattern from its j-th character on matches the rest.    *)
Like(s, p) ==
  LET from[j \in 1..Len(p) + 1] ==
        IF j > Len(p) THEN {Len(s) + 1}
        ELSE IF p[j] = "%" THEN {i \in 1..Len(s) + 1 : \E k \in from[j + 1] : i <= k}
        ELSE IF p[j] = "_" THEN {i \in 1..Len(s) : i + 1 \in from[j + 1]}
        ELSE IF p[j] # "\\"
             THEN {i \in 1..Len(s) : Fold(s[i]) = Fold(p[j]) /\ i + 1 \in from[j + 1]}
        ELSE {i \in 1..Len(s) : j < Len(p) /\ Fold(s[i]) = Fold(p[j + 1]) /\ i + 1 \in from[j + 2]}
  IN 1 \in from[1]

(* What LIKE sees of a text: up to its first NUL character. *)
Text(s) ==
  LET ends == {i \in DOMAIN s : s[i] = Nul}
  IN IF ends = {} THEN s ELSE SubSeq(s, 1, Min(ends) - 1)

(***************************************************************************)
(* Requests, rows and answers.                                             *)
(***************************************************************************)
Writes  == [op : {"write"}, content : Contents]
Lookups == [op : {"read"}, hash : Hashes] \cup [op : {"query"}, prefix : Sought]
           \cup [op : {"history"}, key : {x.key : x \in Contents}]
Invalid  == [op |-> "invalid"]
Requests == Writes \cup Lookups \cup {Invalid}

Rows == [hash : Hashes, content : Contents, time : 0..MaxTime]

Error   == [error |-> TRUE]
Answers == [ok : Hashes] \cup [entries : Seq(Rows)] \cup {Error}

ASSUME MarkerAssumption == NoRequest \notin Answers

VARIABLES
  up,
  table,            (* the rows of entries, in the order of their insertion *)
  clock,            (* SystemTime, in seconds                              *)
  holder,           (* the thread that has the mutex                       *)
  stage,            (* per connection: "idle", "sent", "locked", "stamped", *)
                    (* "done"                                              *)
  request, answer,
  stamp             (* the timestamp in a thread's hands                   *)

threads == <<holder, stage, request, answer, stamp>>
vars    == <<up, table, clock, threads>>

Stored == {table[i].hash : i \in DOMAIN table}

(* SELECT ... ORDER BY timestamp DESC of the rows that are chosen: those of *)
(* the same second come in any order.                                      *)
NewestFirst(chosen) ==
  LET orders == {o \in [1..Cardinality(chosen) -> chosen] :
                   \A i, j \in DOMAIN o :
                     i < j => o[i] # o[j] /\ table[o[i]].time >= table[o[j]].time}
  IN {[i \in DOMAIN o |-> table[o[i]]] : o \in orders}

Idle ==
  /\ holder' = Nobody
  /\ stage' = [c \in Clients |-> "idle"]
  /\ request' = [c \in Clients |-> NoRequest] /\ answer' = [c \in Clients |-> NoRequest]
  /\ stamp' = [c \in Clients |-> 0]

Init ==
  /\ up = FALSE /\ table = <<>> /\ clock = 0
  /\ holder = Nobody
  /\ stage = [c \in Clients |-> "idle"]
  /\ request = [c \in Clients |-> NoRequest] /\ answer = [c \in Clients |-> NoRequest]
  /\ stamp = [c \in Clients |-> 0]

(* run: Store::open creates the table if there is none. *)
Start == ~up /\ up' = TRUE /\ UNCHANGED <<table, clock, threads>>

(***************************************************************************)
(* A connection.                                                           *)
(***************************************************************************)
(* A write that got no answer is simply sent again. *)
Send(c) ==
  /\ up /\ stage[c] = "idle"
  /\ \E r \in Requests : request' = [request EXCEPT ![c] = r]
  /\ stage' = [stage EXCEPT ![c] = "sent"]
  /\ UNCHANGED <<up, table, clock, holder, answer, stamp>>

Answer(c, a) ==
  /\ stage' = [stage EXCEPT ![c] = "done"]
  /\ answer' = [answer EXCEPT ![c] = a]
  /\ UNCHANGED <<up, clock, request, stamp>>

(* Not JSON, an unknown method, an agent id, key or hash that is missing   *)
(* or empty; or any request within which the 65,536 bytes that a           *)
(* connection may carry come to their end.                                 *)
HandleInvalid(c) ==
  /\ stage[c] = "sent"
  /\ Answer(c, Error)
  /\ UNCHANGED <<table, holder>>

(* The thread ended before it read the request: 5 seconds without one, or  *)
(* the bytes of the connection used up.                                    *)
Hangup(c) ==
  /\ stage[c] = "sent"
  /\ stage' = [stage EXCEPT ![c] = "idle"]
  /\ request' = [request EXCEPT ![c] = NoRequest]
  /\ UNCHANGED <<up, table, clock, holder, answer, stamp>>

Lock(c) ==
  /\ stage[c] = "sent" /\ request[c] # Invalid
  /\ holder = Nobody /\ holder' = c
  /\ stage' = [stage EXCEPT ![c] = "locked"]
  /\ UNCHANGED <<up, table, clock, request, answer, stamp>>

(* The guard of the mutex is dropped when the handler returns. *)
Return(c, a) ==
  /\ holder' = Nobody
  /\ Answer(c, a)

(***************************************************************************)
(* Store::write: the clock is read, then INSERT OR IGNORE.                 *)
(***************************************************************************)
(* Mutant of Stamp: the time is taken before the lock, which is taken for  *)
(* the statement only.                                                     *)
StampUnlocked(c) ==
  /\ stage[c] = "locked" /\ request[c] \in Writes
  /\ stamp' = [stamp EXCEPT ![c] = clock]
  /\ stage' = [stage EXCEPT ![c] = "stamped"]
  /\ holder' = Nobody
  /\ UNCHANGED <<up, table, clock, request, answer>>

(* Mutant of Stamp: milliseconds. *)
StampMillis(c) ==
  /\ stage[c] = "locked" /\ request[c] \in Writes
  /\ stamp' = [stamp EXCEPT ![c] = clock * 1000]
  /\ stage' = [stage EXCEPT ![c] = "stamped"]
  /\ UNCHANGED <<up, table, clock, holder, request, answer>>

Stamp(c) ==
  /\ stage[c] = "locked" /\ request[c] \in Writes
  /\ stamp' = [stamp EXCEPT ![c] = clock]
  /\ stage' = [stage EXCEPT ![c] = "stamped"]
  /\ UNCHANGED <<up, table, clock, holder, request, answer>>

RowOf(c) ==
  LET x == request[c].content
  IN [hash |-> compute_hash(x), content |-> x, time |-> stamp[c]]

(* Mutant of Insert: INSERT OR REPLACE. *)
InsertReplacing(c) ==
  /\ stage[c] = "stamped"
  /\ table' = SelectSeq(table, LAMBDA row : row.hash # RowOf(c).hash) \o <<RowOf(c)>>
  /\ Return(c, [ok |-> RowOf(c).hash])

Insert(c) ==
  /\ stage[c] = "stamped"
  /\ table' = IF RowOf(c).hash \in Stored THEN table ELSE Append(table, RowOf(c))
  /\ Return(c, [ok |-> RowOf(c).hash])

(***************************************************************************)
(* Store::read, query_by_prefix, history.                                  *)
(***************************************************************************)
(* A hash that is not in the table is answered with no entry. *)
Read(c) ==
  /\ stage[c] = "locked" /\ request[c].op = "read"
  /\ \E s \in NewestFirst({i \in DOMAIN table : table[i].hash = request[c].hash}) :
       Return(c, [entries |-> s])
  /\ UNCHANGED table

Query(c) ==
  /\ stage[c] = "locked" /\ request[c].op = "query"
  /\ \E s \in NewestFirst({i \in DOMAIN table :
                        Like(Text(table[i].content.key), Text(Pattern(request[c].prefix)))}) :
       Return(c, [entries |-> s])
  /\ UNCHANGED table

History(c) ==
  /\ stage[c] = "locked" /\ request[c].op = "history"
  /\ \E s \in NewestFirst({i \in DOMAIN table : table[i].content.key = request[c].key}) :
       Return(c, [entries |-> s])
  /\ UNCHANGED table

(* Mutant of Fails: the lock is kept. *)
FailsKeepingLock(c) ==
  /\ IF request[c] \in Writes THEN stage[c] = "stamped" ELSE stage[c] = "locked"
  /\ Answer(c, Error)
  /\ UNCHANGED <<table, holder>>

(* A statement fails: it changes nothing. *)
Fails(c) ==
  /\ IF request[c] \in Writes THEN stage[c] = "stamped" ELSE stage[c] = "locked"
  /\ Return(c, Error)
  /\ UNCHANGED table

Deliver(c) ==
  /\ stage[c] = "done"
  /\ stage' = [stage EXCEPT ![c] = "idle"]
  /\ request' = [request EXCEPT ![c] = NoRequest] /\ answer' = [answer EXCEPT ![c] = NoRequest]
  /\ UNCHANGED <<up, table, clock, holder, stamp>>

(***************************************************************************)
(* The world.                                                              *)
(***************************************************************************)
Crash == up /\ up' = FALSE /\ Idle /\ UNCHANGED <<table, clock>>

Reboot == up' = FALSE /\ table' = <<>> /\ Idle /\ UNCHANGED clock

Tick == clock < MaxTime /\ clock' = clock + 1 /\ UNCHANGED <<up, table, threads>>

Serve(c) == Stamp(c) \/ Insert(c) \/ Read(c) \/ Query(c) \/ History(c) \/ Fails(c)

Next ==
  \/ Start
  \/ \E c \in Clients : \/ Send(c) \/ HandleInvalid(c) \/ Hangup(c)
                        \/ Lock(c) \/ Serve(c) \/ Deliver(c)
  \/ Crash \/ Reboot \/ Tick

Spec == Init /\ [][Next]_vars

(* The thread that has the mutex runs on. *)
FairSpec == Spec /\ \A c \in Clients : WF_vars(Serve(c))

(***************************************************************************)
(* Properties.                                                             *)
(***************************************************************************)
(* The types; a timestamp is a second of the clock (store.rs:192).         *)
TypeOK ==
  /\ up \in BOOLEAN
  /\ table \in Seq(Rows)
  /\ clock \in 0..MaxTime
  /\ holder \in Clients \cup {Nobody}
  /\ stage \in [Clients -> {"idle", "sent", "locked", "stamped", "done"}]
  /\ request \in [Clients -> Requests \cup {NoRequest}]
  /\ answer \in [Clients -> Answers \cup {NoRequest}]
  /\ stamp \in [Clients -> 0..MaxTime]

(* Entries are in the table in the order of their timestamps, because      *)
(* Store::write reads the clock while its thread has the mutex: ORDER BY   *)
(* timestamp is the order of the writes, up to those of one second.        *)
RowsInTimeOrder ==
  \A i, j \in DOMAIN table : i < j => table[i].time <= table[j].time

(* The agent id ends at the first NUL of what is hashed. *)
Delimited(x) == \A i \in DOMAIN x.agent : x.agent[i] # Nul

(* The content address (entry.rs:19): a hash answered to a write is that   *)
(* of one row, and the row has the value that was written, under the same  *)
(* names laid end to end.  Unless a NUL in an agent id moves the boundary  *)
(* between agent and key, it is the agent, key and value that were         *)
(* written, not those of another write with the same hash.                 *)
AnswerNamesContent ==
  \A c \in Clients :
    stage[c] = "done" /\ "ok" \in DOMAIN answer[c] =>
      LET x == request[c].content
      IN \E i \in DOMAIN table :
           LET y == table[i].content
           IN /\ \A j \in DOMAIN table : table[j].hash = answer[c].ok <=> j = i
              /\ Names(y) = Names(x) /\ y.value = x.value
              /\ Delimited(x) /\ Delimited(y) => y = x

(* store.rs:47, "writing the same content twice is a no-op": while the     *)
(* machine runs no row is changed, dropped or entered again, whatever is   *)
(* repeated after a lost answer or the end of the daemon.                  *)
FirstWriteStands ==
  [][Reboot \/ /\ IsPrefix(table, table')
               /\ \A i, j \in DOMAIN table' : table'[i].hash = table'[j].hash => i = j]_vars

(* No thread keeps the mutex: `store.lock()` is released on the error      *)
(* paths too, so that no connection waits for ever on one that failed.     *)
LockReleased == \A c \in Clients : holder = c ~> holder # c

(* The daemon implements the shared memory.                                *)
BeginsWith(s, q) == Len(q) <= Len(s) /\ \A k \in 1..Len(q) : Fold(s[k]) = Fold(q[k])

(* The sets of contents that a request may be answered with: one, except   *)
(* where the prefix has the escape character, which query_by_prefix does   *)
(* not escape, or a NUL, at which the pattern ends without its %.  Letters *)
(* of either case are the same.                                            *)
Meanings(r) ==
  {W \in SUBSET Contents :
     \/ r.op = "read" /\ W = {x \in Contents : compute_hash(x) = r.hash}
     \/ r.op = "history" /\ W = {x \in Contents : x.key = r.key}
     \/ r.op = "query" /\ W = {x \in Contents : BeginsWith(x.key, r.prefix)}
     \/ r.op = "query" /\ \E k \in DOMAIN r.prefix : r.prefix[k] \in {"\\", Nul}}

EntryOf(row) == [content |-> row.content, time |-> row.time]

StatusOf(s) == IF s \in {"sent", "locked", "stamped"} THEN "pending" ELSE s

ReplyOf(a) ==
  IF a = NoRequest \/ a = Error THEN a
  ELSE IF "ok" \in DOMAIN a THEN [ok |-> a.ok]
  ELSE [entries |-> [i \in DOMAIN a.entries |-> EntryOf(a.entries[i])]]

Memory == INSTANCE SharedMemory WITH
  Name <- compute_hash, NoCall <- NoRequest,
  memory <- {EntryOf(table[i]) : i \in DOMAIN table},
  now    <- clock,
  status <- [c \in Clients |-> StatusOf(stage[c])],
  call   <- request,
  reply  <- [c \in Clients |-> ReplyOf(answer[c])]

(* Every answer is that of a memory that all requests find and change one  *)
(* at a time, between request and answer, by what the prefixes and hashes  *)
(* mean rather than by LIKE patterns and rows: keys that begin with the    *)
(* prefix, in letters of either case.                                      *)
ImplementsMemory == Memory!Spec
=============================================================================
