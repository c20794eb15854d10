---------------------------- MODULE SecretStore ----------------------------
(***************************************************************************)
(* What warden promises its clients, without files, keys or salts: a map   *)
(* from key names to values that survives the end of the daemon.  The      *)
(* durable map changes as a whole or not at all, always to what the        *)
(* daemon serves at that moment, and "ok" is answered only when the two    *)
(* are equal.  A change answered with an error is served all the same; it  *)
(* is lost with the daemon unless a later request makes it durable.  The   *)
(* end of the machine takes the durable map back to one it was before.     *)
(***************************************************************************)
CONSTANTS Keys, Values, Absent

VARIABLES
  live,      (* the map clients read; all absent while the daemon is down *)
  durable,   (* the map the next daemon will serve                        *)
  kept,      (* the map the first daemon of the next boot will serve      *)
  up,
  answer     (* the answer to the last set or delete, or "none"           *)

vars == <<live, durable, kept, up, answer>>

Maps == [Keys -> Values \cup {Absent}]

Empty == [k \in Keys |-> Absent]

Init ==
  /\ live = Empty /\ durable = Empty /\ kept = Empty
  /\ up = FALSE /\ answer = "none"

Open ==
  /\ ~up /\ up' = TRUE
  /\ live' = durable
  /\ UNCHANGED <<durable, kept, answer>>

(* A set, or with x = Absent a delete, takes effect for readers. *)
Change(k, x) ==
  /\ up
  /\ live' = [live EXCEPT ![k] = x]
  /\ answer' = "none"
  /\ UNCHANGED <<durable, kept, up>>

Persist ==
  /\ up
  /\ durable' = live
  /\ UNCHANGED <<live, kept, up, answer>>

Answer(a) ==
  /\ up
  /\ a = "ok" => durable = live
  /\ answer' = a
  /\ UNCHANGED <<live, durable, kept, up>>

Crash ==
  /\ up /\ up' = FALSE
  /\ live' = Empty /\ answer' = "none"
  /\ UNCHANGED <<durable, kept>>

Keep ==
  /\ kept' = durable
  /\ UNCHANGED <<live, durable, up, answer>>

Reboot ==
  /\ durable' = kept
  /\ up' = FALSE /\ live' = Empty /\ answer' = "none"
  /\ UNCHANGED kept

Next ==
  \/ Open
  \/ \E k \in Keys, x \in Values \cup {Absent} : Change(k, x)
  \/ Persist
  \/ \E a \in {"ok", "error", "not found"} : Answer(a)
  \/ Crash
  \/ Keep
  \/ Reboot

Spec == Init /\ [][Next]_vars
=============================================================================
