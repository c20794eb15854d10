------------------------------- MODULE Vault -------------------------------
(***************************************************************************)
(* warden: the vault of pkg/warden/src/vault.rs with the set and delete    *)
(* handlers of main.rs and the key resolution of master_key.rs.            *)
(*                                                                         *)
(* The daemon serves one request at a time.  A save is split at every      *)
(* point where it can fail or the daemon can die: before the temporary     *)
(* file is opened, while it is written, before the rename, before the      *)
(* answer.  Encryption is abstracted to what decides whether a file can be *)
(* opened again: the key it was sealed with, next to the salt stored in    *)
(* the clear.                                                              *)
(***************************************************************************)
CONSTANTS
  Keys, Values,    (* names and values of secrets                          *)
  Absent,          (* HashMap::get gives None                              *)
  Salts, MasterKeys,
  KeyFor,          (* master_key::resolve: constant for the environment    *)
                   (* and the key file, injective for a passphrase         *)
  NoFile, Torn,    (* no file at a path; a file cut short                  *)
  NoRequest,
  Persistent       (* nulld found a nullbox-data partition and bound its   *)
                   (* /vault to /run/warden; a tmpfs is there otherwise    *)

ASSUME SecretNames == Absent \notin Values

ASSUME DataPartition == Persistent \in BOOLEAN

ASSUME KeySource == Salts # {} /\ KeyFor \in [Salts -> MasterKeys]

Maps == [Keys -> Values \cup {Absent}]
VaultFiles == [salt : Salts, key : MasterKeys, data : Maps]
Requests == [key : Keys, value : Values \cup {Absent}]

ASSUME Markers ==
  NoFile # Torn /\ {NoFile, Torn} \cap VaultFiles = {} /\ NoRequest \notin Requests

VARIABLES
  pc,              (* "down", "ready", or where a save is: "seal", "open", *)
                   (* "write", "rename", "answer"                          *)
  secrets, salt, master_key,           (* the fields of Vault              *)
  file, tmp,       (* what is at VAULT_PATH and next to it                 *)
  platter,         (* what is at VAULT_PATH after the end of the machine   *)
  request,         (* the set or delete being served                       *)
  answer,          (* to the last set or delete, "none" while it is served *)
  promised         (* history: per key, what a client may still be served  *)
                   (* given the answers so far                             *)

memory == <<secrets, salt, master_key>>
disk   == <<file, tmp, platter>>
vars   == <<pc, memory, disk, request, answer, promised>>

Empty == [k \in Keys |-> Absent]

(* The map in a vault file, or in none. *)
StoredIn(f) == IF f \in VaultFiles THEN f.data ELSE Empty

AnySalt == CHOOSE s \in Salts : TRUE

Init ==
  /\ pc = "down"
  /\ secrets = Empty /\ salt = AnySalt /\ master_key = KeyFor[AnySalt]
  /\ file = NoFile /\ tmp = NoFile /\ platter = NoFile
  /\ request = NoRequest /\ answer = "none"
  /\ promised = [k \in Keys |-> {Absent}]

(***************************************************************************)
(* Vault::load, at the start of the daemon; it exits when load fails.      *)
(***************************************************************************)
Create ==
  /\ pc = "down" /\ file = NoFile
  /\ \E s \in Salts : salt' = s /\ master_key' = KeyFor[s]
  /\ secrets' = Empty
  /\ pc' = "ready"
  /\ UNCHANGED <<disk, request, answer, promised>>

(* Mutant of Load: a new salt for a new life of the daemon. *)
LoadResalted ==
  /\ pc = "down" /\ file \in VaultFiles
  /\ KeyFor[file.salt] = file.key
  /\ salt' \in Salts /\ master_key' = KeyFor[file.salt]
  /\ secrets' = file.data
  /\ pc' = "ready"
  /\ UNCHANGED <<disk, request, answer, promised>>

Load ==
  /\ pc = "down" /\ file \in VaultFiles
  /\ KeyFor[file.salt] = file.key
  /\ salt' = file.salt /\ master_key' = KeyFor[file.salt]
  /\ secrets' = file.data
  /\ pc' = "ready"
  /\ UNCHANGED <<disk, request, answer, promised>>

(***************************************************************************)
(* The handlers.                                                           *)
(***************************************************************************)
(* The map changes first, then save() is called. *)
Begin(k, x) ==
  /\ pc = "ready"
  /\ secrets' = [secrets EXCEPT ![k] = x]
  /\ request' = [key |-> k, value |-> x]
  /\ answer' = "none"
  /\ promised' = [promised EXCEPT ![k] = @ \cup {x}]
  /\ pc' = "seal"
  /\ UNCHANGED <<salt, master_key, disk>>

HandleSet(k, v) == Begin(k, v)

(* Mutant of HandleDelete: the change is left to the next save. *)
DeleteUnsaved(k) ==
  /\ pc = "ready"
  /\ secrets[k] # Absent
  /\ secrets' = [secrets EXCEPT ![k] = Absent]
  /\ answer' = "ok"
  /\ promised' = [promised EXCEPT ![k] = {Absent}]
  /\ UNCHANGED <<pc, salt, master_key, disk, request>>

HandleDelete(k) == secrets[k] # Absent /\ Begin(k, Absent)

(* Nothing is saved for a key that the map does not hold. *)
HandleDeleteUnknown(k) ==
  /\ pc = "ready"
  /\ secrets[k] = Absent
  /\ answer' = "not found"
  /\ request' = [key |-> k, value |-> Absent]
  /\ UNCHANGED <<pc, memory, disk, promised>>

(* Vault::get for one of the names in refs; the answer leaves out a name   *)
(* for which the map gives None.                                           *)
Get(k) == secrets[k]

(***************************************************************************)
(* Vault::save.  Each step may fail; the handler answers with the error    *)
(* and leaves map and files as they are.                                   *)
(***************************************************************************)
Saving == pc \in {"seal", "open", "write", "rename"}

(* Mutant of SaveFails: the handler does not look at the result of save. *)
SaveIgnored ==
  /\ Saving
  /\ answer' = "ok" /\ pc' = "ready"
  /\ promised' = [promised EXCEPT ![request.key] = {request.value}]
  /\ UNCHANGED <<memory, disk, request>>

SaveFails ==
  /\ Saving
  /\ answer' = "error" /\ pc' = "ready"
  /\ UNCHANGED <<memory, disk, request, promised>>

(* create_dir_all and encrypt. *)
Seal ==
  /\ pc = "seal" /\ pc' = "open"
  /\ UNCHANGED <<memory, disk, request, answer, promised>>

(* Mutant of Sealed: the salt is not written. *)
SealedUnsalted == [key |-> master_key, data |-> secrets]

Sealed == [salt |-> salt, key |-> master_key, data |-> secrets]

(* Mutant of OpenTmp: the vault file itself is rewritten. *)
OpenInPlace ==
  /\ pc = "open" /\ pc' = "write"
  /\ tmp' = Torn /\ file' = Torn
  /\ UNCHANGED <<memory, platter, request, answer, promised>>

(* fs::write truncates the temporary file and then fills it. *)
OpenTmp ==
  /\ pc = "open" /\ pc' = "write"
  /\ tmp' = Torn
  /\ UNCHANGED <<memory, file, platter, request, answer, promised>>

WriteTmp ==
  /\ pc = "write" /\ pc' = "rename"
  /\ tmp' = Sealed
  /\ UNCHANGED <<memory, file, platter, request, answer, promised>>

Rename ==
  /\ pc = "rename" /\ pc' = "answer"
  /\ file' = tmp /\ tmp' = NoFile
  /\ UNCHANGED <<memory, platter, request, answer, promised>>

AnswerOk ==
  /\ pc = "answer" /\ pc' = "ready"
  /\ answer' = "ok"
  /\ promised' = [promised EXCEPT ![request.key] = {request.value}]
  /\ UNCHANGED <<memory, disk, request>>

(***************************************************************************)
(* The end of the daemon at any point; nulld starts it again.  Neither     *)
(* warden nor nulld, before its reboot, syncs: what of the partition is on *)
(* the disk by then is up to the kernel.  ext4 writes the data of a file   *)
(* before its name when the name is that of another file, not when the     *)
(* name is new, as with the first save.                                    *)
(***************************************************************************)
Forget ==
  /\ pc' = "down"
  /\ secrets' = Empty /\ salt' = AnySalt /\ master_key' = KeyFor[AnySalt]
  /\ request' = NoRequest /\ answer' = "none"

Crash ==
  /\ pc # "down"
  /\ Forget
  /\ UNCHANGED <<disk, promised>>

WriteBack ==
  /\ Persistent
  /\ \/ platter' = file
     \/ platter = NoFile /\ file # NoFile /\ platter' = Torn
  /\ UNCHANGED <<pc, memory, file, tmp, request, answer, promised>>

(* A temporary file that may be left is never read. *)
Reboot ==
  /\ Forget
  /\ file' = platter /\ tmp' = NoFile
  /\ promised' = [k \in Keys |-> {StoredIn(platter)[k]}]
  /\ UNCHANGED platter

Start == Create \/ Load

Step == Seal \/ OpenTmp \/ WriteTmp \/ Rename \/ AnswerOk

Next ==
  \/ Start
  \/ \E k \in Keys, v \in Values : HandleSet(k, v)
  \/ \E k \in Keys : HandleDelete(k) \/ HandleDeleteUnknown(k)
  \/ Step
  \/ SaveFails
  \/ Crash
  \/ WriteBack
  \/ Reboot

Spec == Init /\ [][Next]_vars

(* nulld restarts warden (module Supervisor); nothing else is assumed. *)
FairSpec == Spec /\ WF_vars(Start)

(***************************************************************************)
(* Properties.                                                             *)
(***************************************************************************)
TypeOK ==
  /\ pc \in {"down", "ready", "seal", "open", "write", "rename", "answer"}
  /\ secrets \in Maps /\ salt \in Salts /\ master_key \in MasterKeys
  /\ file \in VaultFiles \cup {NoFile, Torn}
  /\ tmp \in VaultFiles \cup {NoFile, Torn}
  /\ platter \in VaultFiles \cup {NoFile, Torn}
  /\ request \in Requests \cup {NoRequest}
  /\ answer \in {"none", "ok", "error", "not found"}
  /\ promised \in [Keys -> SUBSET (Values \cup {Absent})]

(* The map a daemon that starts now would serve. *)
Stored == StoredIn(file)

(* main.rs:151-162, 174-187.  What warden serves, and what it would serve  *)
(* after a crash, agrees with its answers: a value answered "ok" stays     *)
(* until the next request for its key, a deleted secret does not come      *)
(* back, and a failed request leaves the old value or the new one.         *)
PromisesKept ==
  \A k \in Keys :
    /\ Stored[k] \in promised[k]
    /\ pc # "down" => Get(k) \in promised[k]

(* vault.rs:38-113.  The vault file can be opened again: the salt in it is *)
(* the one its key was derived with, and it is never cut short but by the  *)
(* end of the machine before the first save was on the disk.               *)
Reopens ==
  /\ file \in VaultFiles => KeyFor[file.salt] = file.key
  /\ file = Torn => pc = "down" /\ platter = Torn

(* vault.rs:38-86.  The end of the daemon at any point, in the middle of a *)
(* save too, does not keep warden from serving again; only the end of the  *)
(* machine does, in the case that Reopens names.                           *)
ServesAgain == pc = "down" ~> pc # "down" \/ (file = Torn /\ platter = Torn)

(* The vault as the files and fields of warden implement it. *)
Store == INSTANCE SecretStore WITH
  live <- secrets, durable <- Stored, kept <- StoredIn(platter), up <- pc # "down"

(* main.rs:137-188, vault.rs:89-113.  warden implements the abstract store *)
(* of its clients, whatever step of a save fails or is the last one.       *)
ImplementsStore == Store!Spec
=============================================================================
