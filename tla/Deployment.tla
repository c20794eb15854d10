----------------------------- MODULE Deployment -----------------------------
(***************************************************************************)
(* Deployment of an agent: what cage's handle_deploy and load_manifests    *)
(* (pkg/cage/src/main.rs) and unpack_bundle (deploy.rs) do with the files  *)
(* of the root and with the manifest in memory.  One agent: the files of   *)
(* different names are different files.                                    *)
(*                                                                         *)
(* A file has one of a few contents.  Some are manifests of this agent:    *)
(* they parse and name it.  An empty entry of an archive is not written.   *)
(* Torn is a file that was truncated and not written to its end.           *)
(***************************************************************************)
EXTENDS Storage

CONSTANTS
  Contents,        (* of entries that are not empty                        *)
  Manifests,       (* those that are manifests of this agent               *)
  Prefixes,        (* those of which a file cut short may be one           *)
  ManifestOf,      (* per manifest: see Sandbox                            *)
  Bundles,         (* deployments of this agent, or of none                 *)
  Entries,         (* per bundle: the entries in the order of the archive, *)
                   (* [name, top, content]: top is a path of two components *)
  Empty, NoFile, Torn, NoManifest, NoBundle

Names == {"manifest", "binary", "script"}
Files == [Names -> Contents \cup {NoFile, Torn}]

ASSUME BundlesAssumption ==
  /\ NoFiles = [n \in Names |-> NoFile]
  /\ Prefixes \subseteq Manifests /\ Manifests \subseteq Contents
  /\ {Empty, NoFile, Torn, NoManifest} \cap Contents = {}
  /\ NoFile # Torn /\ NoBundle \notin Bundles
  /\ \A b \in Bundles :
       Entries[b] \in Seq([name : Names, top : BOOLEAN, content : Contents \cup {Empty}])

VARIABLES
  pc,              (* cage: "down", "idle", "unpack", "start", "feed"      *)
  loaded,          (* the manifest in memory, or none                      *)
  bundle, done,    (* the bundle in hand and how many entries are done     *)
  last,            (* the answer to the last deploy of this daemon: "none", *)
                   (* "ok", "not started", "failed"                        *)
  deployed         (* history: the last bundle this daemon unpacked whole  *)

deployVars == <<pc, loaded, bundle, done, last, deployed>>

DeployTypeOK ==
  /\ pc \in {"down", "idle", "unpack", "start", "feed"}
  /\ loaded \in Manifests \cup {NoManifest}
  /\ bundle \in Bundles \cup {NoBundle} /\ deployed \in Bundles \cup {NoBundle}
  /\ done \in Nat
  /\ last \in {"none", "ok", "not started", "failed"}

DeployInit ==
  /\ pc = "down" /\ loaded = NoManifest /\ bundle = NoBundle /\ done = 0
  /\ last = "none" /\ deployed = NoBundle

(* The files cage sees: an image that was pivoted to has no agent of ours. *)
Seen == IF root = "overlay" THEN upper[overlay] ELSE NoFiles

(* manifest::parse: what a file may be taken for.  A text that was cut may *)
(* be a manifest still.                                                    *)
Readings(file) ==
  CASE file \in Manifests -> {file}
    [] file = Torn         -> Prefixes \cup {NoManifest}
    [] OTHER               -> {NoManifest}

Runtime(m) == ManifestOf[m].runtime

(* What a runtime's program is called in a rootfs. *)
ProgramOf(m) == IF Runtime(m) = "python" THEN "script" ELSE "binary"

(* load_manifests, and whether an agent is started with the daemon. *)
CageStart ==
  /\ stage = "up" /\ pc = "down"
  /\ loaded' \in Readings(Seen.manifest)
  /\ pc' = IF loaded' # NoManifest /\ Seen[ProgramOf(loaded')] # NoFile THEN "start" ELSE "idle"
  /\ UNCHANGED <<storageVars, bundle, done, last, deployed>>

(* The manifest of a bundle: the last AGENT.toml at the depth of two.      *)
ManifestIn(b) ==
  LET tops == {i \in DOMAIN Entries[b] : Entries[b][i].name = "manifest" /\ Entries[b][i].top}
  IN IF tops = {} THEN NoManifest
     ELSE Entries[b][CHOOSE i \in tops : \A j \in tops : j <= i].content

(* unpack_bundle: the first pass over the archive, which writes nothing.   *)
Deploy(b) ==
  /\ pc = "idle" /\ ManifestIn(b) \in Manifests /\ pc' = "unpack"
  /\ bundle' = b /\ done' = 0
  /\ UNCHANGED <<storageVars, loaded, last, deployed>>

(* A bundle without a manifest, or with one that is none of an agent.      *)
DeployRefused(b) ==
  /\ pc = "idle" /\ ManifestIn(b) \notin Manifests
  /\ last' = "failed"
  /\ UNCHANGED <<storageVars, pc, loaded, bundle, done, deployed>>

Unpacking == pc = "unpack" /\ done < Len(Entries[bundle])

Entry == Entries[bundle][done + 1]

(* Directories, and whatever else is empty. *)
UnpackSkips ==
  /\ Unpacking /\ Entry.content = Empty
  /\ done' = done + 1
  /\ UNCHANGED <<storageVars, pc, loaded, bundle, last, deployed>>

Store(name, content) ==
  upper' = [upper EXCEPT ![overlay][name] = content]

(* Mutant of UnpackWrite: a file that is there is left as it is. *)
UnpackKeeping ==
  /\ Unpacking /\ Entry.content # Empty /\ root = "overlay"
  /\ \/ Seen[Entry.name] = NoFile /\ Store(Entry.name, Torn) /\ UNCHANGED done
     \/ Seen[Entry.name] = Torn /\ Store(Entry.name, Entry.content) /\ done' = done + 1
     \/ Seen[Entry.name] \in Contents /\ done' = done + 1 /\ UNCHANGED upper
  /\ UNCHANGED <<fs, vaultdir, mounts, pc, loaded, bundle, last, deployed>>

(* fs::write truncates, then writes.  The file of an entry is told by its  *)
(* name alone: an AGENT.toml of any depth is saved as the manifest.        *)
UnpackWrite ==
  /\ Unpacking /\ Entry.content # Empty /\ root = "overlay"
  /\ \/ Seen[Entry.name] # Torn /\ Store(Entry.name, Torn) /\ UNCHANGED done
     \/ Seen[Entry.name] = Torn /\ Store(Entry.name, Entry.content) /\ done' = done + 1
  /\ UNCHANGED <<fs, vaultdir, mounts, pc, loaded, bundle, last, deployed>>

(* An I/O error between any two writes: the files stay as they are and the *)
(* manifest in memory is the old one.                                      *)
UnpackFails ==
  /\ pc = "unpack" /\ pc' = "idle"
  /\ bundle' = NoBundle /\ done' = 0 /\ last' = "failed"
  /\ UNCHANGED <<storageVars, loaded, deployed>>

UnpackEnds ==
  /\ pc = "unpack" /\ done = Len(Entries[bundle])
  /\ loaded' = ManifestIn(bundle) /\ deployed' = bundle
  /\ pc' = "start"
  /\ UNCHANGED <<storageVars, bundle, done, last>>

(* The answer to the deploy, if one is in hand. *)
Answer(a) ==
  /\ last' = IF bundle = NoBundle THEN last ELSE a
  /\ bundle' = NoBundle /\ done' = 0
  /\ UNCHANGED <<storageVars, loaded, deployed>>

Forget ==
  /\ pc' = "down" /\ loaded' = NoManifest /\ bundle' = NoBundle /\ done' = 0
  /\ last' = "none" /\ deployed' = NoBundle
=============================================================================
