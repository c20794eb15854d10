------------------------------- MODULE Device -------------------------------
(***************************************************************************)
(* The life of an agent on a device: boot, deployment, the process of its  *)
(* VM (the --run-vm child of pkg/cage/src/main.rs, spawned in vm.rs, set   *)
(* up in krun.rs, confined as in Sandbox), restarts of cage and of the     *)
(* machine.                                                                *)
(*                                                                         *)
(* Cage.tla models which processes the daemon knows of and how it reaps    *)
(* them; here `tracked` is the process it has in its table.                *)
(***************************************************************************)
EXTENDS Deployment, Sandbox

CONSTANTS
  Slots,           (* bound: VM processes at a time                        *)
  NoSlot,
  FileSystems,     (* what a VM process may find on the host: the paths    *)
                   (* that are there, and those that are no directories    *)
  Conveyed         (* the manifests that serde_json writes and reads back  *)

ASSUME SlotsAssumption == NoSlot \notin Slots /\ Conveyed \subseteq Manifests

ASSUME FileSystemsAssumption ==
  \A w \in FileSystems :
    /\ w.files \subseteq w.there /\ w.there \subseteq Seq(STRING)
    /\ \A p \in w.there : Above(p) \subseteq w.there

VARIABLES
  kernel,          (* landlock: there is Landlock; sandbox: CAGE_NO_SANDBOX *)
                   (* is not set                                            *)
  tracked,
  child            (* per slot: a VM process, see NoChild                   *)

vmVars == <<tracked, child>>
vars   == <<storageVars, deployVars, kernel, vmVars>>

(* pipe: "open", "whole" (cage wrote the configuration and closed it) or   *)
(* "cut" (cage ended before); the rules and the filter in force.           *)
NoChild == [phase |-> "none", of |-> NoManifest, pipe |-> "open", rules |-> {}, filter |-> <<>>]

Phases == {"none", "reading", "setup", "landlock", "seccomp", "enter", "running"}

Kernels == {[landlock |-> TRUE, sandbox |-> TRUE], [landlock |-> FALSE, sandbox |-> TRUE],
            [landlock |-> TRUE, sandbox |-> FALSE]}

Init ==
  /\ StorageInit /\ DeployInit
  /\ kernel \in Kernels
  /\ tracked = NoSlot
  /\ child = [s \in Slots |-> NoChild]

(***************************************************************************)
(* VmManager::start_agent.                                                 *)
(***************************************************************************)
(* validate_rootfs: the path that is executed, looked for in the rootfs of *)
(* the agent.  No bundle brings /system/python/bin/python3.                *)
Executable(m) ==
  IF Runtime(m) = "python" THEN FALSE ELSE Seen.binary # NoFile

Launch(s) ==
  /\ pc = "start" /\ tracked = NoSlot /\ child[s] = NoChild
  /\ Executable(loaded)
  /\ child' = [child EXCEPT ![s] = [NoChild EXCEPT !.phase = "reading", !.of = loaded]]
  /\ tracked' = s
  /\ pc' = "feed"
  /\ Answer("ok")
  /\ UNCHANGED kernel

(* The agent runs already, its rootfs is not valid, or spawn fails. *)
LaunchFails ==
  /\ pc = "start" /\ pc' = "idle"
  /\ Answer("not started")
  /\ UNCHANGED <<kernel, vmVars>>

(* Mutant of WriteConfig: stdin is not dropped. *)
WriteConfigOpen ==
  /\ pc = "feed" /\ pc' = "idle"
  /\ UNCHANGED <<storageVars, loaded, bundle, done, last, deployed, kernel, vmVars>>

(* spawn_vm_process: the configuration is written and stdin closed.        *)
WriteConfig ==
  /\ pc = "feed" /\ pc' = "idle"
  /\ child' = IF tracked # NoSlot /\ child[tracked].phase = "reading"
              THEN [child EXCEPT ![tracked].pipe = "whole"] ELSE child
  /\ UNCHANGED <<storageVars, loaded, bundle, done, last, deployed, kernel, tracked>>

(* handle_start, handle_stop and the reaping of the process in the table.  *)
(* A process that is stopped is sent SIGTERM and forgotten; when it ends   *)
(* (Exit) is its own affair.                                               *)
StartCommand ==
  /\ pc = "idle" /\ loaded # NoManifest /\ pc' = "start"
  /\ UNCHANGED <<storageVars, loaded, bundle, done, last, deployed, kernel, vmVars>>

StopCommand ==
  /\ pc = "idle" /\ tracked # NoSlot /\ tracked' = NoSlot
  /\ UNCHANGED <<storageVars, deployVars, kernel, child>>

(* A crash is followed by a restart of the agent, a clean exit is not.     *)
ReapTracked ==
  /\ pc = "idle" /\ tracked # NoSlot /\ child[tracked] = NoChild
  /\ tracked' = NoSlot
  /\ pc' \in {"idle", "start"}
  /\ UNCHANGED <<storageVars, loaded, bundle, done, last, deployed, kernel, child>>

(***************************************************************************)
(* The child: run_vm_child and krun::run_vm.                               *)
(***************************************************************************)
Becomes(s, c) ==
  /\ child' = [child EXCEPT ![s] = c]
  /\ UNCHANGED <<storageVars, deployVars, kernel, tracked>>

At(s, phase) == child[s].phase = phase

Proceeds(s, phase) == Becomes(s, [child[s] EXCEPT !.phase = phase])

(* read_to_string returns when the pipe is closed; what was cut is not     *)
(* JSON.                                                                   *)
ReadConfig(s) ==
  /\ At(s, "reading") /\ child[s].pipe # "open"
  /\ IF child[s].pipe = "whole" THEN Proceeds(s, "setup") ELSE Becomes(s, NoChild)

(* The calls to libkrun, each of which may fail; then pre_enter, which     *)
(* confines the process when it has its manifest.                          *)
Setup(s) ==
  /\ At(s, "setup")
  /\ \/ Becomes(s, NoChild)
     \/ Proceeds(s, IF kernel.sandbox /\ child[s].of \in Conveyed THEN "landlock" ELSE "enter")

Rules(m, w) == Enforced(build_sandbox(ManifestOf[m]), w.there)

(* fs_sandbox::apply: without Landlock nothing is enforced.  What the      *)
(* process finds may lack a share: that it could not be made is ignored.   *)
ApplyLandlock(s) ==
  /\ At(s, "landlock")
  /\ IF ~kernel.landlock THEN Proceeds(s, "seccomp")
     ELSE \/ Becomes(s, NoChild)
          \/ \E w \in FileSystems :
               /\ ~Refused(Rules(child[s].of, w), w.files)
               /\ Becomes(s, [child[s] EXCEPT !.phase = "seccomp", !.rules = Rules(child[s].of, w)])

Filter(m) == assemble_bpf(build_profile(ManifestOf[m]))

(* seccomp::apply. *)
ApplySeccomp(s) ==
  /\ At(s, "seccomp")
  /\ \/ Becomes(s, NoChild)
     \/ /\ ~TooManySyscalls(build_profile(ManifestOf[child[s].of]))
        /\ Becomes(s, [child[s] EXCEPT !.phase = "enter", !.filter = Filter(child[s].of)])

(* krun_start_enter, which does not return unless it fails. *)
Enter(s) ==
  /\ At(s, "enter")
  /\ Proceeds(s, "running") \/ Becomes(s, NoChild)

ChildStep(s) ==
  ReadConfig(s) \/ Setup(s) \/ ApplyLandlock(s) \/ ApplySeccomp(s) \/ Enter(s)

(* The guest ends, or a signal ends the process, whatever it is about. *)
Exit(s) == child[s].phase # "none" /\ Becomes(s, NoChild)

(***************************************************************************)
(* The whole.                                                              *)
(***************************************************************************)
(* The daemon ends: what it had in memory and the end of the pipe are gone, *)
(* its VMs are not.                                                         *)
CageCrash ==
  /\ pc # "down" /\ Forget /\ tracked' = NoSlot
  /\ child' = [s \in Slots |-> IF At(s, "reading") /\ child[s].pipe = "open"
                               THEN [child[s] EXCEPT !.pipe = "cut"] ELSE child[s]]
  /\ UNCHANGED <<storageVars, kernel>>

Off ==
  /\ PowerOff /\ Forget
  /\ tracked' = NoSlot /\ child' = [s \in Slots |-> NoChild]
  /\ UNCHANGED kernel

Boots == StorageNext /\ UNCHANGED <<deployVars, kernel, vmVars>>

Deploys ==
  /\ \/ CageStart \/ (\E b \in Bundles : Deploy(b) \/ DeployRefused(b))
     \/ UnpackSkips \/ UnpackWrite \/ UnpackFails \/ UnpackEnds
  /\ UNCHANGED <<kernel, vmVars>>

Saves == SaveSecrets /\ UNCHANGED <<deployVars, kernel, vmVars>>

Next ==
  \/ Boots \/ Saves \/ Deploys
  \/ (\E s \in Slots : Launch(s) \/ ChildStep(s) \/ Exit(s))
  \/ LaunchFails \/ WriteConfig \/ StartCommand \/ StopCommand \/ ReapTracked
  \/ CageCrash \/ Off

Spec == Init /\ [][Next]_vars

(* A process that can take a step does: the child, and cage between the    *)
(* spawn and the end of its write.                                         *)
FairSpec ==
  /\ Spec
  /\ WF_vars(WriteConfig)
  /\ \A s \in Slots : WF_vars(ChildStep(s))

(***************************************************************************)
(* Properties.                                                             *)
(***************************************************************************)
RuleSets == {{}} \cup {Rules(m, w) : m \in Manifests, w \in FileSystems}

Children ==
  [phase : Phases, of : Manifests \cup {NoManifest}, pipe : {"open", "whole", "cut"},
   rules : RuleSets,
   filter : {<<>>} \cup {Filter(m) : m \in Manifests}]

(* The types; what is mounted and bound is a disk (mount.rs:160), and what *)
(* is in force in a process was made from some manifest.                   *)
TypeOK ==
  /\ StorageTypeOK(Files) /\ DeployTypeOK
  /\ kernel \in Kernels
  /\ tracked \in Slots \cup {NoSlot}
  /\ child \in [Slots -> Children]

(* A boot formats only what does not mount: a partition with a file system *)
(* stays what it was, and until services run what was kept on it stays.    *)
PartitionsKept ==
  [][\A p \in Partitions : fs[p] # "blank" =>
       /\ fs'[p] = fs[p]
       /\ stage # "up" => upper'[p] = upper[p] /\ vaultdir'[p] = vaultdir[p]]_vars

(* The entry is the last of its bundle that is written to its file. *)
LastOfItsName(b, i) ==
  LET e == Entries[b]
  IN e[i].content # Empty /\ \A j \in i + 1..Len(e) : e[j].name = e[i].name => e[j].content = Empty

(* Between commands cage has in memory the manifest of the bundle that it  *)
(* unpacked last, whatever failed since; before the first one it has what  *)
(* a restart would load.  And unless the last deployment failed half way,  *)
(* each file that the bundle brings is the bundle's: nothing is left in it *)
(* of an older bundle, of a failure, of a crash or of a power-off.         *)
DeploymentWhole ==
  pc \in {"idle", "start", "feed"} =>
    IF deployed = NoBundle
    THEN last # "failed" => loaded \in Readings(Seen.manifest)
    ELSE /\ loaded = ManifestIn(deployed)
         /\ last # "failed" =>
              \A i \in DOMAIN Entries[deployed] :
                LastOfItsName(deployed, i) =>
                  Seen[Entries[deployed][i].name] = Entries[deployed][i].content

(* Declared to be written: below a path of the manifest, as a share or as  *)
(* a path of the host, or below what every VM process may write.           *)
DeclaredWritable(m, path) ==
  \/ \E p \in m.write : Resolve(p) \in Above(path) \/ Share(p) \in Above(path)
  \/ \E p \in WritableDirs \cup {kvm} : Resolve(p) \in Above(path)

(* A VM runs only under the filter and the rules of the manifest it was    *)
(* started with: of all there is on the host its process can write what is *)
(* declared to be written and nothing else, and it can read its shares.    *)
(* Without them it runs where CAGE_NO_SANDBOX or a kernel without Landlock *)
(* says so, or when its manifest did not reach it.                         *)
Confined ==
  \A s \in Slots : At(s, "running") /\ kernel.sandbox /\ child[s].of \in Conveyed =>
    LET m == ManifestOf[child[s].of]
    IN /\ child[s].filter = Filter(child[s].of)
       /\ kernel.landlock =>
            \E w \in FileSystems :
              /\ child[s].rules = Rules(child[s].of, w) /\ ~Refused(child[s].rules, w.files)
              /\ \A p \in w.there :
                   "write" \in Granted(child[s].rules, p) <=> DeclaredWritable(m, p)
              /\ \A p \in m.read \cup m.write :
                   Share(p) \in w.there => "read" \in Granted(child[s].rules, Share(p))

(* The filter that is installed passes the calls of the profile and        *)
(* reports every other: with offsets of eight bits, up to the greatest     *)
(* number of calls that assemble_bpf accepts.                              *)
FilterExact ==
  \A s \in Slots : child[s].filter # <<>> =>
    LET profile == build_profile(ManifestOf[child[s].of])
    IN \A nr \in VMM_BASE \cup NETWORK_SYSCALLS \cup SHELL_SYSCALLS \cup {0} :
         Verdict(child[s].filter, nr) = IF nr \in profile THEN "allow" ELSE "log"

(* A VM process that was spawned enters its VM or ends: it never waits for *)
(* ever for a configuration, not even that of a daemon that died.          *)
ChildSettles ==
  \A s \in Slots : At(s, "reading") ~> (At(s, "running") \/ At(s, "none"))

(* README.md:104: where a partition with the sentinel is found, the        *)
(* secrets of the vault survive a reboot: they are on that partition, if   *)
(* it is the only one.                                                     *)
SecretsPersist ==
  stage = "up" /\ overlay \in Partitions /\ Sentinels = {overlay} => ~secrets
=============================================================================
