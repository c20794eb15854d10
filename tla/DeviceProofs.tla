---------------------------- MODULE DeviceProofs ----------------------------
(***************************************************************************)
(* Proofs about the life of an agent on a device, for any partitions,      *)
(* bundles, system calls and number of VM processes: what is on the disks  *)
(* is kept, a deployment is whole, and no VM runs unconfined.              *)
(***************************************************************************)
EXTENDS Device, SequenceTheorems, FiniteSetTheorems, WellFoundedInduction, TLAPS

(* What every step but those of the boot relies on: once services run      *)
(* there is something at /overlay, and cage runs only then.                *)
Overlays == Partitions \cup {Ram}

UpInv ==
  /\ stage \notin {"off", "initramfs"} => overlay \in Overlays
  /\ pc # "down" => stage = "up"

(* A deployment in hand has a bundle, a start a manifest.                  *)
HandInv ==
  /\ pc = "down" => tracked = NoSlot /\ last = "none" /\ bundle = NoBundle /\ deployed = NoBundle
  /\ pc = "unpack" => bundle \in Bundles /\ ManifestIn(bundle) \in Manifests
  /\ pc \in {"idle", "feed"} => bundle = NoBundle
  /\ pc = "start" \/ tracked # NoSlot => loaded \in Manifests
  /\ \A s \in Slots : child[s].phase # "none" => child[s].of \in Manifests

TypeInv == TypeOK /\ UpInv /\ HandInv

LEMMA NoFilesType == NoFiles \in Files
BY BundlesAssumption DEF Files

LEMMA NoChildType == NoChild \in Children /\ NoChild.phase = "none"
<1>1. {} \in RuleSets
  BY DEF RuleSets
<1> QED  BY <1>1 DEF NoChild, Children, Phases

(* A scan stops at the first of the partitions it looks for. *)
LEMMA FirstType ==
  ASSUME NEW scan \in Seq(Partitions), NEW S
  PROVE  First(scan, S) \in Partitions \cup {Nowhere}
<1> DEFINE hits == {i \in DOMAIN scan : scan[i] \in S}
           isFirst(i) == scan[i] \in S /\ \A j \in 1..i - 1 : scan[j] \notin S
<1>1. CASE hits # {}
  <2>1. hits \subseteq Nat
    OBVIOUS
  <2>2. PICK i \in hits : \A j \in hits : <<j, i>> \notin OpToRel(<, Nat)
    BY <1>1, <2>1, WFMin, NatLessThanWellFounded, Zenon
  <2>3. \A j \in hits : ~ (j < i)
    BY <2>1, <2>2 DEF OpToRel
  <2>4. i \in DOMAIN scan /\ isFirst(i)
    BY <2>3
  <2>5. (CHOOSE k \in DOMAIN scan : isFirst(k)) \in DOMAIN scan
    BY <2>4
  <2>6. First(scan, S) = scan[CHOOSE k \in DOMAIN scan : isFirst(k)]
    BY <1>1 DEF First
  <2> QED  BY <2>5, <2>6
<1>2. CASE hits = {}
  BY <1>2 DEF First
<1> QED  BY <1>1, <1>2

LEMMA TypeInit == Init => TypeInv
<1> SUFFICES ASSUME Init PROVE TypeInv
  OBVIOUS
<1>1. StorageTypeOK(Files)
  BY NoFilesType, ScanAssumption DEF Init, StorageInit, StorageTypeOK
<1>2. DeployTypeOK
  BY DEF Init, DeployInit, DeployTypeOK
<1>3. NoChild \in Children
  BY NoChildType
<1>4. child \in [Slots -> Children] /\ tracked = NoSlot /\ kernel \in Kernels
  BY <1>3 DEF Init
<1>5. UpInv /\ HandInv
  BY BundlesAssumption DEF Init, StorageInit, DeployInit, UpInv, HandInv, NoChild
<1> QED  BY <1>1, <1>2, <1>4, <1>5 DEF TypeInv, TypeOK

(* The types and what hangs on the stage, through a boot.                  *)
LEMMA BootTypes == ASSUME TypeInv, Boots PROVE TypeInv'
<1> USE DEF TypeInv, TypeOK, StorageTypeOK, storageVars, disks, mounts, deployVars, vmVars
<1>1. UNCHANGED <<pc, loaded, bundle, done, last, deployed, kernel, tracked, child>>
  BY DEF Boots
<1>2. DeployTypeOK' /\ HandInv' /\ kernel' \in Kernels
      /\ tracked' \in Slots \cup {NoSlot} /\ child' \in [Slots -> Children]
  BY <1>1 DEF DeployTypeOK, HandInv
<1>3. StorageTypeOK(Files)' /\ UpInv'
  <2> SUFFICES ASSUME StorageNext PROVE StorageTypeOK(Files)' /\ UpInv'
    BY DEF Boots
  <2>1. CASE PowerOn
    BY <1>1, <2>1 DEF PowerOn, UpInv
  <2>2. ASSUME NEW p \in Partitions \cup {Ram}, Overlaid(p),
               fs' \in [Partitions -> {"blank", "foreign", "ours"}],
               upper' \in [Partitions \cup {Ram} -> Files],
               vaultdir' \in [Partitions -> BOOLEAN]
        PROVE  StorageTypeOK(Files)' /\ UpInv'
    BY <1>1, <2>2 DEF Overlaid, UpInv, Overlays
  <2>3. CASE FindOverlay
    <3>1. First(InitScan, Sentinels) \in Partitions
      BY <2>3, FirstType, ScanAssumption DEF FindOverlay
    <3> QED  BY <2>2, <2>3, <3>1 DEF FindOverlay
  <2>4. ASSUME NEW p \in Partitions, FormatOverlay(p)
        PROVE  StorageTypeOK(Files)' /\ UpInv'
    BY <2>2, <2>4, NoFilesType DEF FormatOverlay, Formatted
  <2>5. ASSUME NEW p \in Partitions, FormatHalf(p)
        PROVE  StorageTypeOK(Files)' /\ UpInv'
    BY <1>1, <2>5 DEF FormatHalf, UpInv
  <2>6. CASE RamOverlay
    BY <2>2, <2>6 DEF RamOverlay
  <2>7. CASE Pivot
    BY <1>1, <2>7 DEF Pivot, UpInv
  <2>8. CASE mount_all
    BY <1>1, <2>8 DEF mount_all, UpInv
  <2>9. CASE mount_persistent
    <3>1. First(NulldScan, Sentinels \ {overlay}) \in Partitions \cup {Nowhere}
      BY FirstType, ScanAssumption
    <3> QED  BY <1>1, <2>9, <3>1 DEF mount_persistent, UpInv
  <2>10. CASE StartServices
    BY <1>1, <2>10 DEF StartServices, UpInv
  <2>11. CASE BootFails
    BY <1>1, <2>11 DEF BootFails, UpInv
  <2> QED
    BY <2>1, <2>3, <2>4, <2>5, <2>6, <2>7, <2>8, <2>9, <2>10, <2>11 DEF StorageNext
<1> QED  BY <1>2, <1>3

LEMMA ReadingsType == ASSUME NEW file PROVE Readings(file) \subseteq Manifests \cup {NoManifest}
BY BundlesAssumption DEF Readings

LEMMA EntriesType ==
  ASSUME NEW b \in Bundles, NEW i \in Nat
  PROVE  /\ Len(Entries[b]) \in Nat /\ DOMAIN Entries[b] = 1..Len(Entries[b])
         /\ i < Len(Entries[b]) => i + 1 \in DOMAIN Entries[b]
         /\ i \in DOMAIN Entries[b] =>
              Entries[b][i].name \in Names /\ Entries[b][i].content \in Contents \cup {Empty}
<1> DEFINE T == [name : Names, top : BOOLEAN, content : Contents \cup {Empty}]
<1>1. Entries[b] \in Seq(T)
  BY BundlesAssumption
<1>2. \A t \in T : t.name \in Names /\ t.content \in Contents \cup {Empty}
  OBVIOUS
<1> HIDE DEF T
<1> QED  BY <1>1, <1>2

(* ... through a deployment, which writes to the upper directory only.     *)
LEMMA DeployTypes == ASSUME TypeInv, Deploys PROVE TypeInv'
<1> USE DEF TypeInv, TypeOK, storageVars, disks, mounts, deployVars, vmVars
<1>1. UNCHANGED <<fs, vaultdir, mounts, kernel, tracked, child>>
  BY DEF Deploys, CageStart, Deploy, DeployRefused, UnpackSkips, UnpackWrite, Store, UnpackFails,
     UnpackEnds
<1>2. /\ kernel' \in Kernels /\ tracked' \in Slots \cup {NoSlot}
      /\ child' \in [Slots -> Children]
  BY <1>1
<1>3. ASSUME UNCHANGED storageVars PROVE StorageTypeOK(Files)'
  BY <1>3 DEF StorageTypeOK
<1>4. CASE CageStart
  <2>1. DeployTypeOK'
    BY <1>4, ReadingsType DEF CageStart, DeployTypeOK
  <2>2. UpInv'
    BY <1>4 DEF CageStart, UpInv
  <2>3. HandInv'
    BY <1>1, <1>4, <2>1 DEF CageStart, HandInv, DeployTypeOK
  <2> QED  BY <1>2, <1>3, <1>4, <2>1, <2>2, <2>3 DEF CageStart
<1>5. ASSUME NEW b \in Bundles, Deploy(b) \/ DeployRefused(b) PROVE TypeInv'
  <2>1. DeployTypeOK'
    <3>1. DeployTypeOK
      OBVIOUS
    <3>2. CASE Deploy(b)
      BY <3>1, <3>2 DEF Deploy, DeployTypeOK
    <3>3. CASE DeployRefused(b)
      BY <3>1, <3>3 DEF DeployRefused, DeployTypeOK
    <3> QED  BY <1>5, <3>2, <3>3
  <2>2. UpInv' /\ HandInv'
    BY <1>1, <1>5 DEF Deploy, DeployRefused, UpInv, HandInv
  <2> QED  BY <1>2, <1>3, <1>5, <2>1, <2>2 DEF Deploy, DeployRefused
<1>6. CASE UnpackSkips
  <2>1. DeployTypeOK'
    <3>1. DeployTypeOK /\ done' = done + 1 /\ UNCHANGED <<pc, loaded, bundle, last, deployed>>
      BY <1>6 DEF UnpackSkips
    <3>2. done \in Nat
      BY <3>1, Zenon DEF DeployTypeOK
    <3>3. done' \in Nat
      BY <3>1, <3>2
    <3> QED  BY <3>1, <3>3, Zenon DEF DeployTypeOK
  <2>2. UpInv' /\ HandInv'
    BY <1>1, <1>6 DEF UnpackSkips, Unpacking, UpInv, HandInv
  <2> QED  BY <1>2, <1>3, <1>6, <2>1, <2>2 DEF UnpackSkips
<1>7. CASE UnpackWrite
  <2>1. done + 1 \in DOMAIN Entries[bundle] /\ overlay \in Overlays /\ bundle \in Bundles
        /\ done \in Nat
    BY <1>7, EntriesType DEF UnpackWrite, Unpacking, DeployTypeOK, UpInv, HandInv
  <2>2. Entry.name \in Names /\ Entry.content \in Contents
    BY <1>7, <2>1, EntriesType DEF UnpackWrite, Entry
  <2>3. ASSUME NEW content \in {Torn, Entry.content}, Store(Entry.name, content)
        PROVE  StorageTypeOK(Files)'
    BY <1>1, <2>1, <2>2, <2>3 DEF Store, StorageTypeOK, Files, Overlays
  <2>4. StorageTypeOK(Files)' /\ done' \in Nat
    BY <1>7, <2>1, <2>3 DEF UnpackWrite
  <2> QED
    BY <1>1, <1>2, <1>7, <2>4 DEF UnpackWrite, Unpacking, DeployTypeOK, UpInv, HandInv
<1>8. CASE UnpackFails
  <2>1. DeployTypeOK'
    BY <1>8 DEF UnpackFails, DeployTypeOK
  <2>2. UpInv' /\ HandInv'
    BY <1>1, <1>8 DEF UnpackFails, UpInv, HandInv
  <2> QED  BY <1>2, <1>3, <1>8, <2>1, <2>2 DEF UnpackFails
<1>9. CASE UnpackEnds
  <2>1. ManifestIn(bundle) \in Manifests /\ bundle \in Bundles
    BY <1>9 DEF UnpackEnds, HandInv
  <2>2. DeployTypeOK' /\ UpInv' /\ HandInv'
    BY <1>1, <1>9, <2>1 DEF UnpackEnds, DeployTypeOK, UpInv, HandInv
  <2> QED  BY <1>2, <1>3, <1>9, <2>2 DEF UnpackEnds
<1> QED  BY <1>4, <1>5, <1>6, <1>7, <1>8, <1>9 DEF Deploys

-----------------------------------------------------------------------------
(* What a child may become. *)
LEMMA ChildTypes ==
  ASSUME TypeInv, NEW s \in Slots, ChildStep(s) \/ Exit(s)
  PROVE  /\ UNCHANGED <<storageVars, deployVars, kernel, tracked>>
         /\ \E c \in Children : /\ child' = [child EXCEPT ![s] = c]
                                /\ c.phase # "none" => c.of \in Manifests
<1> USE DEF TypeInv, TypeOK, Becomes, At
<1>1. child[s] \in Children /\ (child[s].phase # "none" => child[s].of \in Manifests)
  BY DEF HandInv
<1>2. NoChild \in Children /\ NoChild.phase = "none"
  BY NoChildType
<1>3. ASSUME NEW c \in Children, c.phase # "none" => c.of \in Manifests, Becomes(s, c)
      PROVE  /\ UNCHANGED <<storageVars, deployVars, kernel, tracked>>
             /\ \E d \in Children : /\ child' = [child EXCEPT ![s] = d]
                                    /\ d.phase # "none" => d.of \in Manifests
  BY <1>3
<1>4. CASE Becomes(s, NoChild)
  BY <1>2, <1>3, <1>4
<1>5. ASSUME NEW phase \in Phases, child[s].phase # "none", Proceeds(s, phase)
      PROVE  /\ UNCHANGED <<storageVars, deployVars, kernel, tracked>>
             /\ \E d \in Children : /\ child' = [child EXCEPT ![s] = d]
                                    /\ d.phase # "none" => d.of \in Manifests
  <2>1. [child[s] EXCEPT !.phase = phase] \in Children
    BY <1>1 DEF Children
  <2>2. [child[s] EXCEPT !.phase = phase].of = child[s].of
    BY <1>1 DEF Children
  <2> QED  BY <1>1, <1>3, <1>5, <2>1, <2>2 DEF Proceeds
<1>6. CASE ReadConfig(s)
  BY <1>4, <1>5, <1>6 DEF ReadConfig, Phases
<1>7. CASE Setup(s)
  BY <1>4, <1>5, <1>7 DEF Setup, Phases
<1>8. CASE ApplyLandlock(s)
  <2>1. CASE Proceeds(s, "seccomp")
    BY <1>5, <1>8, <2>1 DEF ApplyLandlock, Phases
  <2>2. ASSUME NEW w \in FileSystems,
               Becomes(s, [child[s] EXCEPT !.phase = "seccomp", !.rules = Rules(child[s].of, w)])
        PROVE  /\ UNCHANGED <<storageVars, deployVars, kernel, tracked>>
               /\ \E d \in Children : /\ child' = [child EXCEPT ![s] = d]
                                      /\ d.phase # "none" => d.of \in Manifests
    <3> DEFINE c == [child[s] EXCEPT !.phase = "seccomp", !.rules = Rules(child[s].of, w)]
    <3>1. child[s].of \in Manifests
      BY <1>1, <1>8 DEF ApplyLandlock
    <3>2. Rules(child[s].of, w) \in RuleSets
      BY <3>1 DEF RuleSets
    <3>3. c \in Children /\ c.of = child[s].of
      BY <1>1, <3>2 DEF Children, Phases
    <3> QED  BY <1>3, <2>2, <3>1, <3>3
  <2> QED  BY <1>4, <1>8, <2>1, <2>2 DEF ApplyLandlock
<1>9. CASE ApplySeccomp(s)
  <2>1. CASE Becomes(s, [child[s] EXCEPT !.phase = "enter", !.filter = Filter(child[s].of)])
    <3> DEFINE c == [child[s] EXCEPT !.phase = "enter", !.filter = Filter(child[s].of)]
    <3>1. child[s].of \in Manifests
      BY <1>1, <1>9 DEF ApplySeccomp
    <3>2. Filter(child[s].of) \in {Filter(m) : m \in Manifests}
      BY <3>1
    <3>3. c \in Children /\ c.of = child[s].of
      BY <1>1, <3>2, Zenon DEF Children, Phases
    <3> QED  BY <1>3, <2>1, <3>1, <3>3
  <2> QED  BY <1>4, <1>9, <2>1 DEF ApplySeccomp
<1>10. CASE Enter(s)
  BY <1>4, <1>5, <1>10 DEF Enter, Phases
<1>11. CASE Exit(s)
  BY <1>4, <1>11 DEF Exit
<1> QED  BY <1>6, <1>7, <1>8, <1>9, <1>10, <1>11 DEF ChildStep

(* What a step leaves alone keeps its type. *)
LEMMA StorageKept ==
  ASSUME TypeInv, UNCHANGED storageVars PROVE StorageTypeOK(Files)'
<1>1. UNCHANGED <<fs, upper, vaultdir, secrets>>
  BY DEF storageVars, disks, mounts
<1>2. UNCHANGED <<stage, overlay, root, bound>>
  BY DEF storageVars, disks, mounts
<1>3. StorageTypeOK(Files)
  BY DEF TypeInv, TypeOK
<1> QED  BY <1>1, <1>2, <1>3 DEF StorageTypeOK

LEMMA DeployKept ==
  ASSUME TypeInv, UNCHANGED deployVars PROVE DeployTypeOK'
<1>1. UNCHANGED <<pc, loaded, bundle, done, last, deployed>>
  BY DEF deployVars
<1>2. DeployTypeOK
  BY DEF TypeInv, TypeOK
<1> QED  BY <1>1, <1>2 DEF DeployTypeOK

LEMMA UpKept ==
  ASSUME TypeInv, UNCHANGED <<storageVars, pc>> PROVE UpInv'
<1>1. UNCHANGED <<stage, overlay, pc>>
  BY DEF storageVars, mounts
<1>2. UpInv
  BY DEF TypeInv
<1> QED  BY <1>1, <1>2 DEF UpInv

LEMMA BecomesHand ==
  ASSUME TypeInv, NEW s \in Slots, NEW c \in Children,
         c.phase # "none" => c.of \in Manifests,
         child' = [child EXCEPT ![s] = c],
         UNCHANGED <<storageVars, deployVars, kernel, tracked>>
  PROVE  TypeInv'
<1>1. StorageTypeOK(Files)' /\ DeployTypeOK' /\ UpInv'
  BY StorageKept, DeployKept, UpKept DEF deployVars
<1>2. child \in [Slots -> Children]
  BY DEF TypeInv, TypeOK
<1>3. child' \in [Slots -> Children]
  BY <1>2
<1>4. \A t \in Slots : child'[t] = IF t = s THEN c ELSE child[t]
  BY <1>2
<1>5. HandInv'
  BY <1>4 DEF TypeInv, HandInv, deployVars
<1> QED  BY <1>1, <1>3, <1>5 DEF TypeInv, TypeOK

LEMMA ChildHand ==
  ASSUME TypeInv, NEW s \in Slots, ChildStep(s) \/ Exit(s) PROVE TypeInv'
<1>1. UNCHANGED <<storageVars, deployVars, kernel, tracked>>
  BY ChildTypes
<1>2. ASSUME NEW c \in Children, c.phase # "none" => c.of \in Manifests,
             child' = [child EXCEPT ![s] = c]
      PROVE  TypeInv'
  BY <1>1, <1>2, BecomesHand
<1>3. \E c \in Children : /\ child' = [child EXCEPT ![s] = c]
                          /\ c.phase # "none" => c.of \in Manifests
  BY ChildTypes
<1> QED  BY <1>2, <1>3

(* ... through what the daemon does to its VMs.                            *)
LEMMA DaemonTypes ==
  ASSUME TypeInv,
         (\E s \in Slots : Launch(s)) \/ LaunchFails \/ WriteConfig \/ StartCommand
           \/ StopCommand \/ ReapTracked
  PROVE  TypeInv'
<1> USE DEF TypeInv, TypeOK, storageVars, disks, mounts, deployVars, vmVars
<1>1. NoChild \in Children /\ NoChild.phase = "none"
  BY NoChildType
<1>2. UNCHANGED <<storageVars, loaded, deployed, kernel>>
  BY DEF Launch, LaunchFails, WriteConfig, StartCommand, StopCommand, ReapTracked, Answer
<1>3. StorageTypeOK(Files)'
  BY <1>2 DEF StorageTypeOK
<1>4. ASSUME NEW s \in Slots, Launch(s) PROVE TypeInv'
  <2> DEFINE c == [NoChild EXCEPT !.phase = "reading", !.of = loaded]
  <2>1. loaded \in Manifests /\ tracked' = s
    BY <1>4 DEF Launch, HandInv
  <2>2. c \in Children /\ c.of = loaded
    <3>1. [NoChild EXCEPT !.phase = "reading"] \in Children
      BY NoChildType DEF Children, Phases
    <3> QED  BY <2>1, <3>1, NoChildType DEF Children
  <2>3. child' \in [Slots -> Children]
    BY <1>4, <2>2 DEF Launch
  <2>4. DeployTypeOK' /\ UpInv'
    BY <1>2, <1>4 DEF Launch, Answer, DeployTypeOK, UpInv
  <2>5. HandInv'
    BY <1>2, <1>4, <2>1, <2>2, <2>3 DEF Launch, Answer, HandInv
  <2> QED  BY <1>2, <1>3, <2>1, <2>3, <2>4, <2>5
<1>5. CASE LaunchFails
  <2>1. DeployTypeOK'
    BY <1>2, <1>5 DEF LaunchFails, Answer, DeployTypeOK
  <2>2. UpInv' /\ HandInv'
    BY <1>2, <1>5 DEF LaunchFails, Answer, UpInv, HandInv
  <2> QED  BY <1>2, <1>3, <1>5, <2>1, <2>2 DEF LaunchFails
<1>6. CASE WriteConfig
  <2>1. \A s \in Slots : [child[s] EXCEPT !.pipe = "whole"] \in Children
    BY DEF Children
  <2>2. child' \in [Slots -> Children]
    BY <1>6, <2>1 DEF WriteConfig
  <2>3. \A s \in Slots : child'[s].phase = child[s].phase /\ child'[s].of = child[s].of
    BY <1>6 DEF WriteConfig, Children
  <2> QED
    BY <1>2, <1>3, <1>6, <2>2, <2>3 DEF WriteConfig, DeployTypeOK, UpInv, HandInv
<1>7. CASE StartCommand
  BY <1>2, <1>3, <1>7 DEF StartCommand, DeployTypeOK, UpInv, HandInv
<1>8. CASE StopCommand
  BY <1>1, <1>2, <1>3, <1>8 DEF StopCommand, DeployTypeOK, UpInv, HandInv
<1>9. CASE ReapTracked
  <2>1. DeployTypeOK'
    BY <1>2, <1>9 DEF ReapTracked, DeployTypeOK
  <2>2. UpInv' /\ HandInv'
    BY <1>2, <1>9 DEF ReapTracked, UpInv, HandInv
  <2> QED  BY <1>2, <1>3, <1>9, <2>1, <2>2 DEF ReapTracked
<1> QED  BY <1>4, <1>5, <1>6, <1>7, <1>8, <1>9

(* ... and through the end of the daemon and of the machine.               *)
LEMMA EndTypes == ASSUME TypeInv, CageCrash \/ Off \/ Saves PROVE TypeInv'
<1> USE DEF TypeInv, TypeOK, storageVars, disks, mounts, deployVars, vmVars
<1>1. ASSUME Forget, tracked' = NoSlot, kernel' = kernel
      PROVE  DeployTypeOK' /\ tracked' \in Slots \cup {NoSlot} /\ kernel' \in Kernels
  BY <1>1 DEF Forget, DeployTypeOK
<1>2. CASE CageCrash
  <2>1. \A s \in Slots : [child[s] EXCEPT !.pipe = "cut"] \in Children
    BY DEF Children
  <2>2. child' \in [Slots -> Children]
    BY <1>2, <2>1 DEF CageCrash
  <2>3. \A s \in Slots : child'[s].phase = child[s].phase /\ child'[s].of = child[s].of
    BY <1>2 DEF CageCrash, Children
  <2>4. StorageTypeOK(Files)' /\ UpInv'
    BY <1>2 DEF CageCrash, Forget, StorageTypeOK, UpInv
  <2>5. HandInv'
    BY <1>2, <2>3 DEF CageCrash, Forget, HandInv
  <2> QED  BY <1>1, <1>2, <2>2, <2>4, <2>5 DEF CageCrash
<1>3. CASE Off
  <2>1. StorageTypeOK(Files)' /\ UpInv'
    BY <1>3, NoFilesType DEF Off, PowerOff, Forget, StorageTypeOK, UpInv
  <2>2. NoChild \in Children /\ NoChild.phase = "none"
    BY NoChildType
  <2>3. child' \in [Slots -> Children] /\ HandInv'
    BY <1>3, <2>2 DEF Off, Forget, HandInv
  <2> QED  BY <1>1, <1>3, <2>1, <2>3 DEF Off
<1>4. CASE Saves
  <2>1. StorageTypeOK(Files)' /\ UpInv'
    BY <1>4 DEF Saves, SaveSecrets, StorageTypeOK, UpInv
  <2>2. DeployTypeOK' /\ HandInv'
    BY <1>4 DEF Saves, DeployTypeOK, HandInv
  <2> QED  BY <1>4, <2>1, <2>2 DEF Saves
<1> QED  BY <1>2, <1>3, <1>4

LEMMA TypeStep == TypeInv /\ [Next]_vars => TypeInv'
<1>1. ASSUME TypeInv, UNCHANGED vars PROVE TypeInv'
  <2>1. UNCHANGED <<storageVars, deployVars, kernel, tracked, child>>
    BY <1>1 DEF vars, vmVars
  <2>2. StorageTypeOK(Files)' /\ DeployTypeOK' /\ UpInv'
    BY <1>1, <2>1, StorageKept, DeployKept, UpKept DEF deployVars
  <2>3. HandInv'
    BY <1>1, <2>1 DEF TypeInv, HandInv, deployVars
  <2> QED  BY <1>1, <2>1, <2>2, <2>3 DEF TypeInv, TypeOK
<1> QED
  BY <1>1, BootTypes, EndTypes, DeployTypes, ChildHand, DaemonTypes DEF Next

LEMMA TypesInvariant == Spec => []TypeInv
<1> QED  BY TypeInit, TypeStep, PTL DEF Spec

(* Every variable keeps its type; what is mounted, bound and in force in a *)
(* VM process is what a scan, a bundle or a manifest gave.                 *)
THEOREM TypesHold == Spec => []TypeOK
<1>1. TypeInv => TypeOK
  BY DEF TypeInv
<1> QED  BY <1>1, TypesInvariant, PTL

-----------------------------------------------------------------------------
(* Only the boot writes to partitions while services do not run, and it    *)
(* formats what is blank.                                                  *)
Kept ==
  \A p \in Partitions : fs[p] # "blank" =>
    /\ fs'[p] = fs[p]
    /\ stage # "up" => upper'[p] = upper[p] /\ vaultdir'[p] = vaultdir[p]

LEMMA KeptStep == TypeInv /\ [Next]_vars => Kept
<1> SUFFICES ASSUME TypeInv, [Next]_vars PROVE Kept
  OBVIOUS
<1> USE DEF Kept, storageVars, disks, mounts
<1>1. CASE Boots
  <2> SUFFICES ASSUME StorageNext PROVE Kept
    BY <1>1 DEF Boots
  <2>1. ASSUME NEW p \in Partitions, FormatOverlay(p) PROVE Kept
    BY <2>1 DEF FormatOverlay, Formatted, TypeInv, TypeOK, StorageTypeOK
  <2>2. ASSUME NEW p \in Partitions, FormatHalf(p) PROVE Kept
    BY <2>2 DEF FormatHalf, TypeInv, TypeOK, StorageTypeOK
  <2>3. CASE UNCHANGED disks
    BY <2>3
  <2> QED
    BY <2>1, <2>2, <2>3 DEF StorageNext, PowerOn, FindOverlay, RamOverlay, Pivot, mount_all,
       mount_persistent, StartServices, BootFails
<1>2. CASE Saves
  BY <1>2 DEF Saves, SaveSecrets
<1>3. CASE Deploys
  <2>1. CASE UnpackWrite
    BY <2>1 DEF UnpackWrite, Unpacking, TypeInv, UpInv
  <2> QED
    BY <1>3, <2>1 DEF Deploys, CageStart, Deploy, DeployRefused, UnpackSkips, UnpackFails, UnpackEnds
<1>4. CASE Off
  BY <1>4, ScanAssumption DEF Off, PowerOff, TypeInv, TypeOK, StorageTypeOK
<1>5. CASE UNCHANGED storageVars
  BY <1>5
<1>6. ASSUME NEW s \in Slots, ChildStep(s) \/ Exit(s) PROVE Kept
  BY <1>5, <1>6, ChildTypes
<1>7. ASSUME NEW s \in Slots, Launch(s) PROVE Kept
  BY <1>5, <1>7 DEF Launch, Answer
<1>8. CASE LaunchFails \/ WriteConfig \/ StartCommand \/ StopCommand \/ ReapTracked \/ CageCrash
  BY <1>5, <1>8 DEF LaunchFails, WriteConfig, StartCommand, StopCommand, ReapTracked, CageCrash,
     Answer
<1> QED
  BY <1>1, <1>2, <1>3, <1>4, <1>5, <1>6, <1>7, <1>8 DEF Next, vars

(* No boot takes anything from a partition that has a file system          *)
(* (build-initramfs.sh:254), whatever is on the partitions and in          *)
(* whichever order they are tried.                                         *)
THEOREM PartitionsStayKept == Spec => PartitionsKept
<1>1. TypeInv /\ [Next]_vars => [Kept]_vars
  BY KeptStep
<1> QED  BY <1>1, TypesInvariant, PTL DEF Spec, PartitionsKept, Kept

-----------------------------------------------------------------------------
(* What of a bundle has been written while it is unpacked: an entry that   *)
(* is done is in its file, but for one of the same name after it.  The     *)
(* bundle whose start is awaited is there as a whole.                      *)
Whole(b) ==
  \A i \in DOMAIN Entries[b] :
    LastOfItsName(b, i) => Seen[Entries[b][i].name] = Entries[b][i].content

InFile(b, i) ==
  LET e == Entries[b]
  IN e[i].content # Empty =>
       \/ Seen[e[i].name] = e[i].content
       \/ \E j \in i + 1..Len(e) : e[j].name = e[i].name /\ e[j].content # Empty

UnpackInv ==
  /\ pc = "unpack" => done <= Len(Entries[bundle]) /\ \A i \in 1..done : InFile(bundle, i)
  /\ pc = "start" /\ bundle # NoBundle => deployed = bundle /\ Whole(bundle)
  /\ deployed # NoBundle => loaded = ManifestIn(deployed)

WholeInv == UnpackInv /\ DeploymentWhole

LEMMA WholeInit == Init => WholeInv
BY DEF Init, DeployInit, WholeInv, UnpackInv, DeploymentWhole

(* A step that leaves the daemon and what it sees alone. *)
LEMMA WholeKept ==
  ASSUME WholeInv, UNCHANGED <<root, overlay, upper, deployVars>> PROVE WholeInv'
<1>1. UNCHANGED Seen
  BY DEF Seen
<1> QED
  BY <1>1 DEF WholeInv, UnpackInv, Whole, InFile, DeploymentWhole, deployVars

LEMMA DownWhole == ASSUME pc' = "down", deployed' = NoBundle PROVE WholeInv'
BY DEF WholeInv, UnpackInv, DeploymentWhole

(* The start of the bundle in hand, or of the manifest loaded, is answered. *)
LEMMA AnswerWhole ==
  ASSUME TypeInv, WholeInv, pc = "start", pc' \in {"feed", "idle"},
         NEW a \in {"ok", "not started"}, Answer(a)
  PROVE  WholeInv'
<1>1. UNCHANGED <<Seen, loaded, deployed>>
  BY DEF Answer, storageVars, disks, mounts, Seen
<1>2. CASE bundle = NoBundle
  BY <1>1, <1>2 DEF Answer, WholeInv, UnpackInv, DeploymentWhole
<1>3. CASE bundle # NoBundle
  BY <1>1, <1>3 DEF WholeInv, UnpackInv, Whole, DeploymentWhole
<1> QED  BY <1>2, <1>3

(* An entry is skipped, truncated or written. *)
LEMMA WriteWhole ==
  ASSUME TypeInv, WholeInv, UnpackSkips \/ UnpackWrite PROVE WholeInv'
<1> DEFINE e == Entries[bundle]
<1>1. /\ pc = "unpack" /\ pc' = "unpack" /\ UNCHANGED <<bundle, root, overlay, loaded, deployed>>
      /\ done \in Nat /\ done < Len(e) /\ bundle \in Bundles
  BY DEF UnpackSkips, UnpackWrite, Unpacking, storageVars, mounts, TypeInv, TypeOK, DeployTypeOK,
     HandInv
<1>2. Len(e) \in Nat /\ DOMAIN e = 1..Len(e) /\ done + 1 \in DOMAIN e
  BY <1>1, EntriesType
<1>3. \A i \in DOMAIN e : e[i].name \in Names
  BY <1>1, <1>2, EntriesType
<1>4. SUFFICES ASSUME done' \in {done, done + 1}, NEW i \in 1..done' PROVE InFile(bundle, i)'
  BY <1>1, <1>2, <1>4 DEF WholeInv, UnpackInv, DeploymentWhole, UnpackSkips, UnpackWrite
<1>5. i \in DOMAIN e /\ (i \in 1..done => InFile(bundle, i)) /\ (i \notin 1..done => i = done + 1)
  BY <1>1, <1>2, <1>4 DEF WholeInv, UnpackInv
<1>6. CASE UnpackSkips
  <2>1. UNCHANGED Seen
    BY <1>6 DEF UnpackSkips, storageVars, disks, mounts, Seen
  <2> QED  BY <1>1, <1>5, <1>6, <2>1 DEF UnpackSkips, Entry, InFile
<1>7. CASE UnpackWrite
  <2>1. ASSUME NEW n \in Names, NEW content, Store(Entry.name, content)
        PROVE  Seen'[n] = IF n = Entry.name THEN content ELSE Seen[n]
    <3>1. /\ root = "overlay" /\ upper \in [Partitions \cup {Ram} -> Files]
          /\ overlay \in Partitions \cup {Ram}
      BY <1>1, <1>7 DEF UnpackWrite, TypeInv, TypeOK, StorageTypeOK, UpInv, Overlays
    <3>2. Entry.name \in Names
      BY <1>2, <1>3 DEF Entry
    <3> QED  BY <1>1, <2>1, <3>1, <3>2 DEF Store, Seen, Files
  <2>2. e[done + 1] = Entry /\ Entry.content # Empty
    BY <1>7 DEF UnpackWrite, Entry
  <2>3. CASE i \in 1..done /\ e[i].name = Entry.name
    <3>1. done + 1 \in i + 1..Len(e)
      BY <1>1, <1>2, <2>3
    <3> QED  BY <1>1, <2>2, <2>3, <3>1 DEF InFile
  <2>4. CASE i \in 1..done /\ e[i].name # Entry.name
    <3>1. Seen'[e[i].name] = Seen[e[i].name]
      BY <1>3, <1>5, <1>7, <2>1, <2>4 DEF UnpackWrite
    <3> QED  BY <1>1, <1>5, <2>4, <3>1 DEF InFile
  <2>5. CASE i \notin 1..done
    <3>1. i = done + 1 /\ done' # done
      BY <1>4, <1>5, <2>5
    <3>2. Store(Entry.name, Entry.content)
      BY <1>7, <3>1 DEF UnpackWrite
    <3> QED  BY <1>1, <1>3, <1>5, <2>1, <2>2, <3>1, <3>2 DEF InFile
  <2> QED  BY <2>3, <2>4, <2>5
<1> QED  BY <1>6, <1>7

LEMMA DeployWhole == ASSUME TypeInv, WholeInv, Deploys PROVE WholeInv'
<1>1. CASE CageStart
  <2>1. UNCHANGED Seen /\ last' = "none" /\ bundle' = NoBundle /\ pc' \in {"start", "idle"}
        /\ loaded' \in Readings(Seen.manifest) /\ deployed' = NoBundle
    BY <1>1 DEF CageStart, storageVars, disks, mounts, Seen, TypeInv, HandInv
  <2> QED  BY <2>1 DEF WholeInv, UnpackInv, DeploymentWhole
<1>2. ASSUME NEW b \in Bundles, Deploy(b) PROVE WholeInv'
  <2>1. done' = 0 /\ Len(Entries[b]) \in Nat /\ bundle' = b /\ pc' = "unpack"
        /\ UNCHANGED <<loaded, deployed>>
    BY <1>2, EntriesType DEF Deploy
  <2> QED  BY <2>1 DEF WholeInv, UnpackInv, DeploymentWhole
<1>3. CASE UnpackFails \/ \E b \in Bundles : DeployRefused(b)
  BY <1>3 DEF UnpackFails, DeployRefused, WholeInv, UnpackInv, DeploymentWhole, TypeInv, HandInv
<1>4. CASE UnpackEnds
  <2>1. UNCHANGED <<Seen, bundle>> /\ bundle \in Bundles /\ done = Len(Entries[bundle])
        /\ pc = "unpack" /\ loaded' = ManifestIn(bundle) /\ deployed' = bundle /\ pc' = "start"
    BY <1>4 DEF UnpackEnds, storageVars, disks, mounts, Seen, TypeInv, HandInv
  <2>2. DOMAIN Entries[bundle] = 1..done
    BY <2>1, EntriesType
  <2>3. Whole(bundle)
    BY <2>1, <2>2 DEF WholeInv, UnpackInv, Whole, InFile, LastOfItsName
  <2>4. Whole(bundle)'
    BY <2>1, <2>3 DEF Whole
  <2>5. UnpackInv'
    BY <2>1, <2>4 DEF UnpackInv
  <2>6. DeploymentWhole'
    <3>1. deployed' # NoBundle /\ loaded' = ManifestIn(deployed') /\ deployed' = bundle'
      BY <2>1, BundlesAssumption
    <3>2. Whole(deployed)'
      BY <2>4, <3>1 DEF Whole
    <3> QED  BY <3>1, <3>2 DEF DeploymentWhole, Whole
  <2> QED  BY <2>5, <2>6 DEF WholeInv
<1> QED  BY <1>1, <1>2, <1>3, <1>4, WriteWhole DEF Deploys

LEMMA WholeStep == TypeInv /\ WholeInv /\ [Next]_vars => WholeInv'
<1> SUFFICES ASSUME TypeInv, WholeInv, [Next]_vars PROVE WholeInv'
  OBVIOUS
<1> USE DEF storageVars, disks, mounts
<1>1. CASE Boots
  <2>1. pc = "down"
    BY <1>1 DEF Boots, StorageNext, PowerOn, FindOverlay, RamOverlay, Overlaid, FormatOverlay,
       FormatHalf, Pivot, mount_all, mount_persistent, StartServices, BootFails, TypeInv, UpInv
  <2>2. deployed = NoBundle
    BY <2>1 DEF TypeInv, HandInv
  <2> QED  BY <1>1, <2>1, <2>2, DownWhole DEF Boots, deployVars
<1>2. CASE Saves \/ StopCommand \/ UNCHANGED vars
  BY <1>2, WholeKept DEF Saves, SaveSecrets, StopCommand, vars
<1>3. ASSUME NEW s \in Slots, ChildStep(s) \/ Exit(s) PROVE WholeInv'
  BY <1>3, ChildTypes, WholeKept
<1>4. ASSUME NEW s \in Slots, Launch(s) PROVE WholeInv'
  BY <1>4, AnswerWhole DEF Launch
<1>5. CASE LaunchFails
  BY <1>5, AnswerWhole DEF LaunchFails
<1>6. CASE WriteConfig \/ StartCommand \/ ReapTracked
  <2>1. UNCHANGED <<Seen, loaded, bundle, last, deployed>> /\ bundle = NoBundle
        /\ pc \in {"idle", "feed"} /\ pc' \in {"idle", "start"}
    BY <1>6 DEF WriteConfig, StartCommand, ReapTracked, Seen, TypeInv, HandInv
  <2> QED  BY <2>1 DEF WholeInv, UnpackInv, DeploymentWhole
<1>7. CASE CageCrash \/ Off
  BY <1>7, DownWhole DEF CageCrash, Off, Forget
<1> QED
  BY <1>1, <1>2, <1>3, <1>4, <1>5, <1>6, <1>7, DeployWhole DEF Next

(* After a deployment that was answered, every file that the bundle brings *)
(* is the bundle's, and memory has its manifest (main.rs:399-411), whatever *)
(* failed or died before; a later failure leaves memory as it is.  The     *)
(* bundles are any: with another AGENT.toml further down (deploy.rs:158),  *)
(* without a program or with an empty one (:116-118, :154).                *)
THEOREM DeploymentsWhole == Spec => []DeploymentWhole
<1>1. WholeInv => DeploymentWhole
  BY DEF WholeInv
<1> QED  BY <1>1, WholeInit, WholeStep, TypesInvariant, PTL DEF Spec

-----------------------------------------------------------------------------
(* What the rules let a process do below any path there is.                *)
LEMMA PathItself == ASSUME NEW p \in Seq(STRING) PROVE p \in Above(p)
<1>1. SubSeq(p, 1, Len(p)) = p /\ Len(p) \in 0..Len(p)
  OBVIOUS
<1> QED  BY <1>1 DEF Above

LEMMA AccessOfRules ==
  /\ "read" \in ACCESS_READ /\ ACCESS_READ \subseteq ACCESS_READ_WRITE
  /\ "write" \in ACCESS_READ_WRITE /\ "write" \notin ACCESS_READ
  /\ "write" \notin ACCESS_READ_EXEC
BY DEF ACCESS_READ, ACCESS_READ_WRITE, ACCESS_READ_EXEC

(* The share of what is declared gets the rights of its tag. *)
LEMMA SharesReadable ==
  ASSUME NEW b, NEW w \in FileSystems, NEW p \in ManifestOf[b].read \cup ManifestOf[b].write,
         Share(p) \in w.there
  PROVE  "read" \in Granted(Rules(b, w), Share(p))
<1> DEFINE m == ManifestOf[b]
           access(v) == IF v.suffix = "_rw" THEN ACCESS_READ_WRITE ELSE ACCESS_READ
<1>1. PICK v \in virtiofs_mounts(m) : v.path = p
  <2>1. [suffix |-> "_ro", path |-> p] \in virtiofs_mounts(m)
        \/ [suffix |-> "_rw", path |-> p] \in virtiofs_mounts(m)
    BY DEF virtiofs_mounts
  <2> HIDE DEF m
  <2> QED  BY <2>1
<1>2. Rule(Share(p), access(v)) \in Rules(b, w)
  BY <1>1 DEF Rules, Enforced, build_sandbox, Rule
<1>3. "read" \in access(v)
  BY AccessOfRules
<1>4. Share(p) \in Above(Share(p))
  BY PathItself, FileSystemsAssumption
<1> QED  BY <1>2, <1>3, <1>4 DEF Granted, Rule

LEMMA RuleFields == \A path, access : Rule(path, access).path = path /\ Rule(path, access).access = access
BY DEF Rule

(* The rules that let a process write are those of what is declared to be  *)
(* written, and of what every VM process may write.                        *)
LEMMA WritingRules ==
  ASSUME NEW m, NEW path
  PROVE  (\E r \in build_sandbox(m) : r.path = path /\ "write" \in r.access)
           <=> \/ \E p \in m.write : Resolve(p) = path \/ Share(p) = path
               \/ \E p \in WritableDirs \cup {kvm} : Resolve(p) = path
<1> DEFINE shares == {Rule(Share(v.path), IF v.suffix = "_rw" THEN ACCESS_READ_WRITE ELSE ACCESS_READ) :
                        v \in virtiofs_mounts(m)}
           writes(rules) == \E r \in rules : r.path = path /\ "write" \in r.access
           access(v) == IF v.suffix = "_rw" THEN ACCESS_READ_WRITE ELSE ACCESS_READ
<1>1. writes(FixedRules) <=> \E p \in WritableDirs \cup {kvm} : Resolve(p) = path
  <2>1. writes({Rule(Rootfs, ACCESS_READ_EXEC), Rule(Resolve(kvm), {"read", "write"})})
          <=> Resolve(kvm) = path
    BY AccessOfRules, RuleFields
  <2>2. ~ writes({Rule(Resolve(d), {"read"}) : d \in Devices})
    BY RuleFields
  <2>3. ~ writes({Rule(Resolve(d), ACCESS_READ) : d \in ReadableDirs})
    BY AccessOfRules, RuleFields
  <2>4. writes({Rule(Resolve(d), ACCESS_READ_WRITE) : d \in WritableDirs})
          <=> \E d \in WritableDirs : Resolve(d) = path
    <3> DEFINE rules == {Rule(Resolve(d), ACCESS_READ_WRITE) : d \in WritableDirs}
    <3>1. \A d \in WritableDirs : Rule(Resolve(d), ACCESS_READ_WRITE) \in rules
      OBVIOUS
    <3>2. \A r \in rules : \E d \in WritableDirs : r = Rule(Resolve(d), ACCESS_READ_WRITE)
      OBVIOUS
    <3> HIDE DEF rules
    <3> QED  BY <3>1, <3>2, AccessOfRules, RuleFields
  <2> QED  BY <2>1, <2>2, <2>3, <2>4 DEF FixedRules
<1>2. writes(DeclaredRules(m)) <=> \E p \in m.write : Resolve(p) = path
  <2>1. ~ writes({Rule(Resolve(p), ACCESS_READ) : p \in m.read})
    BY AccessOfRules, RuleFields
  <2>2. writes({Rule(Resolve(p), ACCESS_READ_WRITE) : p \in m.write})
          <=> \E p \in m.write : Resolve(p) = path
    <3> DEFINE rules == {Rule(Resolve(p), ACCESS_READ_WRITE) : p \in m.write}
    <3>1. \A p \in m.write : Rule(Resolve(p), ACCESS_READ_WRITE) \in rules
      OBVIOUS
    <3>2. \A r \in rules : \E p \in m.write : r = Rule(Resolve(p), ACCESS_READ_WRITE)
      OBVIOUS
    <3> HIDE DEF rules
    <3> QED  BY <3>1, <3>2, AccessOfRules, RuleFields
  <2> QED  BY <2>1, <2>2 DEF DeclaredRules
<1>3. writes(shares) <=> \E p \in m.write : Share(p) = path
  <2>1. \A v : "write" \in access(v) <=> v.suffix = "_rw"
    BY AccessOfRules
  <2> HIDE DEF access
  <2>2. writes({Rule(Share(v.path), access(v)) : v \in virtiofs_mounts(m)})
          <=> \E v \in virtiofs_mounts(m) : "write" \in access(v) /\ Share(v.path) = path
    <3> DEFINE rules == {Rule(Share(v.path), access(v)) : v \in virtiofs_mounts(m)}
    <3>1. \A v \in virtiofs_mounts(m) : Rule(Share(v.path), access(v)) \in rules
      OBVIOUS
    <3>2. \A r \in rules : \E v \in virtiofs_mounts(m) : r = Rule(Share(v.path), access(v))
      OBVIOUS
    <3> HIDE DEF rules
    <3> QED  BY <3>1, <3>2, RuleFields
  <2>3. ASSUME NEW v \in virtiofs_mounts(m), v.suffix = "_rw" PROVE v.path \in m.write
    BY <2>3 DEF virtiofs_mounts
  <2>4. ASSUME NEW p \in m.write
        PROVE  \E v \in virtiofs_mounts(m) : v.suffix = "_rw" /\ v.path = p
    <3>1. [suffix |-> "_rw", path |-> p] \in virtiofs_mounts(m)
      BY DEF virtiofs_mounts
    <3> QED  BY <3>1
  <2>5. shares = {Rule(Share(v.path), access(v)) : v \in virtiofs_mounts(m)}
    BY DEF access
  <2> HIDE DEF shares
  <2>6. writes(shares) <=> \E v \in virtiofs_mounts(m) : v.suffix = "_rw" /\ Share(v.path) = path
    BY <2>1, <2>2, <2>5
  <2> HIDE DEF writes
  <2> QED  BY <2>3, <2>4, <2>6
<1>4. build_sandbox(m) = FixedRules \cup DeclaredRules(m) \cup shares
  BY DEF build_sandbox
<1>5. writes(build_sandbox(m)) <=> writes(FixedRules) \/ writes(DeclaredRules(m)) \/ writes(shares)
  <2> HIDE DEF shares
  <2> QED  BY <1>4
<1> HIDE DEF shares
<1> QED  BY <1>1, <1>2, <1>3, <1>5

LEMMA WritableDeclared ==
  ASSUME NEW b, NEW w \in FileSystems, NEW p \in w.there
  PROVE  "write" \in Granted(Rules(b, w), p) <=> DeclaredWritable(ManifestOf[b], p)
<1> DEFINE m == ManifestOf[b]
           writes(path) == \E r \in build_sandbox(m) : r.path = path /\ "write" \in r.access
<1>1. "write" \in Granted(Rules(b, w), p) <=> \E path \in Above(p) \cap w.there : writes(path)
  BY DEF Granted, Rules, Enforced
<1>2. Above(p) \cap w.there = Above(p)
  BY FileSystemsAssumption
<1>3. DeclaredWritable(m, p) <=>
        \E path \in Above(p) : \/ \E q \in m.write : Resolve(q) = path \/ Share(q) = path
                              \/ \E q \in WritableDirs \cup {kvm} : Resolve(q) = path
  BY DEF DeclaredWritable
<1>4. \A path : writes(path) <=> \/ \E q \in m.write : Resolve(q) = path \/ Share(q) = path
                                \/ \E q \in WritableDirs \cup {kvm} : Resolve(q) = path
  <2> HIDE DEF m
  <2> QED  BY WritingRules
<1> HIDE DEF writes, m
<1> QED  BY <1>1, <1>2, <1>3, <1>4 DEF m

(* What is in force in a process on its way into the VM. *)
ConfinedInv ==
  \A s \in Slots : kernel.sandbox /\ child[s].of \in Conveyed =>
    /\ child[s].phase \in {"seccomp", "enter", "running"} /\ kernel.landlock =>
         \E w \in FileSystems : /\ child[s].rules = Rules(child[s].of, w)
                                /\ ~Refused(child[s].rules, w.files)
    /\ child[s].phase \in {"enter", "running"} => child[s].filter = Filter(child[s].of)

(* It concerns the slots one by one. *)
InForce(c) ==
  kernel.sandbox /\ c.of \in Conveyed =>
    /\ c.phase \in {"seccomp", "enter", "running"} /\ kernel.landlock =>
         \E w \in FileSystems : c.rules = Rules(c.of, w) /\ ~Refused(c.rules, w.files)
    /\ c.phase \in {"enter", "running"} => c.filter = Filter(c.of)

LEMMA ConfinedStep == TypeInv /\ ConfinedInv /\ [Next]_vars => ConfinedInv'
<1> SUFFICES ASSUME TypeInv, ConfinedInv, [Next]_vars PROVE ConfinedInv'
  OBVIOUS
<1>1. child \in [Slots -> Children] /\ \A s \in Slots : InForce(child[s])
  BY DEF TypeInv, TypeOK, ConfinedInv, InForce
<1>2. kernel' = kernel
  <2>1. ASSUME NEW s \in Slots, ChildStep(s) \/ Exit(s) PROVE kernel' = kernel
    BY <2>1, ChildTypes
  <2> QED
    BY <2>1 DEF Next, vars, Boots, Saves, Deploys, Launch, LaunchFails, WriteConfig, StartCommand,
       StopCommand, ReapTracked, CageCrash, Off
<1>3. SUFFICES ASSUME NEW t \in Slots PROVE InForce(child'[t])
  BY <1>2, <1>3 DEF ConfinedInv, InForce
<1>4. CASE UNCHANGED child
  BY <1>1, <1>4
<1>5. ASSUME NEW s \in Slots, NEW c, child' = [child EXCEPT ![s] = c], InForce(c)
      PROVE  InForce(child'[t])
  BY <1>1, <1>5
<1>6. ASSUME NEW s \in Slots, NEW c, Becomes(s, c), InForce(c)
      PROVE  InForce(child'[t])
  BY <1>5, <1>6 DEF Becomes
<1>7. InForce(NoChild)
  BY DEF InForce, NoChild
<1>8. ASSUME NEW s \in Slots, ChildStep(s) PROVE InForce(child'[t])
  <2> DEFINE c == child[s]
  <2>1. c \in Children /\ InForce(c)
    BY <1>1
  <2>2. CASE Becomes(s, NoChild)
    BY <1>6, <1>7, <2>2
  <2>3. CASE ReadConfig(s)
    <3>1. InForce([c EXCEPT !.phase = "setup"])
      BY <2>1 DEF InForce, Children
    <3> QED  BY <1>6, <2>2, <2>3, <3>1 DEF ReadConfig, Proceeds
  <2>4. CASE Setup(s)
    <3>1. InForce([c EXCEPT !.phase = IF kernel.sandbox /\ c.of \in Conveyed
                                      THEN "landlock" ELSE "enter"])
      BY <2>1 DEF InForce, Children
    <3> QED  BY <1>6, <2>2, <2>4, <3>1 DEF Setup, Proceeds
  <2>5. CASE ApplyLandlock(s)
    <3>1. ~ kernel.landlock => InForce([c EXCEPT !.phase = "seccomp"])
      BY <2>1 DEF InForce, Children
    <3>2. ASSUME NEW w \in FileSystems, ~Refused(Rules(c.of, w), w.files)
          PROVE  InForce([c EXCEPT !.phase = "seccomp", !.rules = Rules(c.of, w)])
      <4> DEFINE d == [c EXCEPT !.phase = "seccomp", !.rules = Rules(c.of, w)]
      <4>1. d.phase = "seccomp" /\ d.rules = Rules(c.of, w) /\ d.of = c.of
        BY <2>1 DEF Children
      <4> HIDE DEF d
      <4>2. InForce(d)
        BY <3>2, <4>1 DEF InForce
      <4> QED  BY <4>2 DEF d
    <3> QED  BY <1>6, <2>2, <2>5, <3>1, <3>2 DEF ApplyLandlock, Proceeds
  <2>6. CASE ApplySeccomp(s)
    <3>1. InForce([c EXCEPT !.phase = "enter", !.filter = Filter(c.of)])
      BY <2>1, <2>6 DEF InForce, Children, ApplySeccomp, At
    <3> QED  BY <1>6, <2>2, <2>6, <3>1 DEF ApplySeccomp
  <2>7. CASE Enter(s)
    <3>1. InForce([c EXCEPT !.phase = "running"])
      BY <2>1, <2>7 DEF InForce, Children, Enter, At
    <3> QED  BY <1>6, <2>2, <2>7, <3>1 DEF Enter, Proceeds
  <2> QED  BY <1>8, <2>3, <2>4, <2>5, <2>6, <2>7 DEF ChildStep
<1>9. ASSUME NEW s \in Slots, Exit(s) PROVE InForce(child'[t])
  BY <1>6, <1>7, <1>9 DEF Exit
<1>10. ASSUME NEW s \in Slots, Launch(s) PROVE InForce(child'[t])
  <2>1. InForce([NoChild EXCEPT !.phase = "reading", !.of = loaded])
    BY DEF InForce, NoChild
  <2> QED  BY <1>5, <1>10, <2>1 DEF Launch
<1>11. CASE WriteConfig \/ CageCrash
  <2>1. \A c \in Children : \A pipe : InForce(c) => InForce([c EXCEPT !.pipe = pipe])
    BY DEF InForce, Children
  <2>2. child'[t] = child[t] \/ \E pipe \in {"whole", "cut"} : child'[t] = [child[t] EXCEPT !.pipe = pipe]
    BY <1>1, <1>11 DEF WriteConfig, CageCrash
  <2> QED  BY <1>1, <2>1, <2>2
<1>12. CASE StopCommand
  BY <1>4, <1>12 DEF StopCommand
<1>13. CASE Off
  BY <1>7, <1>13 DEF Off
<1>14. CASE Boots \/ Saves \/ Deploys \/ LaunchFails \/ StartCommand \/ ReapTracked \/ UNCHANGED vars
  BY <1>4, <1>14 DEF Boots, Saves, Deploys, LaunchFails, StartCommand, ReapTracked, vars, vmVars
<1> QED
  BY <1>8, <1>9, <1>10, <1>11, <1>12, <1>13, <1>14 DEF Next

(* A VM runs only under the filter and, where there is Landlock, the rules *)
(* of its manifest (main.rs:64-96), which let it write what is declared to *)
(* be written and no other path of the host, nested as the declared paths  *)
(* may be and whatever of them is missing; unless CAGE_NO_SANDBOX says     *)
(* otherwise or the manifest did not reach the process.                    *)
THEOREM VmsConfined == Spec => []Confined
<1>1. Init => ConfinedInv
  BY DEF Init, ConfinedInv, NoChild
<1>2. ConfinedInv => Confined
  BY SharesReadable, WritableDeclared DEF ConfinedInv, Confined, At
<1> QED  BY <1>1, <1>2, ConfinedStep, TypesInvariant, PTL DEF Spec

-----------------------------------------------------------------------------
(* The k-th element of a set of numbers in ascending order is the one that *)
(* has k elements of the set up to it.                                     *)
LEMMA AscendingExists ==
  ASSUME NEW S \in SUBSET Nat, IsFiniteSet(S)
  PROVE  \E s \in [1..Cardinality(S) -> S] : \A i, j \in DOMAIN s : i < j => s[i] < s[j]
<1> DEFINE n == Cardinality(S)
           upTo(x) == {y \in S : y <= x}
           rank == [x \in S |-> Cardinality(upTo(x))]
<1>1. n \in Nat /\ IsFiniteSet(1..n) /\ Cardinality(1..n) = n
  BY FS_CardinalityType, FS_Interval
<1>2. ASSUME NEW x \in S PROVE rank[x] \in 1..n
  <2>1. upTo(x) \in SUBSET S /\ x \in upTo(x)
    OBVIOUS
  <2>2. IsFiniteSet(upTo(x)) /\ Cardinality(upTo(x)) <= n
    BY <2>1, FS_Subset
  <2>3. Cardinality(upTo(x)) \in Nat /\ Cardinality(upTo(x)) # 0
    BY <2>1, <2>2, FS_CardinalityType, FS_EmptySet
  <2> QED  BY <1>1, <2>2, <2>3
<1>3. ASSUME NEW x \in S, NEW y \in S, x < y PROVE rank[x] < rank[y]
  <2>1. IsFiniteSet(upTo(y)) /\ upTo(x) \in SUBSET upTo(y) /\ y \notin upTo(x) /\ y \in upTo(y)
    <3>1. upTo(y) \in SUBSET S
      OBVIOUS
    <3>2. IsFiniteSet(upTo(y))
      BY <3>1, FS_Subset
    <3>3. x \in Nat /\ y \in Nat /\ \A z \in S : z \in Nat
      OBVIOUS
    <3>4. \A z \in upTo(x) : z \in upTo(y)
      BY <1>3, <3>3
    <3>5. y \notin upTo(x) /\ y \in upTo(y)
      BY <1>3, <3>3
    <3> HIDE DEF upTo
    <3> QED  BY <3>2, <3>4, <3>5
  <2>2. Cardinality(upTo(x)) <= Cardinality(upTo(y))
    BY <2>1, FS_Subset
  <2>3. Cardinality(upTo(x)) # Cardinality(upTo(y))
    BY <2>1, FS_Subset
  <2>4. rank[x] \in Nat /\ rank[y] \in Nat
    BY <1>2
  <2> QED  BY <2>2, <2>3, <2>4
<1> HIDE DEF rank
<1>4. rank \in Surjection(S, 1..n)
  <2>1. rank \in [S -> 1..n]
    BY <1>2 DEF rank
  <2>2. rank \in Injection(S, 1..n)
    <3>1. ASSUME NEW x \in S, NEW y \in S, x # y PROVE rank[x] # rank[y]
      <4>1. rank[x] \in Nat /\ rank[y] \in Nat /\ (x < y \/ y < x)
        BY <1>2, <3>1
      <4> QED  BY <1>3, <4>1
    <3> QED  BY <2>1, <3>1 DEF Injection, IsInjective
  <2> QED  BY <1>1, <2>2, FS_Injection
<1> DEFINE s == [i \in 1..n |-> CHOOSE x \in S : rank[x] = i]
<1>5. \A i \in 1..n : s[i] \in S /\ rank[s[i]] = i
  BY <1>4 DEF Surjection
<1>6. ASSUME NEW i \in 1..n, NEW j \in 1..n, i < j PROVE s[i] < s[j]
  <2>1. s[i] \in S /\ s[j] \in S /\ rank[s[i]] = i /\ rank[s[j]] = j
    BY <1>5
  <2> HIDE DEF s
  <2>4. s[i] \in Nat /\ s[j] \in Nat /\ i \in Nat /\ j \in Nat
    <3>1. \A z \in S : z \in Nat
      OBVIOUS
    <3>2. s[i] \in Nat /\ s[j] \in Nat
      BY <2>1, <3>1, Zenon
    <3>3. i \in Nat /\ j \in Nat
      BY <1>1
    <3> QED  BY <3>2, <3>3
  <2>2. CASE s[i] = s[j]
    BY <1>6, <2>1, <2>4, <2>2
  <2>3. CASE s[j] < s[i]
    <3>1. j < i
      BY <1>3, <2>1, <2>3
    <3> QED  BY <1>6, <2>4, <3>1
  <2> QED  BY <2>4, <2>2, <2>3
<1>7. s \in [1..n -> S]
  BY <1>5
<1> QED  BY <1>6, <1>7

LEMMA AscendingAll ==
  ASSUME NEW S \in SUBSET Nat, IsFiniteSet(S)
  PROVE  /\ Ascending(S) \in [1..Cardinality(S) -> S]
         /\ \A x \in S : \E i \in 1..Cardinality(S) : Ascending(S)[i] = x
<1> DEFINE n == Cardinality(S)
           s == Ascending(S)
<1>1. s \in [1..n -> S] /\ \A i, j \in DOMAIN s : i < j => s[i] < s[j]
  BY AscendingExists DEF Ascending
<1> HIDE DEF s
<1>2. n \in Nat /\ Cardinality(1..n) = n
  BY FS_CardinalityType, FS_Interval
<1>3. ASSUME NEW i \in 1..n, NEW j \in 1..n, i # j PROVE s[i] # s[j]
  <2>1. s[i] \in Nat /\ s[j] \in Nat
    BY <1>1
  <2>2. CASE i < j
    BY <1>1, <2>1, <2>2
  <2>3. CASE j < i
    BY <1>1, <2>1, <2>3
  <2> QED  BY <1>2, <1>3, <2>2, <2>3
<1>4. s \in Injection(1..n, S)
  BY <1>1, <1>3 DEF Injection, IsInjective
<1>5. s \in Surjection(1..n, S)
  BY <1>2, <1>4, FS_Injection
<1> QED  BY <1>1, <1>5 DEF Surjection, s

(* What a program of tests that all jump to the end answers.               *)
LEMMA VerdictOfTests ==
  ASSUME NEW n \in Nat, NEW prog, Len(prog) = n + 2,
         \A i \in 1..n : prog[i].op = "jeq" /\ prog[i].jt = n - i + 1,
         prog[n + 1].op = "log", prog[n + 2].op = "allow", NEW nr
  PROVE  Verdict(prog, nr) = IF \E i \in 1..n : prog[i].k = nr THEN "allow" ELSE "log"
<1> DEFINE After(i) == i + 1 + (IF prog[i].k = nr THEN prog[i].jt ELSE 0)
           Runs(f) == f = [i \in 1..Len(prog) |->
                             IF prog[i].op # "jeq" THEN prog[i].op ELSE f[After(i)]]
           from == CHOOSE f : Runs(f)
           h == [i \in 1..n + 2 |-> IF i = n + 2 \/ \E j \in i..n : prog[j].k = nr
                                    THEN "allow" ELSE "log"]
<1>1. ASSUME NEW i \in 1..n
      PROVE  /\ prog[i].k = nr => After(i) = n + 2
             /\ prog[i].k # nr => After(i) = i + 1
             /\ After(i) \in i + 1..n + 2
  OBVIOUS
<1>2. Runs(h)
  <2>1. ASSUME NEW i \in 1..n PROVE h[i] = h[After(i)]
    <3>1. CASE prog[i].k = nr
      BY <1>1, <3>1
    <3>2. CASE prog[i].k # nr
      <4>1. \A j : j \in i..n <=> j = i \/ j \in i + 1..n
        OBVIOUS
      <4>2. (\E j \in i..n : prog[j].k = nr) <=> \E j \in i + 1..n : prog[j].k = nr
        BY <3>2, <4>1, Zenon
      <4> QED  BY <1>1, <3>2, <4>2
    <3> QED  BY <3>1, <3>2
  <2>2. h[n + 1] = "log" /\ h[n + 2] = "allow"
    OBVIOUS
  <2>3. \A i \in 1..n + 2 : i \in 1..n \/ i = n + 1 \/ i = n + 2
    OBVIOUS
  <2>4. \A i \in 1..n + 2 : h[i] = IF prog[i].op # "jeq" THEN prog[i].op ELSE h[After(i)]
    <3> HIDE DEF h, After
    <3> QED  BY <2>1, <2>2, <2>3
  <2>5. h = [i \in 1..n + 2 |-> h[i]]
    OBVIOUS
  <2> HIDE DEF h, After
  <2> QED  BY <2>4, <2>5
<1> HIDE DEF h, After
<1>3. Runs(from)
  <2> HIDE DEF Runs
  <2> QED  BY <1>2, Zenon
<1>4. Verdict(prog, nr) = from[1]
  BY DEF Verdict, After
<1> HIDE DEF from
<1>5. \A i \in 1..n + 2 : from[i] = IF prog[i].op # "jeq" THEN prog[i].op ELSE from[After(i)]
  BY <1>3
<1>6. \A i \in 1..n + 2 : h[i] = IF prog[i].op # "jeq" THEN prog[i].op ELSE h[After(i)]
  BY <1>2
<1>7. \A i \in 1..n + 2 : from[i] = h[i]
  <2> DEFINE bad == {d \in Nat : n + 2 - d \in 1..n + 2 /\ from[n + 2 - d] # h[n + 2 - d]}
  <2>1. CASE bad = {}
    <3>1. ASSUME NEW i \in 1..n + 2 PROVE from[i] = h[i]
      <4>1. n + 2 - i \in Nat /\ n + 2 - (n + 2 - i) = i
        OBVIOUS
      <4> QED  BY <2>1, <4>1
    <3> QED  BY <3>1
  <2>2. CASE bad # {}
    <3>1. PICK d \in bad : \A e \in bad : <<e, d>> \notin OpToRel(<, Nat)
      BY <2>2, WFMin, NatLessThanWellFounded, Zenon
    <3>2. \A e \in bad : ~ (e < d)
      BY <3>1 DEF OpToRel
    <3> DEFINE i == n + 2 - d
    <3>3. d \in Nat /\ i \in 1..n + 2 /\ from[i] # h[i]
      OBVIOUS
    <3>4. \A j \in i + 1..n + 2 : from[j] = h[j]
      <4> SUFFICES ASSUME NEW j \in i + 1..n + 2, from[j] # h[j] PROVE FALSE
        OBVIOUS
      <4>1. n + 2 - j \in Nat /\ n + 2 - (n + 2 - j) = j /\ n + 2 - j < d /\ j \in 1..n + 2
        BY <3>3
      <4> QED  BY <3>2, <4>1
    <3> HIDE DEF i, bad
    <3>5. from[i] # h[i] => prog[i].op = "jeq"
      BY <1>5, <1>6, <3>3
    <3>6. i \in 1..n
      BY <3>3, <3>5
    <3>7. from[i] = from[After(i)] /\ h[i] = h[After(i)]
      BY <1>5, <1>6, <3>3, <3>5
    <3>8. from[After(i)] = h[After(i)]
      BY <1>1, <3>4, <3>6
    <3> QED  BY <3>3, <3>7, <3>8
  <2> QED  BY <2>1, <2>2
<1> QED  BY <1>4, <1>7 DEF h

(* The filter of a set of calls that assemble_bpf accepts, with its        *)
(* offsets in a few bits, passes these calls and reports every other.      *)
LEMMA FilterAnswers ==
  ASSUME NEW S \in SUBSET Nat, IsFiniteSet(S), ~TooManySyscalls(S), NEW nr
  PROVE  Verdict(assemble_bpf(S), nr) = IF nr \in S THEN "allow" ELSE "log"
<1> DEFINE n == Cardinality(S)
           s == Ascending(S)
           test(i) == [op |-> "jeq", k |-> s[i], jt |-> (n - i + 1) % (MaxJump + 1)]
           tests == [i \in 1..n |-> test(i)]
           rets == <<[op |-> "log"], [op |-> "allow"]>>
           prog == tests \o rets
           T == {test(i) : i \in 1..n} \cup {[op |-> "log"], [op |-> "allow"]}
<1>1. n \in Nat /\ n <= MaxJump /\ MaxJump \in Nat
  BY FS_CardinalityType, CallsAssumption DEF TooManySyscalls
<1>2. s \in [1..n -> S] /\ \A x \in S : \E i \in 1..n : s[i] = x
  BY AscendingAll
<1> HIDE DEF s
<1>3. Len(s) = n
  BY <1>1, <1>2
<1>4. assemble_bpf(S) = prog
  BY <1>3 DEF assemble_bpf, s
<1>5. /\ tests \in Seq(T) /\ Len(tests) = n /\ \A i \in 1..n : tests[i] = test(i)
      /\ rets \in Seq(T) /\ Len(rets) = 2
      /\ rets[1] = [op |-> "log"] /\ rets[2] = [op |-> "allow"]
  <2>1. \A i \in 1..n : tests[i] = test(i) /\ tests[i] \in T
    OBVIOUS
  <2>2. [op |-> "log"] \in T /\ [op |-> "allow"] \in T
    OBVIOUS
  <2> HIDE DEF T, test
  <2> QED  BY <1>1, <2>1, <2>2
<1> HIDE DEF tests, rets, T, test
<1>6. /\ Len(prog) = n + 2
      /\ \A i \in 1..n : prog[i] = test(i)
      /\ prog[n + 1] = [op |-> "log"] /\ prog[n + 2] = [op |-> "allow"]
  <2> HIDE DEF n
  <2>1. /\ Len(prog) = Len(tests) + Len(rets)
        /\ \A i \in 1..Len(tests) : prog[i] = tests[i]
        /\ \A i \in 1..Len(rets) : prog[Len(tests) + i] = rets[i]
    <3>1. tests \in Seq(T) /\ rets \in Seq(T)
      BY <1>5
    <3> QED  BY <3>1
  <2> HIDE DEF prog
  <2> QED  BY <1>1, <1>5, <2>1
<1> HIDE DEF prog
<1>7. \A i \in 1..n : prog[i].op = "jeq" /\ prog[i].k = s[i] /\ prog[i].jt = n - i + 1
  <2> SUFFICES ASSUME NEW i \in 1..n
               PROVE  prog[i].op = "jeq" /\ prog[i].k = s[i] /\ prog[i].jt = n - i + 1
    OBVIOUS
  <2>1. (n - i + 1) % (MaxJump + 1) = n - i + 1
    <3>1. n - i + 1 \in 0..MaxJump
      BY <1>1
    <3>2. \A a, b \in Nat : a <= b => a % (b + 1) = a
      OBVIOUS
    <3> QED  BY <1>1, <3>1, <3>2
  <2>2. prog[i] = [op |-> "jeq", k |-> s[i], jt |-> n - i + 1]
    BY <1>6, <2>1 DEF test
  <2> HIDE DEF n
  <2> QED  BY <2>2
<1>8. Verdict(prog, nr) = IF \E i \in 1..n : prog[i].k = nr THEN "allow" ELSE "log"
  <2>1. prog[n + 1].op = "log" /\ prog[n + 2].op = "allow"
    BY <1>6
  <2>2. \A i \in 1..n : prog[i].op = "jeq" /\ prog[i].jt = n - i + 1
    BY <1>7
  <2>3. n \in Nat /\ Len(prog) = n + 2
    BY <1>1, <1>6
  <2> HIDE DEF n
  <2> QED  BY <2>1, <2>2, <2>3, VerdictOfTests, Zenon
<1>9. (\E i \in 1..n : prog[i].k = nr) <=> nr \in S
  BY <1>2, <1>7
<1> QED  BY <1>4, <1>8, <1>9

(* A filter in force is that of a set of calls assemble_bpf accepted. *)
Accepted(c) ==
  c.filter # <<>> =>
    /\ c.of \in Manifests /\ c.filter = Filter(c.of)
    /\ ~TooManySyscalls(build_profile(ManifestOf[c.of]))

FilterInv == \A s \in Slots : Accepted(child[s])

LEMMA FilterStep == TypeInv /\ FilterInv /\ [Next]_vars => FilterInv'
<1> SUFFICES ASSUME TypeInv, FilterInv, [Next]_vars, NEW t \in Slots PROVE Accepted(child'[t])
  BY DEF FilterInv, Accepted
<1>1. child \in [Slots -> Children] /\ \A s \in Slots : Accepted(child[s])
  BY DEF TypeInv, TypeOK, FilterInv
<1>2. CASE UNCHANGED child
  BY <1>1, <1>2
<1>3. ASSUME NEW s \in Slots, NEW c, child' = [child EXCEPT ![s] = c], Accepted(c)
      PROVE  Accepted(child'[t])
  BY <1>1, <1>3
<1>4. ASSUME NEW s \in Slots, NEW c, Becomes(s, c), Accepted(c)
      PROVE  Accepted(child'[t])
  BY <1>3, <1>4 DEF Becomes
<1>5. Accepted(NoChild)
  BY DEF Accepted, NoChild
<1>6. ASSUME NEW c \in Children, NEW phase, Accepted(c)
      PROVE  Accepted([c EXCEPT !.phase = phase])
  BY <1>6 DEF Accepted, Children
<1>7. ASSUME NEW s \in Slots, NEW phase, Proceeds(s, phase) PROVE Accepted(child'[t])
  BY <1>1, <1>4, <1>6, <1>7 DEF Proceeds
<1>8. ASSUME NEW s \in Slots, ChildStep(s) PROVE Accepted(child'[t])
  <2> DEFINE c == child[s]
  <2>1. c \in Children /\ Accepted(c)
    BY <1>1
  <2>2. CASE Becomes(s, NoChild)
    BY <1>4, <1>5, <2>2
  <2>3. CASE ReadConfig(s) \/ Setup(s) \/ Enter(s)
    BY <1>7, <2>2, <2>3 DEF ReadConfig, Setup, Enter
  <2>4. CASE ApplyLandlock(s)
    <3>1. \A rules : Accepted([c EXCEPT !.phase = "seccomp", !.rules = rules])
      BY <2>1 DEF Accepted, Children
    <3> QED  BY <1>4, <1>7, <2>2, <2>4, <3>1 DEF ApplyLandlock
  <2>5. CASE ApplySeccomp(s)
    <3>1. c.of \in Manifests
      BY <2>5 DEF ApplySeccomp, At, TypeInv, HandInv
    <3>2. ~TooManySyscalls(build_profile(ManifestOf[c.of]))
            => Accepted([c EXCEPT !.phase = "enter", !.filter = Filter(c.of)])
      BY <2>1, <3>1 DEF Accepted, Children
    <3> QED  BY <1>4, <2>2, <2>5, <3>2 DEF ApplySeccomp
  <2> QED  BY <1>8, <2>3, <2>4, <2>5 DEF ChildStep
<1>9. ASSUME NEW s \in Slots, Exit(s) PROVE Accepted(child'[t])
  BY <1>4, <1>5, <1>9 DEF Exit
<1>10. ASSUME NEW s \in Slots, Launch(s) PROVE Accepted(child'[t])
  <2>1. Accepted([NoChild EXCEPT !.phase = "reading", !.of = loaded])
    BY DEF Accepted, NoChild
  <2> QED  BY <1>3, <1>10, <2>1 DEF Launch
<1>11. CASE WriteConfig \/ CageCrash
  <2>1. \A c \in Children : \A pipe : Accepted(c) => Accepted([c EXCEPT !.pipe = pipe])
    BY DEF Accepted, Children
  <2>2. child'[t] = child[t] \/ \E pipe \in {"whole", "cut"} : child'[t] = [child[t] EXCEPT !.pipe = pipe]
    BY <1>1, <1>11 DEF WriteConfig, CageCrash
  <2> QED  BY <1>1, <2>1, <2>2
<1>12. CASE StopCommand
  BY <1>2, <1>12 DEF StopCommand
<1>13. CASE Off
  BY <1>5, <1>13 DEF Off
<1>14. CASE Boots \/ Saves \/ Deploys \/ LaunchFails \/ StartCommand \/ ReapTracked \/ UNCHANGED vars
  BY <1>2, <1>14 DEF Boots, Saves, Deploys, LaunchFails, StartCommand, ReapTracked, vars, vmVars
<1> QED
  BY <1>8, <1>9, <1>10, <1>11, <1>12, <1>13, <1>14 DEF Next

(* The program that assemble_bpf makes (seccomp.rs:233-276) answers to     *)
(* every number as the profile does, whatever the sets of calls: the jump  *)
(* offsets of an accepted profile fit into their bits.                     *)
THEOREM FiltersExact == Spec => []FilterExact
<1>1. Init => FilterInv
  BY DEF Init, FilterInv, Accepted, NoChild
<1>2. ASSUME NEW m PROVE build_profile(m) \in SUBSET Nat /\ IsFiniteSet(build_profile(m))
  <2>1. build_profile(m) \in SUBSET (VMM_BASE \cup NETWORK_SYSCALLS \cup SHELL_SYSCALLS)
    BY DEF build_profile
  <2>2. IsFiniteSet(build_profile(m))
    BY <2>1, CallsAssumption, FS_Subset
  <2> QED  BY <2>1, <2>2, CallsAssumption
<1>3. FilterInv => FilterExact
  <2> SUFFICES ASSUME FilterInv, NEW s \in Slots, child[s].filter # <<>>, NEW nr
               PROVE  Verdict(child[s].filter, nr)
                        = IF nr \in build_profile(ManifestOf[child[s].of]) THEN "allow" ELSE "log"
    BY DEF FilterExact
  <2> DEFINE S == build_profile(ManifestOf[child[s].of])
  <2>1. child[s].filter = assemble_bpf(S) /\ ~TooManySyscalls(S)
    BY DEF FilterInv, Accepted, Filter
  <2>2. S \in SUBSET Nat /\ IsFiniteSet(S)
    BY <1>2
  <2> HIDE DEF S
  <2>3. Verdict(assemble_bpf(S), nr) = IF nr \in S THEN "allow" ELSE "log"
    BY <2>1, <2>2, FilterAnswers
  <2> QED  BY <2>1, <2>3 DEF S
<1> QED  BY <1>1, <1>3, FilterStep, TypesInvariant, PTL DEF Spec
=============================================================================
