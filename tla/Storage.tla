------------------------------ MODULE Storage ------------------------------
(***************************************************************************)
(* The disks from power-on to the first service: the init script of the    *)
(* initramfs (image/scripts/build-initramfs.sh), which chooses what lies   *)
(* under the root, and nulld's mounts (cmd/nulld/src/mount.rs).            *)
(*                                                                         *)
(* A partition is blank (nothing that mounts), foreign (ext4 of somebody   *)
(* else) or ours (ext4 with the sentinel .nullbox-data).  What is kept on  *)
(* it: the upper directory of the root and the directory vault.  That the  *)
(* kernel refuses a second, read-only mount of what is mounted read-write  *)
(* is part of the model, for mount_persistent takes it as "not ours".      *)
(***************************************************************************)
EXTENDS Naturals, Sequences

CONSTANTS
  Partitions,
  InitScan,        (* the order in which the init script tries partitions  *)
  Candidates,      (* those it may format                                  *)
  NulldScan,       (* devs of mount_persistent                             *)
  Ram,             (* a tmpfs                                              *)
  Nowhere,
  NoFiles          (* an empty upper directory                             *)

ASSUME ScanAssumption ==
  /\ InitScan \in Seq(Partitions) /\ NulldScan \in Seq(Partitions)
  /\ Candidates \subseteq Partitions
  /\ Ram \notin Partitions /\ Nowhere \notin Partitions \cup {Ram}

VARIABLES
  fs,              (* per partition: "blank", "foreign", "ours"            *)
  upper,           (* per partition and Ram: the files above the image     *)
  vaultdir,        (* per partition: the directory vault holds the secrets *)
  stage,           (* "off", "initramfs", "pivot", "nulld", "mounted",     *)
                   (* "ready", "up", "recovery"                            *)
  overlay,         (* what is mounted at /overlay                          *)
  root,            (* "overlay", "image": the root that was pivoted to     *)
  bound,           (* the partition of which /run/warden is a directory    *)
  secrets          (* the tmpfs at /run holds the secrets                  *)

disks       == <<fs, upper, vaultdir>>
mounts      == <<stage, overlay, root, bound, secrets>>
storageVars == <<disks, mounts>>

StorageTypeOK(Files) ==
  /\ fs \in [Partitions -> {"blank", "foreign", "ours"}]
  /\ upper \in [Partitions \cup {Ram} -> Files]
  /\ vaultdir \in [Partitions -> BOOLEAN]
  /\ stage \in {"off", "initramfs", "pivot", "nulld", "mounted", "ready", "up", "recovery"}
  /\ overlay \in Partitions \cup {Ram, Nowhere}
  /\ root \in {"overlay", "image"}
  /\ bound \in Partitions \cup {Nowhere}
  /\ secrets \in BOOLEAN

StorageInit ==
  /\ fs \in [Partitions -> {"blank", "foreign", "ours"}]
  /\ upper = [p \in Partitions \cup {Ram} |-> NoFiles]
  /\ vaultdir = [p \in Partitions |-> FALSE]
  /\ stage = "off" /\ overlay = Nowhere /\ root = "image" /\ bound = Nowhere
  /\ secrets = FALSE

(* The first of a scan that is in S, or Nowhere. *)
First(scan, S) ==
  IF \E i \in DOMAIN scan : scan[i] \in S
  THEN scan[CHOOSE i \in DOMAIN scan : /\ scan[i] \in S
                                       /\ \A j \in 1..i - 1 : scan[j] \notin S]
  ELSE Nowhere

(***************************************************************************)
(* The init script.                                                        *)
(***************************************************************************)
PowerOn ==
  /\ stage = "off" /\ stage' = "initramfs"
  /\ UNCHANGED <<disks, overlay, root, bound, secrets>>

(* The partitions with the sentinel. *)
Sentinels == {p \in Partitions : fs[p] = "ours"}

Overlaid(p) ==
  /\ stage = "initramfs" /\ stage' = "pivot"
  /\ overlay' = p
  /\ UNCHANGED <<root, bound, secrets>>

FindOverlay ==
  /\ First(InitScan, Sentinels) # Nowhere
  /\ Overlaid(First(InitScan, Sentinels))
  /\ UNCHANGED disks

Formatted(p) ==
  /\ fs' = [fs EXCEPT ![p] = "ours"]
  /\ upper' = [upper EXCEPT ![p] = NoFiles]
  /\ vaultdir' = [vaultdir EXCEPT ![p] = FALSE]

(* Mutant of FormatOverlay: without asking whether the partition mounts. *)
FormatAny(p) ==
  /\ First(InitScan, Sentinels) = Nowhere
  /\ p \in Candidates
  /\ Overlaid(p) /\ Formatted(p)

(* Any candidate, for mkfs may fail on those before it. *)
FormatOverlay(p) ==
  /\ First(InitScan, Sentinels) = Nowhere
  /\ p \in Candidates /\ fs[p] = "blank"
  /\ Overlaid(p) /\ Formatted(p)

(* mkfs ends, but the mount or the sentinel after it fails. *)
FormatHalf(p) ==
  /\ stage = "initramfs" /\ First(InitScan, Sentinels) = Nowhere
  /\ p \in Candidates /\ fs[p] = "blank"
  /\ fs' = [fs EXCEPT ![p] = "foreign"]
  /\ UNCHANGED <<upper, vaultdir, mounts>>

RamOverlay ==
  /\ First(InitScan, Sentinels) = Nowhere
  /\ Overlaid(Ram)
  /\ UNCHANGED disks

(* The overlay mount may fail: the root is then the image, read-only, and  *)
(* /overlay stays mounted.                                                 *)
Pivot ==
  /\ stage = "pivot" /\ stage' = "nulld"
  /\ root' \in {"overlay", "image"}
  /\ UNCHANGED <<disks, overlay, bound, secrets>>

(***************************************************************************)
(* nulld, phases 1 to 5.                                                   *)
(***************************************************************************)
(* mount_all: fresh tmpfs at /run, /var and /tmp, and the directories in   *)
(* them.                                                                   *)
mount_all ==
  /\ stage = "nulld" /\ stage' = "mounted"
  /\ secrets' = FALSE
  /\ UNCHANGED <<disks, overlay, root, bound>>

(* Mutant of mount_persistent: what is mounted at /overlay is bound. *)
mount_persistentOverlay ==
  /\ stage = "mounted" /\ stage' = "ready"
  /\ bound' = overlay
  /\ UNCHANGED <<disks, overlay, root, secrets>>

(* The first partition that mounts read-only and has the sentinel; whether *)
(* its directory could be bound, and whether it can be written, nobody     *)
(* asks.                                                                   *)
mount_persistent ==
  /\ stage = "mounted" /\ stage' = "ready"
  /\ bound' \in {First(NulldScan, Sentinels \ {overlay}), Nowhere}
  /\ UNCHANGED <<disks, overlay, root, secrets>>

StartServices ==
  /\ stage = "ready" /\ stage' = "up"
  /\ UNCHANGED <<disks, overlay, root, bound, secrets>>

(* A mount, the signal handlers, the configuration, the control socket or  *)
(* the dependency graph fails: recovery_hold, until power-off.             *)
BootFails ==
  /\ stage \in {"nulld", "ready"} /\ stage' = "recovery"
  /\ UNCHANGED <<disks, overlay, root, bound, secrets>>

StorageNext ==
  \/ PowerOn \/ FindOverlay \/ RamOverlay
  \/ (\E p \in Partitions : FormatOverlay(p) \/ FormatHalf(p))
  \/ Pivot \/ mount_all \/ mount_persistent \/ StartServices \/ BootFails

(* warden saves its file in /run/warden. *)
SaveSecrets ==
  /\ stage = "up"
  /\ IF bound = Nowhere
     THEN secrets' = TRUE /\ UNCHANGED vaultdir
     ELSE vaultdir' = [vaultdir EXCEPT ![bound] = TRUE] /\ UNCHANGED secrets
  /\ UNCHANGED <<fs, upper, stage, overlay, root, bound>>

PowerOff ==
  /\ stage # "off" /\ stage' = "off"
  /\ upper' = [upper EXCEPT ![Ram] = NoFiles]
  /\ secrets' = FALSE
  /\ overlay' = Nowhere /\ root' = "image" /\ bound' = Nowhere
  /\ UNCHANGED <<fs, vaultdir>>
=============================================================================
