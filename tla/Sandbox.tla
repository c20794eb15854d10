------------------------------ MODULE Sandbox ------------------------------
(***************************************************************************)
(* What confines the process of a VM, as functions of the manifest: the    *)
(* Landlock rules of pkg/cage/src/fs_sandbox.rs with the shares of vm.rs   *)
(* they follow, and the seccomp filter of seccomp.rs with what the kernel  *)
(* makes of it.                                                            *)
(*                                                                         *)
(* A manifest is a record [runtime, read, write, shell, network]: read and *)
(* write are sets of paths, network tells whether any domain is allowed.   *)
(* A path is the sequence of its components from the root of the host; the *)
(* agent's name is "agent".  System calls are numbers.                     *)
(***************************************************************************)
EXTENDS Naturals, FiniteSets, Sequences

CONSTANTS
  Resolve(_),      (* where a path leads, "..", "." and links followed     *)
  VMM_BASE, NETWORK_SYSCALLS, SHELL_SYSCALLS,   (* sets of numbers         *)
  MaxJump          (* the greatest jump offset of an instruction           *)

ASSUME CallsAssumption ==
  /\ MaxJump \in Nat
  /\ VMM_BASE \cup NETWORK_SYSCALLS \cup SHELL_SYSCALLS \subseteq Nat
  /\ IsFiniteSet(VMM_BASE \cup NETWORK_SYSCALLS \cup SHELL_SYSCALLS)

(***************************************************************************)
(* Landlock.  The thirteen rights of ABI 1 in five groups: "list" is the   *)
(* reading of directories, "change" the creation and removal of entries.   *)
(***************************************************************************)
ACCESS_READ       == {"read", "list"}
ACCESS_READ_EXEC  == ACCESS_READ \cup {"exec"}
ACCESS_READ_WRITE == ACCESS_READ \cup {"write", "change"}
OfDirectories     == {"list", "change"}

(* The directory that is shared under the declared p, and the rootfs.      *)
Share(p) == Resolve(<<"var", "lib", "cage", "agent">> \o p)
Rootfs   == Resolve(<<"system", "rootfs", "agent">>)

(* build_virtiofs_mounts: the tag keeps how the path was declared. *)
virtiofs_mounts(m) ==
  {[suffix |-> "_ro", path |-> p] : p \in m.read} \cup
  {[suffix |-> "_rw", path |-> p] : p \in m.write}

Rule(path, access) == [path |-> path, access |-> access]

(* What every VM process may use of the host, whatever the manifest says;  *)
(* a declared path gets its rights as a path of the host, too.             *)
kvm          == <<"dev", "kvm">>
Devices      == {<<"dev", d>> : d \in {"null", "zero", "urandom"}}
ReadableDirs == {<<"usr", "lib">>, <<"lib64">>, <<"proc">>, <<"sys">>}
WritableDirs == {<<"var", "log", "cage">>, <<"tmp">>, <<"run">>}

FixedRules ==
  {Rule(Rootfs, ACCESS_READ_EXEC), Rule(Resolve(kvm), {"read", "write"})}
  \cup {Rule(Resolve(d), {"read"}) : d \in Devices}
  \cup {Rule(Resolve(d), ACCESS_READ) : d \in ReadableDirs}
  \cup {Rule(Resolve(d), ACCESS_READ_WRITE) : d \in WritableDirs}

DeclaredRules(m) ==
  {Rule(Resolve(p), ACCESS_READ) : p \in m.read} \cup
  {Rule(Resolve(p), ACCESS_READ_WRITE) : p \in m.write}

(* Mutant of build_sandbox: the suffix is not looked at. *)
build_sandboxReading(m) ==
  FixedRules \cup DeclaredRules(m)
  \cup {Rule(Share(v.path), ACCESS_READ) : v \in virtiofs_mounts(m)}

build_sandbox(m) ==
  FixedRules \cup DeclaredRules(m)
  \cup {Rule(Share(v.path), IF v.suffix = "_rw" THEN ACCESS_READ_WRITE ELSE ACCESS_READ) :
          v \in virtiofs_mounts(m)}

(* What apply enforces: rules for what exists.  The kernel refuses a rule  *)
(* that gives a right of directories on a file, and takes a rule for the   *)
(* whole tree below its path.                                              *)
Enforced(rules, existing) == {r \in rules : r.path \in existing}

Refused(rules, files) ==
  \E r \in rules : r.path \in files /\ r.access \cap OfDirectories # {}

(* A path and the directories above it. *)
Above(path) == {SubSeq(path, 1, n) : n \in 0..Len(path)}

Granted(rules, path) == UNION {r.access : r \in {q \in rules : q.path \in Above(path)}}

(***************************************************************************)
(* Seccomp.                                                                *)
(***************************************************************************)
build_profile(m) ==
  VMM_BASE \cup (IF m.shell THEN SHELL_SYSCALLS ELSE {})
           \cup (IF m.network THEN NETWORK_SYSCALLS ELSE {})

(* Mutant of TooManySyscalls: off by one. *)
TooManyByOne(profile) == Cardinality(profile) > MaxJump + 1

TooManySyscalls(profile) == Cardinality(profile) > MaxJump

(* The elements of a set of numbers from the least to the greatest: the    *)
(* order of a BTreeSet.                                                    *)
Ascending(S) ==
  CHOOSE s \in [1..Cardinality(S) -> S] : \A i, j \in DOMAIN s : i < j => s[i] < s[j]

(* The program after the load of the number: a test for each call in       *)
(* ascending order, the default action of the audit mode, and the end the  *)
(* tests jump to.  Offsets are kept in eight bits.                         *)
assemble_bpf(profile) ==
  LET syscalls == Ascending(profile)
      count    == Len(syscalls)
  IN [i \in 1..count |-> [op |-> "jeq", k |-> syscalls[i],
                          jt |-> (count - i + 1) % (MaxJump + 1)]]
     \o <<[op |-> "log"], [op |-> "allow"]>>

(* What the kernel answers to a call. *)
Verdict(prog, nr) ==
  LET from[i \in 1..Len(prog)] ==
        IF prog[i].op # "jeq" THEN prog[i].op
        ELSE from[i + 1 + (IF prog[i].k = nr THEN prog[i].jt ELSE 0)]
  IN from[1]
=============================================================================
