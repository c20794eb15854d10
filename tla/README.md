# Verification of nullbox

nullbox is a small operating system for AI agents: an init process (nulld) starts
a handful of services, and one of them (cage) runs every agent in a microVM of its
own. This directory holds TLA+ models of the parts that carry the system's own
logic, the TLC configurations that check them, and proofs for TLAPS. Paths below
are relative to the repository; `supervisor.rs` and the like are short for the
files of the section they appear in.

    tlc -config MCCage.cfg MCCage.tla      # model-check one configuration
    tlapm CageProofs.tla                   # check one module of proofs

1. [The system](#1-the-system): inventory of components, state, interactions
2. [Modules](#2-modules): which module models what, and how it corresponds to the code
3. [Runs](#3-runs): what is checked, on which instances, what it shows
4. [Fairness](#4-fairness)
5. [Proofs](#5-proofs)
6. [Where the code and its documentation disagree](#6-where-the-code-and-its-documentation-disagree)
7. [What is left out](#7-what-is-left-out)
8. [Plan](#8-plan)

## 1. The system

| component | code | state | operations |
|---|---|---|---|
| nulld: dependency resolution | `cmd/nulld/src/service.rs` | none (a function) | `resolve_start_order`, `resolve_stop_order` |
| nulld: supervisor | `cmd/nulld/src/supervisor.rs`, `main.rs` | per service: definition, pid, state, restart count, time of the last start and of the next restart; the start order | `start_all`, `handle_child_exit`, `process_restarts`, `stop_all`, main loop |
| nulld: signals | `signal.rs` | the flag `SHUTDOWN_REQUESTED` | signal handlers, `reap_children` |
| nulld: control socket | `control.rs` | none | `status`, `shutdown` |
| nulld: configuration | `config.rs` | none | parse services |
| mounts and boot scripts | `image/scripts/build-initramfs.sh`, `mount.rs` | the partitions; what is mounted where | the init script finds or formats a data partition and pivots; nulld mounts tmpfs and binds the vault's directory |
| warden: vault | `pkg/warden/src/vault.rs`, `main.rs` | map of secrets, salt, key; the vault file | `load`, `save`; requests get, list, set, delete |
| warden: keys | `master_key.rs`, `crypto.rs` | none | resolve the key, seal, open |
| cage: VM manager | `pkg/cage/src/vm.rs` | agent -> pid, time of the last health check, failures in a row | `start_agent`, `stop_agent`, `handle_exit`, `health_check_sweep` |
| cage: daemon | `pkg/cage/src/main.rs` | manifests by agent | auto-start, reaping with restarts, start, stop, deploy, list; notes to egress, warden, sentinel and watcher |
| cage: deployment, manifest | `deploy.rs`, `manifest.rs` | files below `/agent`, the manifest in memory | unpack a bundle; parse and validate |
| cage: confinement | `seccomp.rs`, `fs_sandbox.rs`, `krun.rs` | per VM process: how far it is, what is in force | read the configuration, set libkrun up, apply Landlock rules and a seccomp filter, enter the VM |
| egress | `pkg/egress/src/` | agent -> addresses; the rules in the kernel | add-agent, remove-agent, list; resolve, generate and load rules |
| ctxgraph | `pkg/ctxgraph/src/` | a table of entries in SQLite | write, read, query, history, each in a thread, over one mutex |
| test-agent | `pkg/test-agent` | none | writes to ctxgraph, again if there is no answer |
| nullweb, nullctl, test-harness | `pkg/nullweb`, `cmd/nullctl`, ... | none | clients: one request, one answer |

How they interact:

- nulld forks the services in dependency order and restarts them; services know
  nothing of each other's restarts. As PID 1 it also inherits the VM processes of
  a cage that has died.
- cage asks warden for the secrets of an agent, and notifies egress when an agent
  starts or stops. Each is one connection to a Unix socket with time limits; an
  answer that fails or is late is logged and not asked for again.
- egress makes one ruleset from all registered agents and loads it with `nft`.
- agents reach ctxgraph over TCP, operators reach all of them through nullctl and nullweb.
- the init script hands a root, and `/overlay` still mounted, to nulld, which looks for a
  partition of its own; where it finds none, what services store is in tmpfs.
- cage runs itself again for each VM and gives it its configuration, with a copy of the manifest, through a pipe.

What is hard here: pids that are reused between the moment a process is reaped and
the moment its exit is handled; exits that arrive after a restart of the same
service or agent; exit, restart and shutdown meeting in one loop; backoffs kept by a clock
that moves between two looks at it; a file replaced step by step by a daemon that may
die at each of them; two daemons that each keep their half of one truth (which
agents run, who may reach what) and lose it independently; messages whose
loss nobody notices; threads that meet at one mutex with the clock read before or after it; files of an agent
replaced one by one. `PROJECT.json` lists these hazards with the line where each bites.

What makes each component correct:

- *Resolution*: every accepted graph gets an order that respects it, every other
  graph is refused for the right reason, and the loop ends.
- *Supervisor*: one process per service; only own, unreaped children are signalled;
  exits are judged by the status of the right process; backoffs are kept; the
  shutdown runs in reverse order, to the end, and leaves nothing behind.
- *Vault*: the file can be opened whatever step of the daemon was the last one; answers are kept.
- *cage and egress*: no agent has two VMs that count; the process that is signalled is
  the agent's; once nothing is under way, the firewall lets through what running
  agents need and nothing else.
- *ctxgraph*: to its clients it is one memory; a repeated write changes nothing, and a hash names one row, whose
  content is the one written unless an agent id has a NUL.
- *Boot*: no boot takes anything from a partition that has a file system; what is promised to survive a reboot is on a partition.
- *Deployment*: once a deployment is answered, the manifest in memory and every file that the bundle brings
  are the bundle's, whatever was there before. They need not be of one origin all the same: the bundle may bring no program, or an
  AGENT.toml further down, which is saved but not the one in memory.
- *Confinement*: a VM that has its manifest is entered under the filter and the rules of that manifest, and can then write
  what it declares and nothing else; no VM process waits for ever for its configuration.

## 2. Modules

| module | models | kind |
|---|---|---|
| `ServiceGraph` | vocabulary of dependency graphs | definitions |
| `StartOrderSpec` | what `resolve_start_order` promises | abstract specification |
| `StartOrder` | the function, one action per loop iteration | refines `StartOrderSpec` |
| `StartOrderProofs` | its safety and the refinement, proved | proofs |
| `Supervisor` | nulld's loop and bookkeeping, process table, clock | state machine |
| `SupervisorProofs` | its safety properties, proved | proofs |
| `SecretStore` | what warden promises its clients | abstract specification |
| `Vault` | warden, every step of a save | refines `SecretStore` |
| `VaultProofs` | safety and the refinement, proved | proofs |
| `Egress` | the firewall daemon and its queue | state machine |
| `Cage` | cage, the VM processes, composed with `Egress` | state machine |
| `CageProofs` | cage's map against the process table, proved | proofs |
| `ReachProofs` | the firewall follows cage, proved | proofs |
| `SharedMemory` | what ctxgraph promises the agents | abstract specification |
| `CtxGraph` | ctxgraph: threads, mutex, statements, patterns, hashes | refines `SharedMemory` |
| `CtxGraphProofs` | its safety and the content address, proved | proofs |
| `MemoryProofs` | what a LIKE pattern matches, and the refinement, proved | proofs |
| `Storage` | the disks from power-on to the first service | actions, used by `Device` |
| `Deployment` | the files of an agent and the manifest in memory | actions, used by `Device` |
| `Sandbox` | rules and filter as functions of the manifest | operators |
| `Device` | an agent from boot to its VM, composing these three | state machine |
| `DeviceProofs` | its safety properties, and what the filter answers, proved | proofs |

`MC*.tla` instantiate a module for TLC. Definitions named *Mutant of ...* in a comment are plausible
mistakes in the code, one for each property; nothing uses them, and a property is
only kept when swapping in its mutant breaks it.

**StartOrder.** `depends_on` is the input, `in_degree`, `queue`, `order` are the
local variables of `resolve_start_order`; `releasing` holds the entries of
`dependents[name]` the inner loop has not visited. The iteration order of a
`HashMap` is not defined, so the first queue is any arrangement of the services
without dependencies. Lists may repeat a name, name the service itself or name nobody.

**Supervisor.** `pid`, `state`, `restart_count`, `age` (since `last_start`) and
`due` (until `next_restart`) are the fields of `ManagedService`. `pc` is the
statement of the main loop: `check` the flag, `reap`, `handle` the exits,
`restart` what is due, poll; then `stop` and `wait`. The kernel is part of the model: `life`,
`owner` and `why` are the process table, in which a pid is free again as soon as `waitpid` has
returned it, so a new process may get it *before* `handle_child_exit` looks at
the batch in `reaped`. Orphans are adopted with any free pid. `handle_child_exit` is `HandleServiceExit`
(with `ScheduleRestart` or `GiveUp`) or `HandleOrphanExit`; `process_restarts` is
`CollectDue` and then one `Restart` per name collected, in any order, because the code collects names
first; `stop_all` is `StopSkip`, `StopTerm`, then `StopReaped` or, past the deadline, `StopKill`, which
does not wait for the process it kills. A tick may come between any two steps.
`lastExit` is history: how the last process of a service really ended.

**Vault.** `secrets`, `salt`, `master_key` are the fields of `Vault`. A handler
changes the map (`Begin`), then `save` goes through seal, open (which truncates the temporary
file: `Torn`), write, rename, answer; `SaveFails` may end it at each point and
`Crash` at any. A file can be opened when the salt in it leads, through
`KeyFor`, to the key it was sealed with; `KeyFor` is constant when the key comes
from the environment or the key file and injective for a passphrase. `platter`
is what the end of the machine leaves: nothing without a nullbox-data partition;
with one, what the kernel has written back by then (`WriteBack`), as neither
warden nor nulld ever syncs: the file of an earlier save, or, before the first save is on the disk, one cut short. `promised` is history: the values a client may still be served, given the answers so far.

**Egress.** `agents` is the map from agents to resolved addresses, `inbox` the
requests waiting on the socket (the daemon serves one connection at a time).
A ruleset is abstracted to the set of addresses it lets through, after the drop
rules. `stale` is history: the last change did not reach the kernel, because the
rules file could not be written (an error to the caller) or because `nft` failed
(answered as success). A crash loses map and queue; the kernel keeps its rules.

**Cage.** cage is one thread; what a handler still has to do is in `todo`, and
each entry is a step. So `reap_children` (`Reap`, `EndReap`) takes a zombie,
forgets its VM and leaves *remove*, and after a crash *restart*, in `todo`; no
other zombie is taken and no command accepted before they are done. `Sweep` and `StopUnhealthy` are the
health checks, whose outcome is free. `Launch` and `LaunchFails` are `start_agent`,
`StopAgent` is `stop_agent`, which forgets the VM and does not wait for it. `Notify` puts a
request into `inbox`: cage waits for the answer at most two seconds and only logs it, so for its state
the answer does not exist. `CageCrash` loses map, manifests and `todo`; VMs go on
as children of PID 1 (`child` is FALSE), where nulld reaps them. `missed` and
`abandoned` are history: agents about whose last change egress was not told, or
has forgotten, and agents that a failed health restart left without a VM. They
say exactly for whom the firewall cannot be expected to be right.

**CtxGraph.** `table` is the table `entries` in the order of insertion, `holder` the thread
that has the mutex around the store, `stage`, `request`, `answer` and `stamp` are each
thread's. A handler takes the lock (`Lock`), then runs one statement (`Read`, `Query`, `History`), or reads the clock
(`Stamp`) and inserts (`Insert`, which ignores a hash that is there); each may fail (`Fails`). `HandleInvalid` and
`Hangup` are the requests that never reach the store. `Crash` ends the daemon and
leaves the table, which is a file in the tmpfs at `/var`; `Reboot` ends the machine and with it the table. The client
is test-agent, which sends a write that got no answer once more. Agent ids, keys and prefixes are sequences of
characters, NUL among them, since `compute_hash` joins them (with NUL between the parts) and `Like` takes them apart after
`Pattern` has escaped `%` and `_`: its recursion goes over the positions of the pattern, each with the set of places of the string
from which the rest of the pattern matches. `Text` is what SQLite's LIKE sees of a string, up to its first NUL. `SharedMemory` has none of that: a set of
contents with times, and calls that take effect at one moment between request and answer. Two contents of one `Name` are one to
it, as two writes of one hash are to the store; `Meanings` are the sets of contents a lookup may be taken for: one set, the
keys that begin with the prefix in letters of either case, except for prefixes with a backslash or a NUL.

**Storage.** A partition is *blank* (does not mount), *foreign* or *ours* (it has the
sentinel). The init script takes the first that is ours (`FindOverlay`), else formats a blank
candidate (`FormatOverlay`; `FormatHalf` when the mount or the sentinel after `mkfs` fails), else uses a
tmpfs (`RamOverlay`), and pivots to the overlay or, if that mount fails, to the bare image. `mount_all` and
`mount_persistent` are nulld's; the latter cannot mount read-only what is mounted
read-write, and may fail to bind what it has found, which it does not look at. `upper` are the files above the image, `vaultdir` says that secrets are on the partition, `secrets` that they are in the tmpfs.

**Deployment.** A bundle is its entries in the order of the archive, each with the file it goes to (an `AGENT.toml` at any
depth is the manifest), whether its path has two components, and its content. `Deploy` (or `DeployRefused`) is
the first pass, which takes the manifest for memory from paths of two components only (`ManifestIn`). Then come, per entry,
`UnpackSkips` if it is empty, else `UnpackWrite` twice (`fs::write` truncates, then writes), and at the end `UnpackEnds` and the start of the agent, which
`last` records as the answer. Nothing asks for a program.
`UnpackFails` may come at any point. `CageStart` is `load_manifests` with auto-start; a manifest cut short may be one
still (`Readings`, for the contents in `Prefixes`). `deployed` is history: the last bundle this daemon unpacked to its end.

**Sandbox.** Paths are sequences of components. `build_sandbox` with `virtiofs_mounts`; what `apply` enforces of it on the
paths that exist, and what the kernel refuses (rights of directories on a file); `Granted`, by which a rule holds for all that is
below its path, so that rules add up where declared paths nest; `Resolve` follows links. `build_profile`, `assemble_bpf` with
offsets modulo `MaxJump + 1`, and `Verdict`, which runs the program as the kernel does.

**Device.** `Launch` is `start_agent`: it spawns a VM process (`child`), whose pipe cage
then fills and closes (`WriteConfig`). The process goes its own way: `ReadConfig`, `Setup` (libkrun), `ApplyLandlock`, `ApplySeccomp`,
`Enter`, each of which may end it; `CAGE_NO_SANDBOX` and a kernel without Landlock are in `kernel`. A manifest that does not
travel with the configuration or is not read back at its end (all that is not in `Conveyed`) leaves the VM without rules
and filter: `Setup` then goes on to `Enter`. `FileSystems` are the hosts a process may find, with declared paths that are files
and shares that could not be made. A cage
that ends (`CageCrash`) cuts the pipe of a process that is still reading. Which processes the daemon knows of is `Cage`'s
subject; here only `tracked`, the one in its table. `Off` is the end of the machine, at any moment.

## 3. Runs

| run | configuration | shows |
|---|---|---|
| `start_order` | all graphs over 3 services, lists of up to 2 entries out of 4 names | the sort is right, ends, and implements its promise |
| `supervisor` | 2 services, one needing the other, policies *always* and *on-failure*, 3 pids, 1 orphan, 2 restarts each | safety of nulld |
| `supervisor_live` | the same services, 2 pids, 1 orphan | liveness of nulld |
| `vault` | 2 keys, 2 values, 2 salts, a passphrase, a data partition | safety, refinement and liveness of warden |
| `cage` | 2 agents with a shared address, 2 pids, 1 health check, 2 requests under way | safety of cage with egress |
| `ctxgraph` | 2 connections, 3 contents, 3 prefixes, a clock of 2 seconds | safety, refinement and liveness of ctxgraph |
| `device` | 2 partitions of any content, 3 bundles, 3 host file systems, 1 VM process, filters of 3 and 4 calls | safety of boot, deployment and confinement; liveness of a VM process |
| five more | the same or smaller | one disagreement each, section 6 |

Why the bounds are enough:

- *StartOrder*: three services are the smallest set with a cycle longer than two,
  a diamond's sharing and a chain; two entries allow the same name twice, and `ghost` is a name of no service.
- *Supervisor*: two services give one edge of the graph, so an order to violate; three pids are one more than
  services, so a pid can be reused by the wrong process; two restarts and a cap of 3 ticks reach
  every branch of the backoff (first, doubled, capped), `Stable = 3` the reset of the count. A
  service whose count has reached `MaxRestarts` no longer exits by itself; that
  is a bound of the model, like `MaxOrphans`.
- *Vault*: one key for the request and one that must be left alone; two values tell old from
  new; two salts tell the right key from a wrong one.
- *Cage*: two agents that share an address, so that the removal of one can harm the other; one of them has an
  address of its own, the other a name that resolves to a blocked address. Two pids are
  enough for a stopped VM to live on next to its successor, and for its pid to go to the other agent. `MaxInbox = 2` lets
  a removal and an addition wait together. `MaxFailures = 1` is the smallest
  limit; the proofs cover every other.
- *CtxGraph*: two threads are what a mutex is about. Of the three contents two differ in the agent only, and two
  have one hash, a NUL in an agent id moving the boundary between agent and key. One key is `_`; as a prefix that must not match
  every other key. Another key ends for LIKE in the middle, and begins with the letter that one prefix has in the other case. A
  third prefix is a backslash. Two seconds give equal and unequal timestamps.
- *Device*: two partitions give the scans an order, and only the second is one the
  script may format. One bundle has manifest and program; one has no program but an empty entry of its name, and a second manifest
  further down, the one that is a manifest also when it is cut short; one has no manifest. The
  first two make a mixture. VM processes share no
  state, so one shows what each of them does. `MaxJump = 3` stands for 255 (the tables of the code have 111 calls in all, so that no
  manifest can come near the limit at present): one profile has exactly
  3 calls, the last one accepted, the other 4. A manifest reads below what it writes. On one host a share is missing, on another
  a declared path is a file, `/run` is a link, and one manifest does not reach its process.
- Pids are interchangeable: they are only compared for equality. The runs with
  symmetry check safety only.

The properties:

- `DegreesExact` is the loop invariant of Kahn's sort: a service is queued or ordered exactly when no entry
  of its list holds it back, also with repeated entries. `AnswerSound`: *missing* exactly for a graph in which a service needs what is none, *cycle* only for
  a graph with one, *ok* with a complete order.
- `OneProcess`, `SignalsOwnChild`, `CleanShutdown`, `StopOrder`, `ExitJudged`: as in
  section 1; each relates nulld's bookkeeping to the process table. `RestartsSpaced` is an action property: a restart
  never comes before the backoff that the service's count asks for. It is stated with `calculate_backoff` as modelled, so it says
  that backoffs are kept, not that the formula is the intended one.
- `ShutdownCompletes`, `RestartHappens`, `ZombiesReaped`: see section 4.
- `PromisesKept`: what warden serves, now and after a crash, agrees with its answers.
  `Reopens`: the file is whole and its salt leads to its key. `ImplementsStore`: the
  refinement. `ServesAgain`: no crash keeps warden from loading its vault. Both except one case: the machine
  ends before the first save is on the disk, and leaves a file cut short, which warden cannot open and does not replace.
- `TracksOwnVm`: the pid in cage's map is an unreaped child, for that agent, not told to stop. `NoStrayVm`:
  a VM that runs and was not told to stop is in the map.
- `ReachKept`, `ReachRevoked`: once nothing is under way, the addresses found
  for a running agent are open, and every open address is justified.

- `RowsInTimeOrder`: the clock is read under the lock, so that `ORDER BY timestamp` is the order of the
  writes. `AnswerNamesContent`: the hash answered to a write is that of one row, with the value that was written and the same names
  laid end to end; it is the content that was written unless a NUL in an agent id has moved the boundary between the names.
  `FirstWriteStands`: repeating a write, also after a crash, changes no row. `ImplementsMemory`: the
  refinement; it covers every answer of reads, queries and histories. `LockReleased`: the error paths give the mutex back.
- `PartitionsKept`: as in section 1. `DeploymentWhole`: between commands memory has the manifest of the bundle unpacked last,
  whatever has failed since, and unless the last deployment failed half way every file that this bundle brings is its own. What a
  failed deployment leaves on the disk is a mixture, which a restart loads; no property speaks of it. `Confined`: the rules in
  force are those of the manifest, and of everything on the host the process can write what lies below a declared path (or
  below `/run`, `/tmp`, `/var/log/cage`, `/dev/kvm`) and nothing else; a share that is only to be read is writable if it lies below one that is
  to be written. Excused are `CAGE_NO_SANDBOX`, a kernel without Landlock and a manifest that did not arrive. `FilterExact`: the installed program allows
  exactly the calls of the profile and reports the others. `ChildSettles`: a spawned process enters its VM or ends, also when cage dies.

A `TypeOK` is kept per module. In `Cage` it is not only about types: that `failures` stays within
`0..MaxFailures` depends on the unhealthy being stopped before the next sweep.

Deadlock is checked for `Vault`, `Cage`, `CtxGraph` and `Device`, which never stop. `StartOrder` ends
with its answer, and nulld ends with the machine or sleeps in the recovery hold, so their runs switch it off.

## 4. Fairness

- `StartOrder`: weak fairness of `Next`. The function waits for nothing.
- `Supervisor`: weak fairness of nulld's thread, as none of its steps blocks for
  longer than its own sleeps and the socket time limits, and of the clock. Nothing is
  assumed of the services: they may run for ever and ignore SIGTERM.
- `Vault`: weak fairness of `Start` alone: nulld restarts warden. No step of a save is promised.
- `Cage`: weak fairness of the daemon as a whole and of egress. Two strong assumptions hold because
  of code: a connection ends after 64 KiB (`main.rs`, `take(65536)`), so
  `EndAccept` is not postponed for ever by further commands; `waitpid(-1)` walks
  the children from the oldest on, so no zombie is passed over for ever. They are
  used by the run `commands_starved` only, whose counterexample is thereby not an
  unfair schedule.
- `CtxGraph`: weak fairness of the thread that has the mutex. Nothing in a handler
  waits once it has the lock. Connections need not be served at all.
- `Device`: weak fairness of a VM process, which waits for nothing but its pipe, and of cage between the spawn and the end of its write. The
  daemon may die in between; then the pipe is closed for it.

## 5. Proofs

All theorems hold for every value of the constants under the named assumptions of the modules: the
graph nulld runs with is accepted (`GraphAccepted`), the services to sort are finitely many and named (`ServicesAreNamed`), special values are no pids (`ProcessIds`,
`VmMarkers`, `Markers`), the durations are positive and the cap of the backoff is at most the
300 s of a stable run (`Durations`; 30 s in the code), every salt has a key (`KeySource`), names of agents
and keys are not empty (`NamesAssumption`; they may have any characters), NUL is neither a letter nor special in a pattern
(`CharsAssumption`), the scans try partitions (`ScanAssumption`), the entries of a bundle are well-formed
(`BundlesAssumption`; which of them it has is left open), on a host what lies above an existing path exists (`FileSystemsAssumption`), the sets of system
calls are finite (`CallsAssumption`). The remaining ones (`MarkerAssumption` among them) say that special values differ from ordinary ones.

**SupervisorProofs.** `TypeCorrect`, then six properties from one inductive
invariant `Inv`. None of the properties is inductive: `OneProcess`
depends on a service in *waitingrestart* having no process, which depends on its
exit having been reaped, while the batch in `reaped` still names its pid and the
kernel may already have given that pid away. `Inv` says that in both directions: `PidInv`,
from a pid nulld holds to a process or to an entry of the batch; `OwnerInv`, from a process to the service
that holds its pid, or to the phase of `stop_all` that has let go of it. `ReasonInv` says that the *first* entry of the batch
with a service's pid carries that service's own exit. `PhaseInv` says which services `start_all`,
`process_restarts` and `stop_all` have not touched or have finished with;
`StopOrder` then follows from the order of `start_order`. `SpacingInv` splits a backoff into what has
passed (`age`) and what is left (`due`).

**StartOrderProofs.** `Inv` joins `DegreesExact` and `OrderRespectsNeeds` with the types and `PhaseInv`: nothing is queued before
the graph is validated; after that every dependency is a service; an entry that awaits its visit names
a service already in the order. Taking a service from the queue moves its entries from outstanding to awaiting; a visit takes one
entry away and one from the count, so a count of 0 means that nothing is outstanding (`CountInv`, `PopInv`, `ReleaseInv`). When
the queue runs dry, each service that is left waits for another one of them: they are the cycle; that *missing* is the
answer for no other graph than one with a dependency that is no service, and for all of these, follows from `PhaseInv`, by which none of these
gets past the validation (`AnswersAreSound`).
`PromiseKept` maps the last step to *accept* or *reject*, every other one to a stutter.

**VaultProofs.** `Inv` adds to the two properties `SaveInv`, what each point of a save relies on (before
the rename the temporary file is the sealed map, before the answer the vault file is), and
`PlatterInv`, that a vault file on the disk has the key of its salt. `StoreImplemented` is the refinement:
every step of warden is a step of `SecretStore` or a stutter; a rename is `Persist`. `TypesHold` is the type invariant by itself.

**CageProofs.** `TracksOwnVm` and `NoStrayVm` are inductive together with the types, except that the
count of failures must stay within its limit: `FailuresInv` says that a VM at the
limit has its stop waiting in `todo`, and that nothing waits when the next sweep begins. The
proof is one lemma per group of actions; `StopKeeps` carries both callers of `stop_agent`.

**ReachProofs.** The firewall may be behind cage for as long as requests are under way, so the invariant speaks of what egress
*will* have registered (`WillRegister`): the last word about an agent in the queue decides, and with no word
left the map does. `KeptInv` says that this holds for every VM in cage's map that is not excused, or that its note is the next
thing cage does; `RevokedInv` is the converse; `TodoInv` says that a note is the next thing to do whenever there is one, and agrees with the map.
Serving a request changes nothing in `WillRegister` (`TailWords`), sending one changes it for one agent (`AppendWords`); a crash of either
daemon is what `missed` and `abandoned` record. `RulesInv` ties the kernel to the map of egress.

**CtxGraphProofs.** First what two equal hashes mean. A value has no NUL, so the last one of the join is where the value begins: two joins are equal
exactly if values and `Names`, agent and key with the NUL between them, are (`SameAddress`, for any names). Where
agent ids have no NUL the first one of the join is in the same place too, so that agent and key agree (`AddressesDiffer`);
`FourParts` and `HashParts` are the steps. `RowsInTimeOrder` is inductive with
`Ordered`, which adds that a timestamp in the hands of a thread is not in the future, that no row is later than it, and that its
thread has the mutex; the clock read before the lock would break the last of these. `AnswerNamesContent` needs `Addressed`:
a row's hash is that of its content and no other row's, and an answered hash is in the table; the two theorems do the rest.
`FirstWritesStand` is proved from it too: every step but an insertion leaves the table alone.

**DeviceProofs.** `TypeInv` is the types with `UpInv` (cage runs only on a booted system, which has something at
`/overlay`) and `HandInv` (a deployment in hand has a bundle, a start a manifest). `PartitionsStayKept` is an action
property proved from it, action by action, for any partitions and scans; `FirstType` says that a scan finds a
partition or nothing. `DeploymentWhole` is inductive with `UnpackInv`: an entry that is done is in its file, or a later
entry of the same name is still to come, so that at the end the last of each name is in its file; it holds for any entries in any order. `Confined`
follows from `ConfinedInv`, what is in force at each phase of a VM process, and two lemmas about rules, for any
manifest and host: `WritableDeclared` (a path is writable exactly if it lies below one that is declared so, from
`WritingRules`, the same for the rules themselves) and `SharesReadable`. It does not depend
on what a filter is, only on its being that of the manifest. `FiltersExact` is about what it is. `FilterInv` says that
an installed filter is the assembled one of a profile that `assemble_bpf` did not refuse (`Accepted`), so its offsets
are below the width and survive the modulus. `Ascending` is an enumeration of the profile without repetition
(`AscendingExists` takes the calls by their rank, `AscendingAll`). `Verdict` is a recursive function over the program;
`VerdictOfTests` states its solution, *allow* from any test at or before the one that names the call and *log* after
it, and shows it the only one: a last position at which another solution differed would be followed only by positions
at which they agree. `FilterAnswers` joins the two.

**MemoryProofs.** First what a pattern matches. `FlattenSeq`, which joins the pieces of a pattern, and `Like` are
functions defined by themselves, which say something only once a solution exists. `SetInduction` is induction over a
set of numbers (from a least counterexample); with it `Flattening` and `LikeRecursion` build the solutions a position
at a time. `PatternParts` says where in the pattern each character of the prefix begins, and
`PatternMeansFoldedPrefix` is then an induction from the last character to the first: the pattern matches the strings
that begin with the prefix but for case, if it has no backslash. LIKE reads a text to its first NUL only (`TextParts`); as the prefix has
none, that changes nothing, whatever the key has (`QueryMeansPrefix`). `MemoryImplemented` is the refinement of
`SharedMemory`. It rests on the invariant `Memorable`: the types, `Ordered` (so that an insertion has the latest
time), `Addressed` (so that the rows and the set of entries correspond one to one, and a hash names the content
answered in the abstract memory) and `Waiting` (an answer is there only between the handler and its delivery). Each
operation is then mapped: `Lock`, `Stamp` and `Start` are invisible, `Insert` is `Write` (`Writing`), the three
statements are `Lookup` (`Listing`: rows in one of the orders the statement allows are entries in one the memory
allows), errors are `Refuse`, ends of threads and deliveries are `Return`. It has no hypothesis about names or
prefixes: what the memory promises is weaker where the code does less (contents of one hash are one, letters of either case are the
same), and for a prefix with a backslash or a NUL it is only that the rows of some set of contents are answered, each once and newest first.

Model-checked only: liveness (`Answers`, `ShutdownCompletes`, `RestartHappens`, `ZombiesReaped`, `ServesAgain`,
`LockReleased`, `ChildSettles`), which is out of the prover's reach. Every other property of the passing runs is the
statement of a theorem.

## 6. Where the code and its documentation disagree

Each of these runs ends in a counterexample; `PROJECT.json` quotes the lines.

- `restart_policy_always` (`AlwaysMeansAlways`): a service whose respawn fails once is in state *failed*, out of which nothing leads, whatever its policy.
- `firewall_exact` (`FirewallTracksAgents`): a health restart stops the VM without telling egress and gives up when
  the launch fails; the addresses stay open for an agent that does not run.
- `crash_restart` (`CrashRestarts`): a VM ended by a signal is never restarted; only exit codes are.
- `commands_starved` (`CommandsHeard`): crashed agents are restarted inside the reaping loop, which a
  VM that crashes at once keeps going for ever; no command is accepted meanwhile.
- `boot_persistence` (`SecretsPersist`): with one data partition the init script has mounted it, nulld's read-only mount of
  it is refused as busy, and the vault goes to the tmpfs at `/run`. With two of them nulld binds the other.

Seen while modelling, and not the subject of a run:

- A delete whose save fails has already changed warden's map; tried again it is answered *not found* and
  nothing is saved, while the file still has the secret. The promise in `SecretStore` allows for it.
- Nothing is synced before nulld's reboot; `Vault` lets the disk be behind at the end of the machine.
- No bundle can bring what a python agent executes: `vm.rs` looks for `/system/python/bin/python3` below the
  agent's own rootfs (`vm.rs:227`), while the layout at `deploy.rs:66` has only `main.py`. In `Device` such a start fails.
- ctxgraph: content written again keeps its first timestamp and writes of one second tie, so that a history A, B, A is
  listed B, A; `LIKE` folds the case of ASCII letters and the backslash in a prefix is not escaped; a NUL in a prefix ends the pattern before its `%`,
  and one in an agent id can give two writes one hash (both are legal in JSON strings, and nothing looks for them); a TCP port that cannot be
  bound is only logged. `README.md:104` says its state survives a reboot, `docs/features/ctxgraph.md:155` that it does not; it does not.
- Two declared paths can get one virtiofs tag (`krun.rs:234`).
- A share that is declared for reading is writable by the VM process if it lies below one declared for writing: Landlock adds up
  the rules along a path.
- A VM whose manifest is not in its configuration, or does not parse there, is entered with neither Landlock nor seccomp (`cage/src/main.rs:71`).
- An archive whose only `AGENT.toml` at depth two is followed by a deeper one is answered *ok* with the first in memory and the second
  on the disk; one without a program is answered *ok* next to the program of an older bundle (`deploy.rs:104`, `:158`, `:116`).
- `firewall.rs:101` writes `ip daddr` for IPv6 addresses as well, for which nft refuses the whole ruleset; `Egress` has that as a failing nft.
- The initramfs as built has no `mkfs.ext4`, so the script's formatting is dead code in that image; `Storage` follows the script.
- The first save of a vault is not synced either: the end of the machine can leave an empty file, which no later start opens.

## 7. What is left out

- *nulld*: the parsing of the configuration (its result is a constant). A rejected graph ends in the
  recovery hold before any service exists; in `Device` it is one of the ways `BootFails`. An error of `waitpid`: called with
  `-1` and `WNOHANG` it has none but that there is no child, which ends the loop as an empty answer does (the same for cage).
- *init script*: network set-up and kernel modules, which leave the disks alone. That a partition does not
  mount is taken as the script takes it: as being blank.
- *control socket*: parsing and the status answer; only the shutdown command changes state.
- *warden*: the cipher; a file that opens with the right key is taken to be what was sealed. That
  a file system writes a renamed file as a whole is assumed for one that replaces another, as ext4 does, and for no other. Reads
  (get, list) change nothing; what they return is `Get`.
- *cage*: secrets are put into the environment of a VM and never read back; sentinel and
  watcher are not in this repository, and nothing here depends on their answers. The rules of `validate` about names and numbers, vCPUs, memory and rlimits of a VM,
  and the 111 numbers in the tables of system calls are not modelled. Landlock's thirteen rights are taken in five
  groups, the calls to libkrun as one step that may fail. What a path leads to (`Resolve`) is a constant, and so is which manifests
  arrive in a VM process (`Conveyed`). A deployment is followed for one agent: files of different names do not meet.
- *ctxgraph*: `by_agent` and `Graph` have no callers outside tests. A panic of a thread, which
  would poison the mutex, has no path in the store. SQLite is taken to run a statement as a whole.
- *egress*: rules are sets of addresses, without ports and protocols; `generate_ruleset` for tap devices has no caller.
- *egress*'s resolver and blocklist: which addresses a name has, and which are blocked, are constants.
- *nullweb, nullctl, test-harness, image and kernel build*: no state of their own.

## 8. Plan

Done: `StartOrder`, `Supervisor`, `Vault`, `Egress` and `Cage`, all with proofs, `CtxGraph` with proofs, `Storage`, `Deployment`, `Sandbox` and
`Device` with proofs; every safety property and all three refinements are proved. What would add most now:

1. cage's own restart with VMs left over, together with nulld: what auto-start does next to VMs of an
   earlier cage, and services restarted out of dependency order.
2. `is_blocked` against the table of ranges, and `validate` of manifests and bundle paths, as operators against reference definitions.
