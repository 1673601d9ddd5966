# Open-E JovianDSS storage plugins: models, checks and proofs

This directory holds TLA+ modules that model the Proxmox VE storage plugins for
Open-E JovianDSS, the TLC runs that check them, and theorems about them that
TLAPS checks.  Paths are relative to the repository (`src/` is its root).

## 1. The system

A Proxmox VE node runs many short-lived Perl processes (`pvedaemon` workers,
`qm`, `pvestatd`).  Each may load two storage plugins, create a per-operation
context `$ctx`, and call methods.  A method takes a lock, runs the Python
command line tool `jdssc` (which speaks REST to the array), and stages devices
on the node.

| component | where | state it keeps | operations |
|---|---|---|---|
| Lock primitive | `OpenEJovianDSS/Lock.pm` | `$ctx->{_held_locks}` (registry with owned flag and hold deadline), one SIGALRM, pmxcfs directories, flocks | `with_lock`, `refresh_locks`, `run_bounded`, `run_refreshed` and the phases commission / acquire / divest / decommission |
| Lock nests | method wrappers of both plugins, `joviandss_cmd`, `multipath_cmd` | none | which lock a method takes; vm locks in ascending vmid; one component lock per command |
| Activation | `Common.pm` 4425-5200, `_activate_volume` and `_deactivate_volume` of the plugin | per-attempt done-flags, iSCSI sessions, multipath maps, block devices | `volume_activate` (up to four cycles), `volume_deactivate`, `lun_record_update_device`, `volume_update_size` |
| LUN records | `Common.pm` 3913-4423 | record files under the plugin's local state directory, per storage, target and LUN | create, list, search, delete (and the logout of a target no record uses) |
| Command runner | `Common.pm` 1195-1480 | none | `joviandss_cmd` (timeouts and retries), `multipath_cmd` |
| iSCSI plugin | `OpenEJovianDSSPlugin.pm` | none (the array is its database) | alloc, free, clone, template, rename, snapshot, rollback, resize, activate, import, export |
| NFS plugin | `OpenEJovianDSSNFSPlugin.pm`, `NFSCommon.pm` | mounts of published snapshots | snapshot, rollback by copy, clone, activate of snapshots |
| Array driver | `jdssc/.../driver.py` | volumes, snapshots, clones, targets, LUNs, NAS shares **on the array** | create, clone, delete, promote, rollback, rename, publish, unpublish |
| REST client | `rest.py`, `rest_proxy.py` | index of the active address | one HTTP call each; failover to another address |
| Names | `jdss_common.py` | none | encoding of volume, snapshot and target names |
| `jdssc` command line | `jdssc/bin/jdssc`, `volumes.py`, ... | none | argument parsing over the driver |
| Installers, packaging, device manager script | `install.pl`, `dev/`, `debian/`, `blockdevicemanager/` | files on nodes | not part of the runtime protocols |

How they interact: plugin methods share **locks** (between processes and
nodes), the **array** (through `jdssc`), the **node's iSCSI sessions and devices**
and the **record files**.  Inside a process everything is synchronous; the
concurrency is between processes, and asynchrony enters through SIGALRM, killed
child processes, the pmxcfs expiry of locks, and other nodes.

### What is hard

* A cluster lock is a pmxcfs directory that a *waiter* may remove once its mtime
  is 120 s old (`CFS_LOCK_TIMEOUT`).  A holder keeps it by refreshing at
  cooperation points.  The hold alarm must kill a holder that stopped refreshing
  before a waiter can reclaim - yet the alarm is suspended while commands run.
* Activation is a long sequence of steps on the array and on the node, each of
  which may fail or be killed half done, and whose teardown runs in the same
  process, with other VMs working on the same target.
* `jdssc` is killed at a timeout and run again.
* Every multi-call operation of the driver may stop between two REST calls, and
  runs beside others which list and modify the same targets.

`PROJECT.json` lists the single hazards with their lines.

### What makes each component correct

* Locks: no two owners; a live holder is never reclaimed; a release hits only the
  own artifact; an overrun is never absorbed; no deadlock; waits and holds end.
* Activation: a volume is reported active only when its device is there and
  recorded; a failed activation leaves nothing that it created; it never tears
  down what another user of the target needs.
* LUN records: a session stays while a record of the target exists; it goes with
  the last one.
* Driver: a failed operation leaves a graph from which its retry succeeds; data a
  snapshot or clone depends on is never deleted; LUNs are not shared.

## 2. The modules

| module | system | composed of | theorems |
|---|---|---|---|
| `HeldLocks`, `PluginNests`, `LockService` | the lock primitive, the nests of locks that methods take, and what the primitive promises | `HeldLocks` implements `LockService` | `HeldLocksProofs` |
| `Activation` | activation and deactivation of volumes on the nodes, record files | assumes `LockService` | `ActivationProofs` |
| `Targets` | the array's targets and LUNs under overlapping `jdssc` processes | what `Publish` of `Activation` runs | `TargetsProofs`, `TargetsRaceProofs` |
| `Snapshots` | the array's graph of volumes, snapshots and clones under the methods of the iSCSI plugin | assumes `LockService` (one run of `jdssc` at a time) | `SnapshotsCalls`, `SnapshotsProofs` |
| `NasSnapshots` | snapshots of an NFS storage: publication, mounts, rollback by copy | assumes `LockService` (one task of a VM at a time) | `NasSnapshotsProofs` |
| `RestCommand` | one command of the plugin: runs of `jdssc`, requests, addresses | what every step of the three above is made of | `RestCommandProofs` |

The three modules of the array take from `RestCommand` that a request may be
executed although it failed, that it may be executed twice and the second answer
be seen (`Lossy`), and that a killed run starts again from its first request.

Planned, in this order: `path()` beside a locked operation; allocation and clone of
NFS disk files.

## 3. The lock primitive (`HeldLocks`)

### State and actions against the code

| model | code |
|---|---|
| `held[p]` | order and paths of `$ctx->{_held_locks}` |
| `owned[p]` | the records with `owned => 1` |
| `left[p][l]` | `deadline - time()`; 0 = `refresh_locks` would die |
| `alarm[p]` | seconds to the hold alarm of `run_bounded`, when not suspended |
| `blind[p]` | seconds it has been suspended since the last cooperation point |
| `timer[p]` | seconds to the end of the acquire wait, or to run_command's kill |
| `err[p]` | class of the error in flight (`lock_error_fatal`, `lock_error_acquire`, other) |
| `dir[l]`, `idle[l]` | the pmxcfs directory (or flock) and its age - external |
| `overran[p]` | history: an overrun was detected and is still unwinding |
| `quiet[p]` | history: seconds since `p` last refreshed all it owns |

| action | code |
|---|---|
| `CallLock` | `with_lock` to the `refresh_locks` that opens `_lock_acquire` |
| `PollAcquires`, `PollAcquiresThenDies`, `PollMisses`, `Wake`, `PollTimesOut` | the loop of `_lock_acquire_cluster`: mkdir, `cfs_update`, the `utime(0,0)` poke with the refresh, the sleep, the deadline with the guard alarm |
| `FlockAcquires`, `FlockTimesOut` | `_lock_acquire_node` |
| `WaitBreaks` | pmxcfs offline, or the lock file cannot be opened |
| `Cooperate`, `StartRun`, `EndRun`, `EndLeafRun`, `EndBody` | what a locked body does: explicit refreshes, timed commands, its end |
| `AlarmFires` | the handler in `run_bounded` |
| `LeaveSection` | the closing `refresh_locks` of `run_refreshed`, re-arming of the enclosing alarm, `_lock_divest`, `_lock_ctx_decommission`, and what the enclosing body sees |
| `Crash` | the process dies: flocks go, pmxcfs directories stay |
| `Tick` | one second, in every process |

`PluginNests` gives the nests of the plugin methods.  `LockService` states what
`with_lock` promises: a lock is free, or a process is inside, or it was left
behind; only an abandoned lock is reclaimed.

Time is discrete and relative; steps that are due (an expired timer, a poll, an
unwinding section) are taken before the next tick.  So steps themselves take no
time.  What costs time in the code is modelled as time: waits, sleeps, commands,
and Perl code (`Tick` in `body`).  A timed command of a method body, or a row of them
without a refresh between, takes up to `BlindMax`; the command that is the whole body of
a component lock takes up to `RunMax` of its lock (118 s for `jdssc`, the 40 s ladder for
`multipath`).  Two things are therefore abstracted away: the
5 s guard around `rmdir` in `_lock_divest` counts as no time, and the same holds
for the code between a command's end and its section's closing refresh.

Quorum loss is modelled where the code reacts to it, the error of a failed wait.
A node that loses its quorum cannot refresh its directories either; that such a
node is fenced before its locks are taken over is PVE's promise, not the plugins',
and not modelled.

Operators named `...Wrong` (and `FailWaitUnclassed`) are deliberately wrong
variants of their neighbour, used only to confirm that each property notices the
mistake.

### Runs

All instances have two processes.  Durations are scaled down; what matters is
their order, and each cfg keeps the order of the shipped values it is about:
alarm ceiling (117) < component run (118) < component hold cap (119, overdue at
120) and expiry (120) < acquire wait (1200) < method hold cap (1620).

| run | instance | shows |
|---|---|---|
| `locks_core` | two VMs: methods of one, renames in both directions, a status without a method lock; the cluster-wide `jdssc_general`, the node-wide `jdssc_info`; crashes, failing releases; ceiling plus suspended time below the expiry | type correctness; `AlarmBounds`, `OwnerHasArtifact`, `FatalSurvives`, `MaximalRunSurvives`, `NoWaitCycle`; refinement of `LockService` |
| `locks_liveness` | one VM lock, `jdssc_general`; no timed commands of the body itself | `WaitEnds`, `HoldEnds`; `DueIsPossible` supports the fairness |

Two processes are enough for these properties because each of them relates one
owner to one waiter (or a pair of waits); a third process adds another waiter of
the same kind.  The theorems hold for any number.  `idle` and `quiet` stop at `Cfs`
(older makes no difference), and every timer counts down, so nothing else is bounded.

### Fairness

`FairSpec` adds weak fairness of `DueStep(p)` - a delivered signal, a killed
command, the next poll, an unwinding section - and `TimePasses` (infinitely many
ticks).  `TimePasses` excludes only behaviours with infinitely many steps in one
second.  It does not hide a stuck process: `Tick` waits for due steps, so a
process stuck at one would refute `DueIsPossible` or end the behaviours.  Nothing
is assumed of locked bodies (they may wedge, or cooperate forever) nor of the
release of a lock; commands end because `run_command` kills them.

### Observations

* *The alarm alone does not keep a directory* (`locks_core` with a ceiling of 3 reports
  `OwnerHasArtifact`).  The alarm is suspended while a timed command, a flock wait or a
  poll sleep is in progress, and goes on afterwards with what it had left.  The time between two refreshes of a holder
  is thus bounded by the ceiling **plus the suspended time** (`AlarmBounds`), not by
  the ceiling, as `Lock.pm:290` and `docs/design/0006` (line 1973) say.  The shipped
  values leave two seconds for it (117 and 120); a flock wait for a node-scope component
  lock (`Lock.pm:694`) takes up to 40 or 60 s and refreshes nothing, and the commands of
  the device waits take 10 s and more each.  So a body that is slow in Perl around such
  a wait can lose its directory to a waiter while it goes on.  `locks_core` has a
  ceiling low enough for its suspended time.
* *Quorum* (`locks_core` with quorum loss reports `FatalSurvives`).  The error of a wait
  is replaced by `no quorum!` (`Lock.pm:660`) even when it is a hold-cap overrun of an
  outer lock, which `Lock.pm:154` says stays recognisable.
* One handler absorbs a fatal error: the eval around the unpublication of a snapshot
  (`Common.pm:4480`).  The error is then that of a component section below, and the
  next refresh of the method dies of the same deadline (`Resume`); section 4 says
  what the deactivation does in between.
* The shipped acquire wait (1200 s) does not outlast a legal hold since the cap was
  raised to 1620 s.

### Proofs (`HeldLocksProofs`)

For every set of processes, locks and nests, and for all timings:

| theorem | statement |
|---|---|
| `TypeCorrect` | `Spec => []TypeOK` |
| `Invariance` | `Spec => []IInv` |
| `AlarmBoundsHold` | `Spec => []AlarmBounds` |
| `OwnersKeepArtifact` | `Spec /\ []Timely => []OwnerHasArtifact` |
| `Refinement` | `Spec /\ []Timely => ImplementsService` |
| `FatalStaysFatal` | `Spec => []FatalSurvives`, when the quorum is never lost |
| `MaximalRunsSurvive` | `Spec => []MaximalRunSurvives`, when no component lock has a hold cap below its longest command |
| `OrderPreventsWaitCycles` | `Spec => []NoWaitCycle`, when the nests ascend in some rank of the locks |
| `PluginsNeverWaitInACycle` | the same for the nests of `PluginNests`, for any nodes and VMs |

The only assumptions on the constants are their types.  What the locks promise depends on
what the code around them does, and the theorems say on what: `Timely` is a condition on
the behaviour, that every holder of a pmxcfs lock reaches its next cooperation point
before the expiry.  `AlarmBounds` is the part of it that the lock primitive itself
gives, and it is unconditional: with suspended time below `Cfs - Ceiling` it implies
`Timely`, and that is all the alarm can do.

`OwnerHasArtifact` is not inductive: whether a poke removes a live holder's
directory depends on clocks.  `IInv` adds

* `Registry(p)`: what is owned is registered, only the innermost record may be
  un-owned, no path twice, where the process can be given its records;
* `Clocks(p)`: no owned directory is older than the last refresh (`idle <= quiet`); in a
  component section all the time since then was suspended (`quiet <= blind`); elsewhere
  what is left of the alarm and what has passed fit under the ceiling, but for suspended
  time (`quiet + alarm <= Ceiling + blind`).

The alarm fires before it could be negative, which gives `AlarmBounds`; and under
`Timely` a poke never finds an owned directory stale, since `idle <= quiet < Cfs`.

`MaximalRunSurvives` rests on `RunFits`: while a component run is in progress, it is
given less time than its lock's deadline leaves.  Both clocks start with the
ownership of the lock (`EnterFits`) and count alike, so it is enough that a run is no
longer than the cap of its lock: 118 under 119 s for `jdssc`, 40 under 60 s for `multipath`.

Beyond `IInv` the two theorems on waiting need only `Ascending`: the locks a process has,
and the one it waits for, ascend in the rank.  In a set of processes
which all wait for a lock that another of them owns, take the greatest lock waited
for: its owner waits for a still greater one.  `OrderPreventsWaitCycles` has any rank;
`PluginsNeverWaitInACycle` gives the one of the plugins: the storage's method lock
first, then vm locks by vmid (`rename_volume` takes two of them in the order of the
vmids), then component locks, of which each command takes one and nothing inside.

### Only model-checked

Liveness and `DueIsPossible`, which are beyond the prover (fairness, ENABLED).

## 4. Volume activation (`Activation`)

The volumes of one VM.  The vm lock is named by the vmid alone, without the
storage, so in the whole cluster one operation on the VM's volumes runs at a time
(as long as the lock service keeps its promise); the variable `op` is that
operation with the position it has reached.  Different VMs have different targets.

### State and actions against the code

| model | code |
|---|---|
| `Slot`, `TargetOf` | the LUN numbers of the targets, each a *slot* of its target |
| `lun[v]` | array: the slot the volume is attached at |
| `session`, `seen`, `maps` | per node: iSCSI sessions; sd devices, each the volume it shows and the slot it is at; multipath maps |
| `rec`, `ldir`, `tdir` | per node: record files, LUN directories and target directories under `<state>/<storeid>/<target>/<lun>/<volume>` |
| `sized` | per node: records that hold a size (they are created with `null`) |
| `active` | history: activation returned success, no deactivation was begun since |
| `op.done`, `op.slot` | `$state` of the cycle: reached-stage flags, target name and LUN number |
| `op.err`, `op.marked` | class of `$last_err`; a lock-fatal error was raised |
| `op.todo`, `op.own` | what `volume_deactivate` still has to undo: snapshot records, own record |

| action | code |
|---|---|
| `Activate`, `Accept`, `Reactivate` | `_activate_volume`: without a record; with a record and its device (and the refresh of its size); with a record without device |
| `Deactivate`, `UnpublishState` | `_deactivate_volume`, with the unpublish of a state volume |
| `Publish`, `Guard`, `Stage`, `Map`, `Record` | `_volume_activate_attempt` in its order; each may die before or after its effect |
| `Classify`, `NextCycle` | the error classes and the loop of `volume_activate`: a fresh `$state` per cycle, the budget check |
| `TeardownStage`, `TeardownMap`, `TeardownQuery`, `TeardownDetach`, `TeardownRecord` | `_volume_deactivate_attempt`; every step best-effort but for fatal errors |
| `DropRecord`, `DropLunDir`, `DropSession`, `DropTargetDir` | `lun_record_local_delete`: unlink, rmdir, residual logout, rmdir |
| `Unstack`, `UnstackDevice`, `UnstackMap`, `UnstackDetach` | `volume_deactivate` and `volume_deactivate_by_lun_record` |
| `Crash`, `Reboot` | the process is killed; a node restarts: record files stay, sessions, devices and maps go |

What goes by what is the point of the model.  The array gives a number that has
become free to the next volume (`driver.py:1453`; `Offered`: any free one, or the
one the volume is attached at).  A device or a record is looked for by the volume
(scsi id, file name), but deleted by the number: `volume_unstage_iscsi_device`
(`Common.pm:3459`, `DeviceDeleted`) deletes what it finds at the LUN of the record or
of the attempt, whichever volume it shows.  A device that is there when its number
goes to another volume may show either from then on (`LoggedIn`), and staging takes
any device with the volume's scsi id, wherever it is, without a login
(`Common.pm:2542`).

Abstracted: staging is one step with a choice of outcomes; an answer of the array
without scsi id counts as a publication that failed.  An unreadable record counts as
none: a file cut between its creation and its only write, which would make later
searches die, is left out.  The multipath setting of a storage does not change, so the path
of a record is a matter of names and the `eval` at `OpenEJovianDSSPlugin.pm:1820` has
nothing to absorb in `Accept`; the refresh of the size after a re-activation is an
`Accept` that follows.  `Faults` lists which step may raise which class of error, so that each
run says what may go wrong in it.

### Runs

| run | instance | shows |
|---|---|---|
| `activation_core` | 2 nodes, 2 volumes, 2 slots of 1 target, 2 cycles, every fault but reboots and failed device deletions of a teardown | `TypeOK`, `ActiveHolds`, `DetachSpares`, `FatalStops` |
| `activation_stores` | 1 node, 2 storages, 3 slots of 2 targets, a state volume, every fault | `NoSharedTarget`, `OneRecord` |
| `activation_contract` | a volume and its snapshot, 3 slots of 2 targets, multipath, 3 cycles, ordinary errors | `TornDown`, `OpEnds` |

Two cycles are needed for the position of the recovery detach (the last but one),
and three for what a cycle after it finds; the code has four.  Two nodes are one
that acts and one that is acted upon.  Two volumes on one target are what the
residual logout has to tell apart, and two slots let either volume get the number
the other had; the third slot is on the second target.  There are no fewer slots than
volumes, so a publication finds a free one.  Crashes and, in
`activation_stores`, reboots are unbounded.  `activation_core` has one storage, no
multipath, no snapshots, no state volume, no reboot and no device deletion that
fails, because `ActiveHolds` does not hold beyond that (observations).

### Fairness

`FairSpec` is weak fairness of `Proceed`, the next step of a running operation: a
Perl process with bounded loops, timeouts on all its commands and a hold alarm.
The beginning of operations, crashes and reboots are not fair.

### Observations

Each of these is a change of an instance away, and makes TLC report the property
in brackets.

* *Contention* (acquire timeouts with an otherwise repairable fault; `TornDown`).  A
  cycle that timed out on a lock is not torn down (`Common.pm:4612`), and the next
  one starts with an empty `$state`.  If that cycle is the last and fails before it
  learns its target, the session stays, although `docs/design/0007` (line 1648) has
  the final failure torn down to the logout.
* *State volumes* (a state volume on two nodes; `DetachSpares`).  The comment at
  `OpenEJovianDSSPlugin.pm:1915` promises a session check before the unpublish; there
  is none.
* *Dead map* (removal of a map fails; `ActiveHolds`).  A recorded volume is accepted
  by the presence of its map (`OpenEJovianDSSPlugin.pm:1828`), whether or not the map
  has a path.
* *Stale record* (`activation_core` with reboots; `ActiveHolds`).  A node records v1 at
  LUN 0 and reboots, which leaves the record and no device.  The recovery detach of
  the other node takes v1 off, so LUN 0 is free; v2 is published there and becomes
  active on the first node.  When v1 is deactivated or re-activated from its record
  there, the device at LUN 0 is deleted (`Common.pm:3459`): that of the active v2.
* *Stale device* (`activation_core` with `<<"tStage", "fail">>`; `ActiveHolds`).  A
  teardown that fails to delete the device goes on to detach the volume.  When the
  volume is attached again at another number, staging takes the old device for it
  (`Common.pm:2542`), and the record names a LUN that has no device.
* *Snapshots* (a volume, its snapshot and another volume, three slots, two nodes, no
  fault; `ActiveHolds`).  The unpublish of a snapshot (`Common.pm:4481`) asks for no
  sessions.  A node where the snapshot is still recorded and its number has gone to
  another volume deletes that volume's device when it deactivates the snapshot.
* The shared-target guard (`Common.pm:4709`) detaches "the LUN we just attached",
  which may have been attached, and in use on another node, before (two storages,
  one target, no fault; `ActiveHolds`).
* The unpublish of a snapshot in `volume_deactivate_by_lun_record`
  (`Common.pm:4483`) swallows the fatal marker (a snapshot and a fatal error at its
  unpublish; `FatalStops`).
* `volume_deactivate` clears nothing without a record, although `docs/design/0007`
  (line 2654) says it clears what a fatal error left behind.

### Proofs (`ActivationProofs`)

For all nodes, volumes, storages, targets and LUN numbers, any number of cycles and
any `Faults`, crashes and reboots at every step included, but for the hypothesis:

| theorem | statement | hypothesis |
|---|---|---|
| `TypeCorrect` | `Spec => []TypeOK` | |
| `StoragesStayApart` | `Spec => []NoSharedTarget` | |
| `FatalErrorsStop` | `Spec => FatalStops` | no snapshots |
| `DetachSparesSessions` | `Spec => DetachSpares` | one storage, no state volumes |
| `RecordsStaySingle` | `Spec => []OneRecord` | |
| `ActiveStaysActive` | `Spec => []ActiveHolds` | `Lone`: one storage, no snapshots, no state volumes, no multipath; no reboot, and no error but a fatal one at a teardown's device deletion |
| `FailedIsTornDown` | `Spec => []TornDown` | `Repairing`: only ordinary errors, and none at a logout or a record delete; no kill, no reboot |

The lemmas `GoWalks` to `UnstackDetachGoes` say once what each action does to the
operation (`Walks(op', S)`: the same operation at one of the steps `S`); the
invariants below then have one proof step per action.

* `NoSharedTarget` is about records, but the guard looks at LUN directories, and
  the record is written three steps after the guard.  `Separate` closes both gaps:
  `Filed` (a record lies in the directory of its storage and slot), `Apart` (the
  directories of two storages are on different targets), `Alone` (between guard
  and record no other storage comes to the target) and `Own` (which steps work on
  the volume of the operation, and which on one of its snapshots).
* `FatalStops` needs `Halts`: an operation with the marker is at its end or about
  to be classified as fatal.  Snapshots are excluded because the unpublish of a
  snapshot goes on after the marker (observations).
* `DetachSpares` needs `Spares`: `Attached` (an attempt that knows a target has its
  volume attached there, so that the sessions it asks for are those of the target
  it detaches from) and `Gated` (at the detach no other node has a session; one
  operation at a time and reboots keep it so).  The hypothesis excludes the
  unpublish of state volumes and the detach after a collision of two storages, which
  asks for no sessions (observations).
* `OneRecord` counts the records a search finds, while the steps create and delete
  single files.  `Sole` says why one more is never made: `Single` (no two records of a
  volume), `Shelved` (a record lies in its target's directory, so a search of the
  directories sees it), `Queued` (a deactivation works on the snapshots of its volume
  first, then on the own record), and `Clear` - an attempt, the only thing that
  creates records, works on a volume without one; a deactivation has at its last
  record only that one to delete.  So a volume that comes back on another target does
  not get a second record, also after a crash between any two of the deletions.
* `ActiveHolds` joins four pieces of state that different steps write, and steps
  which go by numbers.  `Live` says what ties them: `Distinct` (no LUN number twice),
  `Held` (an activated volume has its record and its device at one slot), `InSession`
  (a device or a record is of a session), `Shown` (they name the slot their volume is
  attached at, so the number that is deleted by is the volume's own), `Ours` (no
  operation works on a volume that is active on its node) and `Undone` (a teardown that may detach the volume has deleted
  its device before, so that no device is left at a number that becomes free).  A
  logout can then only take devices without a record, since `Shelved` has the target
  directory stand as long as a record is in it; and the recovery detach of another
  node's failed attempt stops at the session of the active one (`Gated` of `Spares`).
  Each part of `Lone` excludes a case of the observations; within it kills, timeouts,
  fatal errors, refusals and failing logouts are all allowed.
* `TornDown` speaks of the step after the last teardown, but what it needs has been
  kept by every operation before.  `Covered` is that bookkeeping, from the session to
  the record: a session has a LUN directory on its target (`Explained`), a LUN
  directory has its record (`Recorded`) and its target directory (`InTarget`), and a
  target directory is not empty (`Nonempty`) - each but for what the operation has
  just made or is just taking away (`Unfiled`, `Unrecorded`, `Emptied`).  An attempt
  may leave the exemption only through a whole teardown (`Cleans`), at whose record
  delete the missing directory, the remaining entries and the residual logout are
  the three ways in which the session is accounted for again.  That the directory
  deleted is one of the operation's storage, also for a snapshot, is `SameStore`; that
  a file deleted by its name is of that storage, too, `FileStore`.
  A timeout leaves `Cleans` without a teardown, which is the observation above.

`OpEnds` is only model-checked: it is liveness.

## 5. Targets and LUNs of the array (`Targets`)

One group of targets (`<prefix><group>-<index>`) of one pool, the targets of an
older prefix beside it, and the `jdssc` processes that place volumes on them.  A
step is one REST call with the code up to the next one; loops over listings are
steps that take one element each.

| model | code |
|---|---|
| `array` | zvols, targets, attachment `<<target, lun>>` of each volume, CHAP switch and users of each target |
| `session` | targets a node has iSCSI sessions with |
| `pr[p]` | position and local variables of a process: the slot it works towards, what listings said, attempts and rounds |
| `late` | a request of a killed process which the array has not executed yet |

| action | code |
|---|---|
| `Begin`, `BeginTarget`, `Exists`, `CloneSnapshot` | the commands `targets create/delete/get`, `target update/delete`, `volume delete`, and `create_export_snapshot` |
| `Lookup`, `Rehome`, `List`, `SlotOf`, `Pick` | `_acquire_taget_volume_lun`: where the volume is, leaving a target of an older prefix, the first free LUN, the index of a new target |
| `CreateTarget`, `GetTarget`, `Vips`, `GetLun` | `_create_target_volume_lun`, `_ensure_target_volume_lun` |
| `Attach`, `Resolve`, `Confirm` | the loop of `_attach_target_volume_lun` |
| `Users`, `DelUser`, `SetUser`, `DropBad`, `Active` | the CHAP settings, and `_set_target_credentials` which drops a target that gets none |
| `Busy`, `Detach`, `Left`, `Drop` | `_detach_target_volume` |
| `Removed`, `Sweep...` | the end of `remove_export`, one time in a hundred with `_delete_zombie_targets` |
| `Scan...`, `Destroy` | `_detach_volume` and the deletion in `_delete_volume` |
| `Kill`, `Serve` | `joviandss_cmd` kills a process; the array executes its request later |

Every REST call ends as the array says, or with an error before or after its
effect (`Faults`), or with the answer to the same request sent a second time
(`Lossy`).

| run | instance | shows |
|---|---|---|
| `targets_core` | one process at a time; a volume and a clone of a snapshot; two targets of the group and an older one; two LUNs each; CHAP or none; one failure per command | `AnswerHolds`, `ChapApplied`, `RemoveCompletes`, `Explained`, `OthersStay`, `SessionsKept` |
| `targets_race` | two processes publish different volumes at once, without other faults | `AnswerHolds`, `LostRace`, `CommandEnds` |
| `targets_late` | three volumes; a killed attach arrives at any later point; another pool has a target of the name | `AnswerOnTarget`, `SessionsKept` |

Two targets and two LUNs let a target be full, a listing be outdated, and an index
be missing in the middle.  `Rounds = 2` (5 in the code) and `Attempts = 3` (4) leave
a retry of each loop; a later round differs from the second in nothing.  The targets
of a group are tried in the order of their numbers; the code sorts their names as
strings (`driver.py:1446`), which is the same order up to index 9, and the instances
have two.  One failure per command is a failure of every position; a
second one arises from a command after it, which finds what the first left.

*Assumed of the environment*: the commands of one volume do not overlap (they run
under its vm lock).  `jdssc` processes overlap where `jdssc_general_lock_type` is
`node`, or clusters share a pool.  Overlapping commands are given the same
credentials, and these do not change while a request of a killed process is under
way; `target update` and `target delete` come alone, as an operator issues them.
Nodes log in and out between commands.

*Fairness*: `FairSpec` (for `CommandEnds`) is weak fairness of each process' next
step: no step waits for another process, and a REST call ends in a timeout at the
latest.

*Observations*, outside of the instances:

* The docstring of `_attach_target_volume_lun` (`driver.py:1768`) says of a volume
  that is on the target with another LUN that "nothing is moved"; the code detaches
  and attaches it again.
* After a late attach the volume may be on the right target with another LUN than the
  one chosen: `get_target_lun` finds it, and the chosen LUN is returned
  (`driver.py:1305`).  So `targets_late` has `AnswerOnTarget`; `AnswerHolds` fails.
* The docstring of `_detach_volume` (`driver.py:1046`) has a full scan when no target
  of the group is found; there is none.
* `_delete_zombie_targets` asks `is_lun`, which answers "no" on any error: such an
  error detaches a volume that exists (`OthersStay` fails with the fault `is_lun`).
* `_set_target_credentials` removes a target with all that is on it, when a user
  cannot be added to a target that was there before.
* A removal or a sweep beside a publication deletes the target after the listing
  said it was empty, with the LUN attached meanwhile; two processes that move one
  target's volumes at once make the second fail on a 404; an export that fails
  deletes an export in use, and its target with the volume another publication attached
  to it meanwhile (`driver.py:1083`; `AnswerHolds` fails with the fault `get_lun`); an error during the scan of `_detach_volume` is logged,
  and the volume is deleted while attached.
* A target that exists though the command believes it new keeps its CHAP switch.
* With several CHAP users and resent requests `Explained` fails: a `create` deletes the
  user it replaces, the DELETE is executed and its answer lost, the resent DELETE
  answers 404 (`rest.py:893`), and the CHAP branch of `_ensure_target_volume_lun` does not
  catch it (`driver.py:1321`), as the branch without CHAP does (`driver.py:1337`).
* With a late creation of a target `Explained` fails too: when the candidate of
  `_acquire_taget_volume_lun` comes to be between the listing and `get_target`, the
  function falls back to index 0 (`driver.py:1474`), whose LUN 0 may be taken.

*Proofs* (`TargetsProofs`; those under `Racing` in `TargetsRaceProofs`), for any
processes, volumes, targets, LUNs, users, rounds, attempts, `Faults` and `Lossy`:

| theorem | statement | hypothesis |
|---|---|---|
| `TypeCorrect` | `Spec => []TypeOK` | |
| `SessionsSafe` | `Spec => SessionsKept` | |
| `PublishedWhereAnswered` | `Spec => []AnswerHolds` | `Sequential` |
| `RemovalComplete` | `Spec => []RemoveCompletes` | `Sequential` |
| `OthersUntouched` | `Spec => OthersStay` | `Sequential` |
| `CredentialsApplied` | `Spec => []ChapApplied` | `Sequential` |
| `TargetAnswered` | `Spec => []AnswerOnTarget` | `Overlap = {}` |
| `FailuresExplained` | `Spec => []Explained` | `Undisturbed` |
| `RacersAnswered` | `Spec => []AnswerHolds` | `Racing` |
| `RacesExplained` | `Spec => []LostRace` | `Racing` |

A step of a process is some forty REST calls with several outcomes each.  So each
action has one lemma (`LookupAdvances`, `AttachAdvances`, ...) which says once what
the process does, whatever the outcome: it goes to steps that its command has
(`Method`, `Returns`), with the arguments each of them needs (`Args`), and what it
knows stays right.  The invariants take their steps from these.

* `SessionsSafe` holds with overlapping commands and late requests: `Unused` says that
  the target from which a publication or a look-up takes its volume has no sessions
  (the commands asked, and nodes log in between commands only), and `Takes(q, v)` names
  the only steps that take a volume from its target; all others leave it (`Stays`),
  executed once, twice or late.
* Four need one command at a time.  `Sequential` says so (`Overlap = {}`), and
  that what comes late is at most the creation of a target (`LateCalls`), and that
  `is_lun` does not answer "no" on an error.  Each part is needed: the observations
  have a counterexample for each.  Under it `Sound` is inductive: `Placed` (what a
  publication knows of its volume - nowhere, on the target and LUN it has in hand, or
  one of both - at every step), `Removal` (the same for a removal without errors) and
  `Emptied` (a target about to be deleted is empty).  A creation that comes late is
  harmless because an empty target more changes none of it.
* `CredentialsApplied` rests on `Credited`.  No target has two users, and one that is not
  there has none (`FewUsers`): without CHAP a deletion that finds its user gone ends the
  command with success, which is right only where there was no second.  A target that
  turns up where the publication is about to make one (`fresh`) was made late for a
  killed command: it has no users and CHAP as configured, or its LUN is taken and the
  publication will fail (`Chosen`); that is why its users need not be listed.  From there
  on the CHAP flag in hand is that of the target, and after the deletions nobody is left
  (`Credits`).  The creation that comes late carries the credentials of the publication
  at work (`Told`): both read them from the configuration of the storage.
* `TargetAnswered` is what is left of `PublishedWhereAnswered` when an attach may come
  late, and `is_lun` may fail.  What a publication read before is then worth nothing, so
  `Answering` says only this: from the last look at the LUN (`get_target_lun`, or its own
  attach) to the answer the volume is on the target, because a late attach takes no
  volume from its target and the credential steps take none; and a publication never
  skips that look (`known` is only set for an export).

* `FailuresExplained` says that a command which met no failure does not fail while its
  volume is there: neither a request that is resent nor what an earlier command left
  stands in its way.  `Undisturbed` adds three things to `Sequential`.  Nothing is
  executed late, and there is one user at most where requests are resent: the last two
  observations are the counterexamples (`targets_core`, which has one user and a late
  creation, meets neither: its volumes do not fill a target).
  And an attach is tried twice (the code: four times): an attach that is resent finds its
  own LUN, which only the next look takes for success.  The invariant, `Unfailing`, says
  of a command without failures that the target it works towards is there, or is not, as
  the step expects, and its LUN is free (`Slotted`, `Excused`), and of the array that a
  volume is on targets that are there (`Housed`), so that a volume which leaves a target
  of another prefix finds that target.

* `RacersAnswered` and `RacesExplained` are about any number of publications of
  different volumes beside each other, whose REST calls come in any order (`Overlap`
  is any set of `create` and `export`; the other commands come alone).  No lock and no
  transaction of the array keeps them apart: each reads the targets and the free LUNs,
  and acts on what it read some calls later.  `Racy` is inductive: `Claims` lists, step
  by step, what a publication still knows when others go on - its volume is where it
  left it, the target it holds stays, and it comes to none of the steps that take a
  volume off a target of the group - and `Gentle` what its own steps change: its volume
  comes to a target of the group, or leaves one of an older prefix, a target of the
  group never goes.  One lemma per action shows that its step is `Gentle` and keeps its
  own `Claims` (`StepRaces`), one lemma that a `Gentle` step for one volume keeps the
  `Claims` of the publications of all others (`Aside`).  That a target of the older
  prefix may go is where `Emptied` is needed: it is deleted empty, and nobody comes to it.
* `Racing` is what the code needs for this.  Without `Faults = {}` or `Clash = {}` an
  export that fails after its attach deletes its target in `_delete_volume`, with the volume
  that another publication attached there between the two calls (`driver.py:1083`).  Its
  loop deletes up to three times, and also what was made anew under the name.  With two
  CHAP users, two publications on one target delete the same old user, or one deletion is
  resent: the second is answered 404, which sends an export into this clean-up, and makes
  a `create` fail that lost no LUN.  With one attempt (the code has four) an attach that
  is resent finds its own LUN and fails.
  `targets_race` is an instance of `Racing`, in which races are lost.

`CommandEnds` is liveness and only model-checked.

## 6. Volumes, snapshots and clones (`Snapshots`)

The graph of a pool under the methods of the iSCSI plugin.  One `jdssc` runs at a
time (`jdssc_general`); but the lock is given up between two runs of one command, so
a method may wait in state `again` for its second run while others work.

| model | code |
|---|---|
| `pool` | by name: identity, origin, content and snapshots (in order) of each zvol; a published snapshot is a clone with a name of its own |
| `conf[v]` | snapshots the VM config offers for a disk |
| `pr[p]` | plugin methods with their `jdssc` run |
| `late` | requests of killed runs that were not executed yet |
| `seen`, `blame`, `forgot` | history: contents of a source since its clone was begun; snapshots whose removal failed or was killed; disks with a killed rollback |

| action | code |
|---|---|
| `Begin`, `Run`, `Kill`, `End` | what PVE asks for (with its checks before it), the runs of `joviandss_cmd` |
| `CreateLun`, `NextName` | `create_volume`, and the next free name of `alloc_image` and `clone_image` |
| `ListSnapshots`, `CreateSnapshot` | `create_snapshot` with its search through clones |
| `CloneSnapshot`, `ClearSnapshot`, `MakeClone`, `UndoSnapshot`, `FindForClone`, `MakeCloneFrom`, `Provision` | `create_cloned_volume`, `_clone_object` |
| `FindSnapshot`, `SnapshotClones`, `RemoveMount`, `DeleteSnapshot` | `delete_snapshot` |
| `MakeMount` | `create_export_snapshot` |
| `IsLun`, `GetLun`, `DeleteLun`, `DeleteOrigin`, `Dependencies` | `delete_volume`, `_delete_vol_with_source_snap` and the loop around it |
| `RollbackList`, `Rollback` | `rollback` with `--force-snapshots`, and the clean-up of the VM config |
| `NewName`, `OldName`, `Rename`, `Confirm` | `rename_volume` |
| `Deliver`, `Lose`, `Write` | late requests, guests |

`Call(q, a)` is what the array does on the call of step `q.at`, and `Ends` the ways in
which it may end: answered, answered a second time (`Lossy`), failed before or after
it was executed.  When a run is killed, its call is executed at once or never; a
creation may also be executed later.

| run | instance | shows |
|---|---|---|
| `snapshots_core` | two methods, two disks, two snapshot names, one error or kill anywhere, resent requests, late creations, one write | `CloneHolds`, `Kept`, `Explained`, `ConfigFollows`, `OnlyNamed` |
| `snapshots_names` | one method, three disks, a snapshot name used on two of them, no failure | **violation** of `CloneHolds` |

The properties relate what a method reports to what it did across its runs:
`CloneHolds` is violated by a second run that uses the snapshot the first one left.
Two disks are a source and its clone.  The constraint `Overlap` lets two methods be
active together only while a killed clone, deletion, rollback or rename waits for its
next run, and while there is one snapshot of a user: the other overlaps are too many
for TLC, and left to the proofs.  A second failure is out
of reach of this instance.  Deadlock is not checked: with all names used up there is
nothing left to ask for.

`Zone` is the time of the nodes against that of the array.  A rollback lists the newer
snapshots by times that the array writes in its zone and the node in its own
(`driver.py:3085`, `3098`), with the same zone in `snapshots_core`.  A node that is
behind leaves out what was made within the difference after the target (`Listed`: the
snapshots from any later one on); one that is ahead lists some older ones too, and
takes them out of the VM config although they stay, or is refused because of their
clones.

*Assumed*: a snapshot of a disk is excluded from other methods on it by PVE's lock on
the config of the VM (`volume_snapshot` takes no `vm` lock).  Requests of killed processes are executed or lost before PVE asks for
another command on the disks they name; only creations arrive late.  A guest does
not write to a disk that is being rolled back or made.  A snapshot that cannot be
removed at `ClearSnapshot` is no fault of the instance.  Clones are not renamed, and
snapshot names are not shared by two disks in `snapshots_core` (observations).

*The finding*.  In `snapshots_names`, `_find_snapshot_parent` goes through the
snapshots from the oldest on, and into the clones of each before the next.  Disk v
has s1 and s2, x is a linked clone of v@s1 and has an s2 of its own: a clone of v@s2
is made from x@s2, and reported as a success.

*Observations*:

* With `Zone = "behind"` a rollback to s1 removes s2 and does not name it: the VM
  config still offers s2 (`ConfigFollows` fails), against `driver.py:3189` and `3198`.
* A rollback that was carried out and killed is run again; the second run finds no newer
  snapshot, the names of those the first removed are lost, and the VM config keeps them,
  although `OpenEJovianDSSPlugin.pm:1453` calls a repeated attempt safe (of the array it
  is).  `ConfigFollows` excepts such disks, and disks of which a rollback failed.
* With the cascade, `_delete_vol_with_source_snap` counts a volume that is busy as
  deleted (`driver.py:232`): unless it is a clone, the deletion of a volume with
  clones reports success and deletes nothing.
* A deletion killed between its two calls leaves the snapshot of the clone; the
  second run finds no volume and fails (`driver.py:508`).  A listing error in `delete_snapshot`
  reports a snapshot as deleted.
* `create_snapshot` refuses a name that a linked clone has.
* A creation whose answer is lost is reported as "taken"; the next free name is used
  and the first volume stays without an owner.
* `ClearSnapshot` swallows every error but success: with an error there, the clone is
  made of an old snapshot (`CloneHolds` fails).
* A renamed clone (also by `create_base`) depends on a snapshot named after its old
  name.  A new clone of the same source under that name finds the snapshot, cannot
  remove it, and is made of it as it is (`CloneHolds` fails with `RenameClones`): of
  old contents, unless the source is a template that nobody writes to.
* A deletion of a snapshot which fails at its published clone leaves the clone (an
  error of `unmount`; `Kept` fails with `SharedNames`).  After a rename of the disk, a
  new disk of the old name with a snapshot of the old name is published by that clone,
  which exists, and has the contents of the other disk.
* `create_cloned_volume` of a snapshot runs under the lock of the VM of the new disk.
  Between the request and its run, the snapshot may be deleted on its disk, and one of
  that name made on a linked clone of the disk, which `_find_snapshot_parent` then
  finds: the new disk is made from the snapshot of the other disk.  The theorems say
  exactly this much: a clone comes from the disk named whose config still offers the
  snapshot when it ends (`ClonesAreAsOffered`), and the literal `CloneHolds` needs that
  no method beside it removes snapshots (`Offered`).
* A snapshot made between the list of a forced rollback and its call is removed
  unseen; a rollback that arrives late discards what was written since.

### Proofs (`SnapshotsCalls`, `SnapshotsProofs`)

For any processes, disks and snapshots, any `Faults`, `Killable`, `Lossy`, `LateCalls`,
failures, with `SharedNames` and `RenameClones` or without, and without the constraint
`Overlap`:

| theorem | statement |
|---|---|
| `CallIs` | each call changes only what its arguments name, its answer says what the pool is like, and sent again it changes nothing more |
| `TypeCorrect` | `Spec => []Types` |
| `NothingElseDestroyed` | `Spec => OnlyNamed` |
| `ConfigOffersWhatIs` | `Zone # "behind"`: `Spec => []ConfigFollows` |
| `SnapshotsAreExplained` | `Spec => []Explained` |
| `SuccessIsDone` | `~SharedNames`: `Spec => []Kept` |
| `ClonesAreNew` | `~RenameClones`, `cClear` never fails: `Spec => []ClonesNew`, the part of `CloneHolds` about clones of disks |
| `ClonesAreAsOffered` | `~SharedNames`: `Spec => []ClonesAsOffered`, the part about clones of snapshots that are still offered |
| `ClonesHold` | with both, and one method at a time or no removals of snapshots and disks (`Offered`): `Spec => []CloneHolds` |

`SnapshotsCalls` knows no processes.  `Proper(a)` is a pool as the array keeps it (ids are
unique; a published snapshot has an origin and no snapshots), `Moves(q, a, b)` what a
call may add, remove or change, `Outcome` what may be concluded from its answer.  Since
a call sent twice changes nothing more, the answers that are resent, lost or late
need no cases of their own in what follows.

* `Types` gives each method its steps, and each step the arguments its call uses.
* `OnlyNamed` compares two states.  It follows from `Moves` once `Types` says which of
  its arguments the call has from its method, and which from an answer; the removal of
  the snapshot of a clone is about names of clones, not of users.
* `ConfigFollows`: a method's steps rely on what the config offered when it began.
  `Alone` (one `jdssc` runs) and `Apart` (no disk is locked by two methods) keep others
  from it; `Withdrawn` - what is about to be removed is no longer offered - makes
  deletions harmless in all their orders; `Bounds` - at its call a rollback knows every
  snapshot of the config that is newer than its own, unless the node is behind - makes
  the clean-up complete.
* `Explained`: `AllExcused` is stronger at one place: it names the steps (`Minds`) at which
  a clone is about to use or remove its snapshot, instead of the whole method.  `Known`
  (a deletion knows the origin of the disk it deletes) is what hands the excuse over
  from the clone to the deletion of its origin.

* `Kept` and `CloneHolds` speak of a method that has ended, while others go on.
  `Achieved` says for each operation what its work is, from the call that does it on;
  no other method touches it, since runs exclude each other (`Alone`), and a late
  request does not, since its disks are not locked by a method that removes something
  (`LateHeld`: PVE asks for nothing on a disk with a request under way).  `Renamed`
  identifies the disk under both names through all runs of a rename.
* Where a clone or a publication comes from: its origin names a disk that has the
  snapshot (`Rooted`), a publication the snapshot of its own name (`Shown`), and
  `SingleUse` leaves one disk for the name.  `SingleUse` is inductive only for all that
  `Uses` counts: snapshots of the array and of the config, and those that a method or
  a late request is about to make; a rename hands all uses over to the new name.
  `Offers` keeps the snapshot in the config of the disk as long as its lock is held.
* What a clone of a disk contains: `Seeing` (the history `seen` has what the source
  contains), and `Clones`: at `cAgain` and `cClone` the snapshot has data that was seen, or
  the clone exists and the call will fail.  The second case is an old snapshot that
  cannot be removed: it has a clone, which by `Own` is the disk of the new name.  Both
  hypotheses are needed there: TLC finds an old snapshot cloned when its removal fails
  (`cClear`) or when its clone was renamed (observations).

The hypotheses are those of the instance: `SharedNames` is the finding and the
published clone that is left behind.

`_promote_newest_delete`, `_promote_volume`, `_clean_garbage_resources` and
`_volume_busy_error` are called by nothing in these paths and not modelled.

## 7. Snapshots of NFS storages (`NasSnapshots`)

All disks of a storage are files of one dataset.  A snapshot of a VM is **one**
snapshot of the dataset, and its clone and share are one per snapshot too
(`nas_sname`); the mounts and their directories are per disk.  This asymmetry is what
the module is about.

| model | code |
|---|---|
| `snap`, `clone`, `share` | the array, per snapshot of the VM |
| `dir`, `mnt` | mount directories (on the shared dataset, so on all nodes), and each node's mounts: none, in order, or stale |
| `op` | the task of PVE with the method, disk and step it is at |
| `moments` | history: contents of all disks while the snapshot was taken |
| `left` | history: publications that a method which died, or gave up, may have left |

| action | code |
|---|---|
| `Begin` | the tasks: snapshot, delete, rollback, activate and deactivate a snapshot, stop a VM |
| `Create` | `volume_snapshot`, `create_nas_snapshot` with `--ignoreexists` |
| `Clone`, `Share`, `Find`, `UndoShare`, `UndoClone` | `publish_nas_snapshot` |
| `Mount`, `Copy`, `UmountCopied` | `snapshot_activate`, `_volume_snapshot_rollback` |
| `Enter`, `Rmdir` | `snapshot_deactivate_unpublish` with its retries, `umount` |
| `Dshare`, `Gshare`, `Dclone` | `unpublish_nas_snapshot` |
| `Lclones`, `Dsnap` | `_delete_nas_snapshot` |
| `Write`, `Move`, `Killed` | the guest, migration, killed tasks and crashed nodes |

| run | instance | shows |
|---|---|---|
| `nas_core` | two nodes, two disks, one snapshot name, two attempts, two writes, two failures of any kind | `Findable`, `RollbackRestores` |

`RollbackRestores`: a rollback that succeeds has brought back contents which all
disks had at one moment while the snapshot was being taken.  `Findable`: what is
published is worked on, or has a directory that a deactivation finds, or was left by
a method that died.  Two writes tell apart the disks and the moments; two attempts
(10 in the code) are one that fails and one that follows; two failures let a retry
fail.

*Assumed*: tasks of a VM are serial (vm lock, and PVE's lock on the config).
Requests of killed runs are executed at once or never.  A copy ends with its task,
also a `dd`, which runs in a scope of its own and may in fact outlive the worker.  `-d` of a stale mount may say
yes or no, and reading it is an error.  PVE removes a failed snapshot from the disks
that have it, with force.  The guest does not write during a rollback.

*Observations*:

* `--ignoreexists` takes a snapshot that a failed attempt left for the new one; its
  contents are older than the task (`moments` keeps every attempt for that reason).
* The deactivation of one disk removes clone and share under the mount of the other,
  whose next activation fails, or whose stale mount stays while success is reported.
* A clone that cannot be deleted is given up silently (`driver.py:2406`).  An error of
  the poll for the share ends the unpublish before the clone's deletion.
* A rollback that dies after its copy leaves the publication; its message tells the
  operator.

*Proofs* (`NasSnapshotsProofs`), for any nodes, disks, snapshots, attempts, writes,
failures and kills: `TypeCorrect`, `NothingForgotten` (`Spec => []Findable`) and
`RollbackCorrect` (`Spec => RollbackRestores`).  Neither property is inductive:

* `Findable` speaks of directories, but a publication exists before its directory is
  made, and a removal takes the directory first.  `Remembered` covers both, and is
  stricter than `Findable` where a task only creates or deletes the snapshot.
* `RollbackRestores` needs that a copy read the snapshot (`Mounts`: a mount that works is
  one of a clone which is shared), that the snapshot has a moment's contents (`Taken`,
  and `Taking` while it is made), and that the disks done before were not spoilt
  (`Restored`: all disks which the rollback has left behind hold the snapshot's contents,
  as long as nothing failed).  `Progress` keeps clone and share there from one step of
  the publication to the next.

## 8. Commands and requests (`RestCommand`)

One call of `joviandss_cmd`: the runs of `jdssc`, and in a run its requests, each
sent over the control addresses in turn.  A request is a GET or a change; an answer
is usable, an error that ends the run, or one of the kinds the proxy tries again
(no connection, no JSON, no data for a GET).

| model | code |
|---|---|
| `phase`, `runs`, `req`, `msg`, `result` | the loop of `joviandss_cmd` and its output |
| `active`, `round`, `turn`, `try` | `active_host`, the two loops of `request`, the retry of `_send` |
| `executed`, `lost`, `bad` | history: executions of a change, those without a usable answer, failed turns per address |

`rest_command` (three addresses, two rounds, two sendings, one retry, a GET and a
change, two lines) checks `GivesUpLast` - a request is given up only after every
address failed in every round - and `OneWholeRun` - success carries the output of one
run, all of whose changes were executed, and a change is repeated only by another run
or after an answer that was lost.

`RestCommandProofs` proves both (`AllAddressesTried`, `WholeOutput`) and
`TypeCorrect` for any number of addresses, rounds, sendings, retries, requests and
lines, from `CommandAssumption` alone.  `GivesUpLast` needs `Turns`: the addresses
asked in this round are the `turn` ones before `active` in the ring, which may have
begun anywhere since a request goes on with the address of the last one; failed turns
of an address are the finished rounds, plus one if it was asked in this round.
`OneWholeRun` needs `Output`, which adds to it what holds of the requests before the
one being sent, and after.

*Observations*:

* An address that accepts connections and never answers is waited for 570 s, longer
  than any run may last (118 s); the next run starts with the first address again, so
  the second is never asked, although `docs/Plugin-configuration.md:166` says "The
  plugin cycles through these addresses in round-robin fashion—retrying up to three
  times before giving up on a command".  The code has 17 rounds, 3 s apart.
* An OS error of the array (`_handle_500`) is an exception inside of the loop: it is
  tried 17 times on every address and then reported as a failure of communication.
* Changes are sent again after an answer without JSON, whether or not they can be
  repeated.
* A certificate or credential error exits deep in the transport, past the clean-ups
  of the driver.

## 9. Not modelled

See the components with status `not_modelled` in `PROJECT.json`.

* Encoding of names (`jdss_common.py`): string functions.  The modules take names of
  volumes, of users' snapshots and of clones' snapshots as disjoint, which the
  encoding is for; this is not checked.
* `path()`, which activates a snapshot without the vm lock; content volumes; the inner
  loops of staging; resize, import and export.
* Allocation, resize and clone of NFS disk files: work of PVE on files.
* Installers and packaging, the device manager script, argument parsing and printing
  of `jdssc`, configuration getters (their values are constants here).

Only model-checked: liveness everywhere and `DueIsPossible`, which are out of the
prover's reach (fairness, ENABLED).

Operators named `...Wrong` (and `...NoConfirm`, `...NoMove`) are in every module the
wrong variants described in section 3.

## 10. Running

    tlc -config HeldLocksCore.cfg MCHeldLocks
    tlc -config ActivationCore.cfg MCActivation
    tlc -config TargetsCore.cfg MCTargets
    tlc -config SnapshotsCore.cfg MCSnapshots
    tlc -config NasCore.cfg MCNasSnapshots
    tlc -config RestCommandCore.cfg MCRestCommand
    tlapm HeldLocksProofs.tla
    tlapm ActivationProofs.tla
    tlapm TargetsProofs.tla
    tlapm TargetsRaceProofs.tla
    tlapm SnapshotsCalls.tla
    tlapm SnapshotsProofs.tla
    tlapm NasSnapshotsProofs.tla
    tlapm RestCommandProofs.tla

The module of every run is in `PROJECT.json`.  `locks_liveness`,
`activation_stores`, `snapshots_core`, `nas_core` and `locks_core` take one to three
minutes with two workers, the rest less; the proofs of a module take from seconds to
a few minutes.
