# cs-sleeper in TLA+

cs-sleeper is a daemon and a set of one-shot commands that put the disks of a
ZFS host to sleep when nobody uses them. This directory models its logic in
TLA+, checks it with TLC on small instances and proves the central results
with TLAPS for instances of any size. Source paths are relative to `src/`.

## 1. The system

| Component | State it keeps | Operations | Interacts through |
|---|---|---|---|
| Idle-detection engine (`internal/sleeper/sleeper.go`) | per disk: `Sleeping`, `IdleSince`, `verifyLeft` | `NewEngine`, `Update`, `MarkSleepResult`, `Snapshot` | called by the daemon loop only |
| Daemon loop (`daemon.go`, `util.go`) | `prev`, `cur`, `devices`, `devicePool`, `lastRescan` | sample, rescan, replication check, sleep attempts, due tasks, `writeState` | samplers, zpool, smartctl, pgrep; `state.json`, `schedule.json`, `vmstate.json` |
| Spin-down and spin-up (`internal/sleeper/sleep.go`) | token channel, mutex, error slice of one call | `Sleep`, `Wake`, `SetStandbyTimer`, `SleepAll`, `WakeAll` | goroutines sharing memory |
| Scheduled tasks (`schedule.go`) | `schedule.json` | `queueTask`, `runDueTasks`, `runTask` | the file, between processes |
| Pool operations (`pool.go`, `oneshot.go`) | `vmstate.json` | `execSleepPool`, `execWakePool`, `vmSleep`, `vmWake`, `handleExportSchedule`, `export-now`, `import-now` | zpool, qm, smartctl; the file, between processes |
| Start and stop (`enable.go`, `daemonctl_*.go`, `daemon.go`, `acquireLock`) | `enabled` key, pid file | `enable`, `disable`, `daemon`, the signal handler | config file, pid file and signals, between processes |
| Config file (`config.go`, `enable.go`) | the text file | `loadConfig`, `parseConfig`, `validateConfig`, `marshalConfig`, `setEnabledInFile` | the file, between processes |
| Time windows (`config.go`) | none | `SleepAllowed`, `Active`, `validateNoOverlap` | called by the loop and the config loader |
| Guards (`util.go`) | none | `neverSleepSet`, `guardDevice`, `guardBootPool`, `managedDevices`, `devicePoolMap`, `reverifyIdle` | zpool, samplers |
| Samplers (`internal/sysio`) | none | `Sample`, `Active`, `Normalize`, `BootDisks` | /proc/diskstats, iostat, kstat, Windows counters |
| ZFS, VM and replication wrappers (`internal/zfs`, `vm`, `replcheck`) | none (Windows: a 30 s cache) | `Import`, `Export`, `IsImported`, `BootPool`, `DisksOfPool`, VM calls, `Check` | external programs |
| State file and status (`state.go`, `status.go`) | `state.json` | `writeState`, `status` | the file |
| One-shot commands, command line (`oneshot.go`, `main.go`) | none | `sleepnow`, `wakeupnow`, `sleeppool`, ... | all of the above |

### What is hard, and what makes each part correct

* The loop reads the world once (sample, window, replication, membership) and
  acts on it later; everything it depends on can fail or change in between. It
  is correct if it never spins down a disk in use, inside a window, of the
  boot pool or during a replication, if `state.json` tells the truth, and if
  it never stops noticing I/O or stops trying (`Daemon`).
* The engine sets `Sleeping` before the command has run, and everything rests
  on the caller reporting the result. It is correct if it implements the
  README's idle rule whatever the sequence of calls (`Engine`, `SleepPolicy`).
* `schedule.json` and `vmstate.json` are rewritten by several processes that
  may be killed at any time. They are correct if nothing queued is lost, run
  twice without cause or forgotten (`Schedule`, `TaskQueue`, `PoolOps`).
* The timetable of pools must win over replications, failures, calls that time
  out and take effect later, and commands typed beside it (`PoolOps`).
* The pid file is lock, registry and kill list at once, and the config file is
  truncated in place; commands, daemons and signal handlers race for both
  (`Control`).
* One disk has many names, and a config line many meanings: whether the right
  disks are managed, sampled, put under the right window and protected depends
  on parsing and normalizing meeting in the middle (`ConfigFile`,
  `DeviceNames`, `Startup`).
* `spinAll` runs a goroutine for each disk under a bound (`SpinAll`); windows
  cross midnight (`TimeWindows`).

`PROJECT.json` lists the hazards one by one, each at its line.

## 2. Modules

### SleepPolicy, Engine, EngineProofs

`SleepPolicy` is the promise alone: a disk is `awake`, `ordered` or `asleep`,
with the age and the length of its quiet run. It knows no countdown and no
`IdleSince`. `Engine` is `sleeper.go`:

| Engine | sleeper.go |
|---|---|
| `disks[d].sleeping` | `Sleeping` |
| `disks[d].idle` | `now - IdleSince`, cut off at `Wait`; `ZeroTime` for the zero `time.Time` |
| `disks[d].verify` | `verifyLeft` |
| `UpdateDisk` | the loop body of `Update` for one disk |
| `Update` | `Update`; `selected` is the list it returns, less what is resolved already |
| `MarkSleepResult` | `MarkSleepResult` |
| `Renew` | `NewEngine` called again after a rescan |

`busyAge` and `idleRun` are history. `LastActive` and `LastWake` only feed
reports and are left out. `ImplementsPolicy` is the refinement: `phase` is
`ordered` for a selected disk, `asleep` for a sleeping one that is resolved.

### Daemon, MCDaemon, DaemonProofs

`Daemon` extends `Engine` with the loop of `daemon.go` and the world around
it. One tick is `BeginSample`, `EndSample`, `Rescan` or `SkipRescan`,
`CheckAndUpdate`, an attempt for each selected disk (`Withhold`,
`SleepSucceeds`, `SleepFails`), `Publish`; the world moves between any two of
them: I/O, standby timers, manual spin-ups, replications, windows, disks that
change pools. A sample is the set of disks it has a counter for plus the set
whose counter moved. `io` is what the disk has done since the last sample
ended, `windowIO` what the running sample will show of it: for a reader of
totals (Linux) the two are the same, for a reader of rates only I/O inside the
window of the sample counts. `Faults` selects what may fail: the sampler (any
disk may be missing), zpool (any pool may be missing from a query, the boot
pool may be unknown), smartctl (with or without effect), pgrep.

`quiet`, `lastIO`, `replHeld` and `settled` are history: they record what
really happened, so that the properties compare the loop with the world and
not with what its samples told it.

### TaskQueue, Schedule, ScheduleProofs

`TaskQueue` is what `--at` promises: tasks are queued, fall due, are executed,
and leave the queue no sooner. `Schedule` is how: every process loads, changes
and writes `schedule.json`; `writeJSONAtomic` is modelled by inode, since every
writer uses the same temporary name: create or truncate `.tmp`, write, rename.
Each of the three may fail (`WriteFails`): the command then reports an error,
the daemon only warns (schedule.go:88-90) and goes on with a file that still
holds what it has executed. A kill may hit a process at any step; the daemon is
started again. Nothing keeps two passes from overlapping; `overlapped` is
history and records that they have. `ImplementsQueue` maps the queue to what a
reader of the file would load; `TaskQueue` knows an overlap as `shared`, after
which it keeps nothing (`NothingKept`) but that no task is executed early.

### VMRecord, PoolOps, MCPoolOps, PoolProofs

`execSleepPool`, `execWakePool`, `export-now` and `import-now`, step by step,
in several processes at once: the daemon, which serves the export timetable
(`EnterWindow`, `LeaveWindow`) and scheduled tasks, and commands of a shell,
each of which runs once (`RunCommand`). zpool, qm and smartctl are external:
each call has the answers the code handles, as far as `Faults` allows. A zpool
that is given up on after its timeout (`zfs.go:121`) goes into `late` and may
take effect at any later time (`LateEffect`); the list of a pool's VMs may
lack those whose `qm config` failed (`Listings`). `record` is `vmstate.json`,
read (`LoadRecord`) and written (`SaveRecord`, `ClearRecord`) in separate
steps. `overlapped` is history: two processes have handled VMs at once.

`VMRecord` is the promise of that file alone: VMs are put to sleep and noted,
a wake of their pool takes them up again, and no others if any are noted, and
forgets them when it is through. It knows no process and no file, and promises
nothing once two have handled VMs at once. `ImplementsRecord` maps its `noted`
to `record`, its `waking` to the pools some process is waking.

### Control, ControlProofs

`enable`, `disable`, `daemon`, started at terminals, and the daemons
themselves, interleaved at each system call, on a Unix or (`windows`) on
Windows. The pid file is read, opened with `O_TRUNC` and written in three
steps; `linked` tells whose open descriptor still is the file the path names,
because `Remove` unlinks it under a writer. The config file is truncated
(`RewriteConfig`) and written (`WriteConfig`) likewise: who reads it in between
reads an empty file, which loads as the defaults. `Terminate` follows the Go
program: a SIGTERM before `signal.Notify` kills at once and leaves the file,
later the handler removes it; `taskkill /F` asks no handler. `Die` and
`KillCommand` are crashes and kill -9, of daemons and of commands.

### ConfigFile, DeviceNames, Startup, MCStartup, StartupProofs

The way from a text to a standby command, without concurrency.
`ConfigFile` is the file as a sequence of lines: `parseConfig` with its
defaults, refusals and values that are silently kept, `Consistent` for
`validateConfig`, `marshalConfig` for the file that is created, and
`setEnabledInFile`. Keys that the code treats alike are represented by one.
`DeviceNames` has names as a disk, a partition suffix and a dress (directory,
upper case), `Normalize` by what it makes of each kind, the sections of
`zpool status`, and which counter of a sampler's report is kept.
`Startup` puts them together with `TimeWindows`: `Edit` (enable, disable),
`Load`, `Validate`, `Resolve` (the daemon's start: `managedDevices`,
`devicePoolMap`), samples of Linux and of iostat, the daemon's choice of disks
(`DaemonSleep`), `sleepnow` and `sleeppool` with their guards. Queries may fail:
a host answers for the pools of `answered` only, and for its boot pool if
`bootKnown`. `PoolDisks` skips a silent pool, `guardBootPool` and the
never-sleep set fail open (util.go:59, 79), `sleeppool` refuses (pool.go:28-31).
The answers do not change here: processes share nothing but the file, and
`sleeppool`, which asks for the boot pool twice, protects the more if one of the
two queries answers. In `Daemon` they change. `Regular` are the names
`Normalize` was written for; its property for all names is the run
`StartupNames`.

### SpinAll, SpinAllProofs

`spinAll` goroutine by goroutine: the loop that starts them, the token
channel, the mutex around `append` (read and write-back are two steps), the
deferred release and `wg.Done`, `wg.Wait`.

### TimeWindows, TimeWindowsProofs

`Window` and `MinWindow` as pairs of times, `Active`, `Segments` and
`validateNoOverlap`, `SleepAllowed`, and a clock. The reference they are
checked against is `Span`: the times met on the way from start to end.

Operators marked "Wrong" stand before some definitions. Each is a slip the
code could have made; the properties must tell it from the code.

## 3. Checks

Run one with `tlc -workers 2 -config <cfg> <module>`.

| Run | Module | Shows |
|---|---|---|
| `DaemonOneDisk` | MCDaemon | Complete Linux samples, failing commands, a disk that moves between a managed pool and the boot pool: no disk is handed out early and the engine implements the policy inside the loop; slept disks have really been quiet for `Wait`; none inside its pool's window or of the boot pool; no command disturbs a replication that ran when the tick began. |
| `DaemonFaults` | MCDaemon | Everything fails at will: `state.json` never reports a disk as sleeping that is up and whose wake no coming sample will show. With a fair loop, I/O on a sleeper is noticed, and a disk left alone is slept or tried for ever. |
| `Schedule` | Schedule | Two commands beside the daemon, a kill and two failing writes anywhere, passes that overlap or not: the file implements `TaskQueue`, and until two passes overlap it is readable at every step, each queued task is run, and once more at most for each kill and each failed write. |
| `SpinLimited` | SpinAll | Four devices, two at a time, one invalid: bound kept, all errors returned, the call returns. |
| `PoolOps` | MCPoolOps | Timetable and scheduled tasks beside a command, with every failure, partial lists, timed-out calls and a crash: `vmstate.json` names only VMs that are asleep and implements `VMRecord`, unless two processes have handled VMs at once; the timetable keeps bringing its pool where it belongs. |
| `Control` | Control | Two terminals, two daemons, one crash, either system, every interleaving: no stale pid file without a crash, and the owner's settings survive unless a command meets the file truncated. Where no command was typed before the last had taken effect: one daemon at most, the pid file names it, `disable` stops it, `enable` starts one even over a stale file. |
| `Startup` | MCStartup | Files of all kinds of lines, timetables and hosts: what `enable` and `disable` leave loads as asked and holds all else, the order of lines is free, no timetable (of the host, the exports, a pool) is loaded with windows that share a time and no file refused without a reason, and the right disks are managed, sampled, protected and put under the right window, as far as zpool answers. |
| `DaemonStalePool`, `ScheduleLostTask`, `PoolForgets`, `PoolExportFails`, `StartupNames` | | Violations, section 5. |

### Bounds, and why they are enough

* Daemon: one disk, because no loop property relates two disks. In the safety
  run `Wait = 3` with steps of 1 and 2, so that the wait is met exactly and
  overshot, and `VerifyIdle = 2`, so that the countdown has a middle; both are 1
  in the run with faults, where the length of the cycle does not matter and the
  tick has many more outcomes. The theorems about the engine have no bounds.
* Schedule: two commands and the daemon, so that a pass can meet a queue that
  is partly due; that is also what it takes for a lost update
  (`ScheduleLostTask`), a torn file and a task run twice. One kill and two
  failing writes allow each of them after each, and a write that fails twice in
  a row. Six inodes are as many as names and descriptors can hold
  (`ScheduleAssumption`). That writes fail a bounded number of times only is
  what makes `QueuedIsRun` and the count of `RunsAreCounted` mean something: a
  daemon on a full disk runs the same task at every tick.
* SpinAll: four devices for two tokens make two of them wait.
* PoolOps: one pool of the timetable and the boot pool, which every command is
  also tried on; two VMs, one of which its owner has stopped before. One
  command beside the daemon, which itself runs any number of tasks; one crash.
  Each VM has its disks on one pool (`PoolOf`). `sleepvm` does not fail in this
  run (a VM that cannot be suspended keeps its pool from being exported for
  ever, which is no defect); its error path is taken by the stopped VM.
  `CrashPoints` leaves out the steps between waking VMs and clearing the
  record: a crash there leaves names of running VMs in the record, which the
  next wake resumes in vain.
* Control: two daemons are enough for one to stop while another starts, two
  terminals for every pair of commands. Pids are not reused. `short` records
  which command has read a file without settings; the other lines of the
  config file are one Boolean. A terminal whose command has returned is as it
  was at first (`AtPrompt`).
* Startup: a clock of three hours of two minutes, whose six times hold every
  order of four window ends with room before, between and after, and tell
  hours from minutes; every legacy window, every timetable of up to two
  windows, one clock for all. Texts of up to three lines of the kinds `enable`
  reads, of two lines of all kinds, and complete files for the hosts. Five
  disks: two lettered ones, an NVMe disk, and the sixteenth and the
  forty-fifth disk of a large host (`sdp`, `sdas`), whose names end in a
  partition's mark; a host may have disks outside its pools (`free`). A sample
  or a command leaves a trace (`report`, `slept`) and starts from a
  state without one (`Fresh`): the traces decide nothing. The averages since
  boot are those of no disk or of all. A command that edits the file runs
  between two starts; `Control` has the two at once.

### Fairness, and why the code justifies it

* `DaemonFairness`: the loop is one goroutine whose calls all have timeouts,
  so it is weakly fair whatever the world does. The sampler must not fail for
  ever (strong fairness of a complete sample). Nothing is assumed of the world
  nor of the outcome of commands.
* `ScheduleFairness`: the daemon's loop runs again and again and is restarted
  after a kill; a command, once begun, goes on unless killed; time passes.
* `SpinFairness`: Go's scheduler runs every goroutine, channels and mutexes
  serve those who wait, and every command ends within `cmdTimeout`.
* `PoolFairness`: the daemon's calls return; it comes round to every pool of
  the timetable, finds all its VMs listed infinitely often, and an import or
  export of such a pool that is tried for ever and that nothing stands against
  succeeds at last. One-shot processes and late effects get none: a command
  may hang for ever, and what was given up on may never happen.
* `FairControl`: every process is scheduled. Nobody has to type a command.

## 4. Proofs

Run with `tlapm <module>.tla`.

**Engine** (`EngineProofs`), under `EngineAssumption` only. `EngineTypeOK`,
`CountdownBacked` and `SleepOnlyWhenIdle` are inductive together and not
alone: that a selected disk was idle long enough follows from its countdown,
and the countdown's value from `Backed`, which relates each disk to its history
(`idle <= busyAge`, `Verify - verify <= idleRun`, `sleeping` exactly at zero, a
started countdown only after a full wait). `IInv` is their conjunction;
`UpdateDiskFacts` and `MarkDiskFacts` treat one disk, the step lemmas all.
`EngineImplementsPolicy` is the refinement: with `IInv`, each `Update` is an
`Observe` whose `chosen` is the new `selected`, a `MarkSleepResult` a `Confirm`
or a `Refuse`, a `Renew` a `Forget`.

**Daemon** (`DaemonProofs`). `DaemonRefinesEngine`: every step of loop and
world is a step of `EngineSpec` or leaves the engine alone, so the engine's
theorems hold inside the daemon; it needs that rescans deliver only known
devices (`Tracked`). `SamplesOK` describes the pipeline (`prev = cur` between
ticks, what a sample shows is what happened, a replaced engine is fresh).
`ReportIsHonest` assumes `Cumulative` and nothing about faults: its invariant
`FlagsExplained` says that for every sleeping flag the disk is down, was spun
up by hand, or did I/O whose evidence is on its way through `io`, `moved` and
the gaps in `prev` and `cur`; the state file inherits this at `Publish`.
`SleepsOnlyTrulyIdle` assumes `Cumulative` and a sampler that does not fail:
`QuietInv` says the engine's idle age never exceeds the real quiet time. Both
assumptions are needed, see section 5. `DaemonTypeCorrect` rests on the
engine's invariant and `DaemonShape`. `BootPoolIsLeftAlone` assumes a boot pool
and that queries of zpool do not fail: `BootInv` says that from a rescan to the
next move of a disk the engine knows none of the boot pool.
`ReplicationIsNotDisturbed` assumes that pgrep answers: `GateInv` carries the
result of the check through the attempts of the tick. `WindowIsRespected`
assumes that queries of zpool do not fail, that only managed pools have a
window of their own (which `validateConfig` enforces), and `OneWindowPerDisk`:
wherever a disk can be managed it goes by the same window. `DaemonOneDisk` is
such a host, with a disk that moves; `DaemonStalePool` is one that is not, and
violates the property. `WindowInv` says that the window the loop lets a disk go
by is that of some pool it may be in and be managed.

**Schedule** (`ScheduleProofs`), any number of commands, kills, failed writes
and overlaps, under `ScheduleAssumption` only. Types, and that nothing is
executed before its time, hold whatever overlaps (`TypesStay`). The rest is
`LoneInv`: as long as no two passes have overlapped, the bound on the runs
and four parts. `Turns`: at most one process is off its rest.
`Files`: the file under its name is complete and is nobody's temporary file;
the one that is open is the temporary one and empty; one about to be renamed
holds what its process means to write. `Commands`: that is the schedule and the
command's own task. `Execution`: what the daemon is about to leave out has been
run, or is still in `todo`; all else on disk has been run once per kill or
failed write at most. That a fresh inode exists needs a count of names and
descriptors against inodes. Proved: `ScheduleTypeCorrect`,
`ScheduleIsReadable`, `RunsAreBounded` and `ScheduleImplementsQueue`, in which a
rename is the step of the queue (`Enqueue` or `Dequeue`), `RunTask` is
`Execute`, and all else stutters; once passes overlap, every step is
`NothingKept` (`OverlapKeepsNothing`) or the execution of a due task.

**PoolOps** (`PoolProofs`), any number of pools, VMs and commands, any faults,
and crashes anywhere but between waking VMs and clearing the record (there the
record outlives the sleep of its VMs, see the bounds). `RecordedAreAsleep` is
not inductive: `PoolInv` adds that a process handles only VMs of its own pool
and holds nothing at rest (`Own`), and, as long as no two have handled VMs at
once, that only one is among the steps on VMs (`Solo`), that what it has
gathered is still asleep and what it has read is still the record when it
writes (`Current`). A step that leaves VMs and record alone keeps it by
`MoveKeeps`; the four that do not have lemmas of their own. `RecordInv` adds
`Preferred`: a wake is on the recorded VMs, if there are any. With it every
step maps to one of `VMRecord` or to none: `SleepVM` is `PutToSleep` or a
stutter, `SaveRecord` is `Note`, `Recall` is `BeginToWake`,
`WakeVM` is `Wake`, `ClearRecord` is `Forget`. Proved: `PoolTypeCorrect`,
`RecordIsHonest`, `PoolImplementsRecord`, and for either `VMMode` (the run has
the suspending one) `StoppedStayDown`: a VM its owner stopped is started only
by the wake of a pool without a record, or after an overlap.

**Control** (`ControlProofs`), any number of terminals, daemons and deaths, on
either system, under `ControlAssumption` only. `ControlInv` has, where no
command has overlapped another, `Turns` (one command at work or one daemon on
its way, and both only while a stopped daemon is waited out), `Lock` (who runs
or is about to is named by the pid file, and nobody runs once another has
passed the lock) and `Obeyed` (who runs on a file that says no is about to be
stopped); `FileInv` says that, unless a command has read it truncated, the
config file is whole or one command is about to write it back. They are
inductive only together: that a daemon may pass the lock rests on the pid file,
that nobody removes the file meanwhile on the turns. `NoStalePidFile` has no
such condition: `Explained` says of a pid file, however commands overlap, that
a daemon has it open and will write it, or it names a daemon that is in its
loop, near it or stopping, or a command is about to remove it. Proved:
`ControlTypeCorrect`, `OneDaemonAtMost`, `PidFileIsTrue`,
`PidFileIsNeverStale`, `DisableStops`, `SettingsOutlast`.

**SpinAll** (`SpinAllProofs`), any number of devices and any bound. `SpinInv`
counts: tokens equal the goroutines between `Acquire` and `Release`, the
group's counter those alive, the mutex is held by whoever stands between
`Lock` and `Store`, whose copy of the slice is current (`Slices`), and what
failed is in the slice or on its way there. Proved: `SpinTypeCorrect`,
`InFlightIsBounded`, `NobodyWaitsUnlimited`, `EveryErrorReturned`.

**TimeWindows** (`TimeWindowsProofs`), a day of any length and a timetable of
any size: `SegmentsCoverWindow` shows that the check and the decision mean the
same by a window, `SpanIsActive` that both mean the times met on the way from
start to end, `NoOverlapIsDisjoint` and `RefusedIsShared` what the check accepts
and refuses. Proved: `SleepAllowedIsRight`. The lemmas serve `Startup`, where
the timetables of the exports and of the pools are checked as well.

**Startup** (`StartupProofs`), under `StartAssumption` and the assumptions on
names and times only: files of any length, hosts of any size, any pools, disks
and timetables. `StartInv` says that what a process holds is what the file it
has read parses to (`FileSays`), that an accepted configuration is consistent
and a refused one is not (`Accepted`), and that what it manages is what `managedDevices` and
`devicePoolMap` make of it (`Resolved`); `AskedInv`, beside it, that after
`enable` or `disable` the file loads and its first `enabled` line says what was
asked. The step lemmas are shallow; the work is in what the operators compute:

* A fold is described by its partial results (`Folded`); `FoldedConcat` and
  `FoldedFlatten` compose those of the parts, and `FoldEnds` shows by induction
  over the length that the community module's fold ends where they do. The
  lengths for which it holds are a set, so that no theorem with an operator
  parameter is needed. On these rest what `parseConfig`, `parseZpoolStatus`,
  `linuxSample` and `iostatSample` return for every input.
* Names: `Normalize` of a regular name is its disk (`RegularIsWhole`), so that
  sets of names and sets of disks can be compared.

Proved: every property of the run `Startup`, see `theorems` in `PROJECT.json`.
Those on disks hold where all names are `Regular` and of what zpool tells:
`ProtectedAreSafe` of the boot pool if it is known, and of its data disks and
spares if it answers. `LoadedNeverOverlaps` and `RefusedFilesAreWrong` speak of
every timetable of a file. And `DataAndSpares`: reading `zpool status` section by section keeps the data
disks and spares of a pool, and none of its log, cache, special and dedup
devices.

Only model-checked: liveness (`WakeIsNoticed`, `QuietDiskIsSlept` of `Daemon`,
`QueuedIsRun` of `Schedule`, `CallReturns` of `SpinAll`, `TimetableIsFollowed`
of `PoolOps`, `EnableStartsDaemon` of `Control`), which is beyond the prover,
as is ENABLED. Every other property that a passing run checks is a theorem's.
No module declares a recursive operator.

## 5. Where code and documentation disagree

Checked by runs of their own:

* **DaemonStalePool.** CHANGELOG.md:70-72 says the pool map is rebuilt on every
  rescan; daemon.go:109-115 does so only when the set of devices changed. A
  disk listed in `disks` that joins a managed pool keeps the global window, and
  is slept inside that of its pool.
* **ScheduleLostTask.** `queueTask` and `runDueTasks` rewrite the file without
  a lock; of two overlapping passes one is lost (schedule.go:58-64).
* **PoolForgets.** `sleeppool` repeated after one VM failed to suspend records
  only the second attempt's VMs; the VM of the first is never woken. No other
  process takes part.
* **PoolExportFails.** A failed export leaves the pool imported and its VMs
  asleep; at the next window the timetable sees an imported pool and does
  nothing (pool.go:113), though config.go:51-53 says it is imported and woken.
  A daemon that dies between the import and the wake leaves the same state.
* **StartupNames.** `Normalize` cuts an `s` or `p` off with the digit after it
  (sysio.go:53-54), also the last letter of `sdp` or `sdas`: the pool on
  `/dev/sdp1` is managed as `sd`, which no sampler knows, the one on
  `/dev/sdas1` as `sda`, another disk. README.md:265-266 has partition suffixes
  normalized to the whole disk. (A partition number of two digits behind a
  mark, `nvme0n1p12`, stays on the name likewise: `"mark2"` in `Regular`.)

To be seen by changing a configuration or a property:

* README.md:288-290, idle for `wait` seconds: `DaemonOneDisk` with `"sample"`
  in `Faults` (a missing counter counts as idle, util.go:155) or with
  `Cumulative = FALSE` (I/O outside the window of a rate reader is never
  seen) violates `SleepOnlyTrulyIdle`.
* README.md:297-301, the boot pool is never spun down: `DaemonOneDisk` with
  `"zpool"` in `Faults` violates `BootPoolNeverSlept`, since a failed query
  empties the boot pool's share of the never-sleep set (util.go:59). `sleepnow`
  and `sleeppool` do the same on a host of `Startup` whose boot pool is
  unknown or silent: both guards fail open (util.go:59, 79). With the real boot pool in `Protected`
  in place of `BootPool`, `ProtectedNeverSlept` is violated. After such
  a failure a disk may also be left on the global window until the set of
  devices changes again (daemon.go:112).
* README.md:297-300 counts the log, cache, special and dedup devices among
  those no command puts to standby; the never-sleep set (util.go:51-65) holds
  none of them, and `sleepnow` takes any (`SleepNow` on the hosts of
  MCStartup); `ProtectedNeverSlept` states what the set does hold.
* README.md:285-287, a replication is never disturbed: the check runs once per
  tick (daemon.go:119), so `RunningReplicationIsSafe` speaks only of one that
  ran when the tick began; with `replicating` for `replHeld` it is violated.
* README.md:293-294 has `import-now` refuse while a replication runs; only
  `export-now` checks (oneshot.go:74-83), as `BeginPoolCommand` shows.
* util.go:207, atomic writes: without `overlapped` in it, `AlwaysReadable` is
  violated, because all writers share one temporary name, and so is
  `RunsAreCounted`, because a late writer brings a task back.
* schedule.go:67 says that `runDueTasks` "executes and removes" what is due:
  when the file cannot be written it only warns (schedule.go:88-90), and every
  tick executes the same tasks again; without `failures` in it,
  `RunsAreCounted` is violated.
* pool.go:240, the record: without `overlapped` in `RecordedAreAsleep` a command
  and the daemon that handle VMs at once leave a running VM in the record.
* util.go:31, only one daemon: without `overlapped` in `OneDaemon` two daemons
  that start together both enter the loop; without it in `DisabledIsStopped` a
  daemon that is just starting survives `disable` (enable.go:60).
* enable.go:86-87, all other lines are preserved: without `raced` in
  `SettingsSurvive` the settings are lost by a command that reads the file
  between another's truncation and write, or is killed there; and `enable`
  panics on a file that no longer loads (enable.go:29, `Check`).
* enable.go:109: of several `enabled` lines the first is edited and the last
  is obeyed, so a disabled daemon starts; `AskedIsLoaded` asks for one line.
* SECURITY_REVIEW_v1.1.0-rc2.md:65, exactly the VMs slept before are woken:
  `vmWake` without a record starts every VM of the pool (pool.go:201-209), and
  a VM that does not wake is dropped from the record all the same (pool.go:210).
* An empty window (start = end) inside another is refused as overlapping,
  though it is never active (config.go:341); `RefusedForAReason` counts that as
  a reason.

## 6. Not modelled

* `state.json` as a file (truncated and rewritten in place, and outliving its
  daemon) and `status`, which only prints it.
* The standby timer and the tasks and exports a tick performs, inside the loop
  of `Daemon`: what they do to disks is the world's `SpinDown` and `SpinUp`.
* The columns of sampler output, how a device row of `zpool status` is told
  from a vdev, how each system names its boot disk, the storages that map VMs
  to pools, VMs with disks on two pools.
* `wakeupnow`, which only spins a disk up; the calendar of `parseAt` (a time
  that has passed is put 24 hours ahead, an hour off at a change of the clock).
* Bounds on numbers: `config.go` has none, so an `interval` of 0 makes the loop
  spin and a negative `wait` makes every disk idle; the models assume neither.
* `tasklist` on Windows is taken to answer and to match whole pids; the cached
  replication check there is only what a check older than the tick does to
  `RunningReplicationIsSafe`. Reuse of pids.
* A managed set that flaps, which renews the engine at each change
  (daemon.go:113) and so keeps every disk awake: `QuietDiskIsSlept` speaks of
  a disk left alone, the set included.
* Command line, usage, paths, logging: no state of their own.

## 7. Plan

Done: Engine and policy, Daemon, Schedule with its queue, SpinAll,
TimeWindows, PoolOps with processes side by side and its record, Control with
its files and Windows, Startup with names and configuration; and the safety
properties of all of them proved. Next, most important first:

1. Proofs about the composition: that the windows and protected disks `Startup`
   resolves are the constants `Daemon` assumes.
2. Reuse of pids in `Control`: which of its theorems survive when a stale file
   may name a stranger (`util.go:38`).
3. A torn read in `status`.
