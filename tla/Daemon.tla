------------------------------- MODULE Daemon -------------------------------
(***************************************************************************)
(* The idle-detection loop of the daemon (daemon.go) around its engine,    *)
(* with the world it runs in: disks that do I/O, spin down by their own    *)
(* timer or are spun up and down by one-shot commands, replications that   *)
(* start and end, activity windows that open and close, pools whose        *)
(* members change, and samples, zpool queries and commands that fail.      *)
(*                                                                         *)
(* A tick is BeginSample, EndSample, Rescan or SkipRescan, CheckAndUpdate, *)
(* one standby attempt per selected disk, and Publish; the world may move  *)
(* between any two of them.                                                *)
(***************************************************************************)
EXTENDS Engine

CONSTANTS
  Pool,          \* the pools of the host
  NoPool,        \* no pool: a free disk, or one that cannot be attributed
  FreeDisk,      \* Config.Disks
  ManagedPool,   \* Config.Pools
  Windowed,      \* the pools with a PoolWindow of their own
  Global,        \* the window that holds for everything else
  Protected,     \* Config.Exclude and the OS boot disk
  BootPool,      \* the pool that holds the root filesystem, or NoPool
  InitialPool,   \* the pool of each disk when the daemon starts
  MayJoin,       \* the pools each disk may be moved to while the daemon runs
  Cumulative,    \* the reader delivers totals (Linux), or rates over its window
  Faults         \* what may fail: "sample", "zpool", "command", "pgrep"

ASSUME DaemonAssumption ==
  /\ NoPool \notin Pool /\ Global \notin Pool
  /\ ManagedPool \subseteq Pool /\ Windowed \subseteq Pool
  /\ BootPool \in Pool \cup {NoPool}
  /\ FreeDisk \subseteq Device /\ Protected \subseteq Device
  /\ InitialPool \in [Device -> Pool \cup {NoPool}]
  /\ MayJoin \in [Device -> SUBSET (Pool \cup {NoPool})]
  /\ Cumulative \in BOOLEAN
  /\ Faults \subseteq {"sample", "zpool", "command", "pgrep"}

VARIABLES
  pc,           \* where the loop stands
  prev,         \* the disks the previous sample has a counter for
  cur,          \* the disks the current sample has a counter for
  moved,        \* the disks whose I/O the current sample shows
  resampled,    \* prev was read anew after cur, by this tick's rescan
  windowNow,    \* the windows open at the time `now` of this tick
  devicePool,   \* the owning pool the daemon remembers of each disk
  rep,          \* this tick's replication check
  published,    \* the disks state.json reports as sleeping
  io,           \* the world: disks with I/O since the last sample ended
  windowIO,     \* the world: disks with I/O the running sample will show
  down,         \* the world: disks in standby
  replicating,  \* the world: a zfs send or receive is running
  open,         \* the world: the windows open now
  poolOf,       \* the world: the pool each disk belongs to
  quiet,        \* history: real seconds without I/O when the last sample ended
  lastIO,       \* history: disks with I/O between the last two sample ends
  woken,        \* history: disks spun up by hand with no I/O since
  replHeld,     \* history: one replication has run since the sample ended
  settled       \* history: a full rescan has run since a disk last changed pools

sampleVars  == <<prev, cur, moved, resampled, windowNow>>
diskVars    == <<io, windowIO, down, woken>>
hostVars    == <<replicating, open, poolOf>>
historyVars == <<quiet, lastIO, replHeld, settled>>
daemonVars  == <<engineVars, pc, sampleVars, devicePool, rep, published,
                 diskVars, hostVars, historyVars>>

PoolOrNone == Pool \cup {NoPool}

(* What a query may leave out when it is allowed to fail. *)
Answers(S, fault) == IF fault \in Faults THEN SUBSET S ELSE {S}

(* Whether the boot pool and its disks are found. *)
BootAnswers == IF "zpool" \in Faults THEN BOOLEAN ELSE {TRUE}

-----------------------------------------------------------------------------
(* Wrong: only what the configuration excludes is left alone. *)
neverSleepSetAsConfigured(bootKnown) == Protected

(* The never-sleep set: when the boot pool cannot be found out, its disks  *)
(* are missing from it.                                                    *)
neverSleepSet(bootKnown) ==
  Protected \cup {d \in Device : bootKnown /\ BootPool \in Pool /\ poolOf[d] = BootPool}

managedDevices(bootKnown, answered) ==
  (FreeDisk \cup {d \in Device : poolOf[d] \in ManagedPool \cap answered}) \ neverSleepSet(bootKnown)

devicePoolMap(answered) ==
  [d \in Device |-> IF poolOf[d] \in ManagedPool \cap answered THEN poolOf[d] ELSE NoPool]

(* The window a pool's disks go by. *)
WindowOf(p) == IF p \in Windowed THEN p ELSE Global

(* Wrong: the pools' own windows are not looked at. *)
AllowSleepIgnoringPool(d) == Global \notin windowNow

AllowSleep(d) == WindowOf(devicePool[d]) \notin windowNow

(* Wrong: a disk the previous sample lacks counts as idle. *)
activeSetTrustingMissing ==
  {d \in DOMAIN disks \cap cur :
     IF Cumulative THEN d \in prev /\ d \in moved /\ ~resampled ELSE d \in moved}

(* The managed disks the current sample shows active: a rate counter says  *)
(* so by itself, a total is compared with the previous one (zero if that   *)
(* sample has none); a disk without a current counter counts as idle.      *)
activeSet ==
  {d \in DOMAIN disks \cap cur :
     IF Cumulative THEN d \notin prev \/ (d \in moved /\ ~resampled) ELSE d \in moved}

-----------------------------------------------------------------------------
DaemonInit ==
  /\ poolOf = InitialPool
  /\ \E bootKnown \in BootAnswers, answered, reached \in Answers(Pool, "zpool") :
       /\ managedDevices(bootKnown, answered) # {}
       /\ EngineInit(managedDevices(bootKnown, answered))
       /\ devicePool = devicePoolMap(reached)
       /\ settled = (bootKnown /\ answered = Pool /\ reached = Pool)
  /\ pc = "sample"
  /\ prev \in Answers(Device, "sample") /\ cur = prev
  /\ moved = {} /\ resampled = FALSE /\ windowNow = {}
  /\ rep = FALSE /\ published = {}
  /\ io = {} /\ windowIO = {} /\ down = {} /\ woken = {}
  /\ replicating = FALSE /\ open = {}
  /\ quiet = [d \in Device |-> 0] /\ lastIO = {} /\ replHeld = FALSE

(* The running sample of a rate reader only shows what happens from here. *)
BeginSample ==
  /\ pc = "sample"
  /\ pc' = "sampling"
  /\ windowIO' = IF Cumulative THEN windowIO ELSE {}
  /\ UNCHANGED <<engineVars, sampleVars, devicePool, rep, published,
                 io, down, woken, hostVars, historyVars>>

(* cur := sample(reader); now := time.Now(). *)
EndSample(present) ==
  /\ pc = "sampling"
  /\ pc' = "rescan"
  /\ cur' = present
  /\ moved' = windowIO
  /\ windowNow' = open
  /\ io' = {} /\ windowIO' = {}
  /\ lastIO' = io
  /\ replHeld' = replicating
  /\ UNCHANGED <<engineVars, prev, resampled, devicePool, rep, published,
                 down, woken, hostVars, quiet, settled>>

SkipRescan ==
  /\ pc = "rescan"
  /\ pc' = "gate"
  /\ UNCHANGED <<engineVars, sampleVars, devicePool, rep, published,
                 diskVars, hostVars, historyVars>>

(* The managed devices are resolved again; only a changed set makes the    *)
(* daemon resolve the owning pools, drop its engine and sample anew.       *)
Rescan(bootKnown, answered, reached, present) ==
  LET devices == managedDevices(bootKnown, answered)
  IN  /\ pc = "rescan"
      /\ pc' = "gate"
      /\ IF devices = DOMAIN disks
           THEN UNCHANGED <<engineVars, devicePool, prev, resampled>>
           ELSE /\ Renew(devices)
                /\ devicePool' = devicePoolMap(reached)
                /\ prev' = present
                /\ resampled' = TRUE
      /\ settled' = (settled \/ (bootKnown /\ answered = Pool /\ reached = Pool))
      /\ UNCHANGED <<cur, moved, windowNow, rep, published, diskVars, hostVars,
                     quiet, lastIO, replHeld>>

(* What the replication check finds: pgrep failing counts as none. *)
CheckResult == IF "pgrep" \in Faults THEN {replicating, FALSE} ELSE {replicating}

(* Wrong: the replication check may be the last tick's. *)
CheckAndUpdateCachedGate(dt) ==
  /\ pc = "gate"
  /\ pc' = "sleep"
  /\ rep' \in {rep} \cup CheckResult
  /\ Update(activeSet, {d \in Device : AllowSleep(d)}, dt)
  /\ quiet' = [d \in Device |-> IF d \in lastIO THEN 0 ELSE Saturate(quiet[d] + dt, Wait)]
  /\ UNCHANGED <<sampleVars, devicePool, published, diskVars, hostVars,
                 lastIO, replHeld, settled>>

(* rep := replcheck.Check(), then engine.Update for this tick. *)
CheckAndUpdate(dt) ==
  /\ pc = "gate"
  /\ pc' = "sleep"
  /\ rep' \in CheckResult
  /\ Update(activeSet, {d \in Device : AllowSleep(d)}, dt)
  /\ quiet' = [d \in Device |-> IF d \in lastIO THEN 0 ELSE Saturate(quiet[d] + dt, Wait)]
  /\ UNCHANGED <<sampleVars, devicePool, published, diskVars, hostVars,
                 lastIO, replHeld, settled>>

(* A replication was seen: no command, and a full cycle before the next. *)
Withhold(d) ==
  /\ pc = "sleep" /\ rep
  /\ MarkSleepResult(d, FALSE)
  /\ UNCHANGED <<pc, sampleVars, devicePool, rep, published,
                 diskVars, hostVars, historyVars>>

SleepSucceeds(d) ==
  /\ pc = "sleep" /\ ~rep
  /\ MarkSleepResult(d, TRUE)
  /\ down' = down \cup {d}
  /\ woken' = woken \ {d}
  /\ UNCHANGED <<pc, sampleVars, devicePool, rep, published,
                 io, windowIO, hostVars, historyVars>>

(* Wrong: the failure is logged and not reported to the engine. *)
SleepFailsUnreported(d) ==
  /\ pc = "sleep" /\ ~rep /\ "command" \in Faults
  /\ MarkSleepResult(d, TRUE)
  /\ UNCHANGED <<pc, sampleVars, devicePool, rep, published,
                 diskVars, hostVars, historyVars>>

(* smartctl failed, or ran into its timeout with the disk spun down. *)
SleepFails(d) ==
  /\ pc = "sleep" /\ ~rep /\ "command" \in Faults
  /\ MarkSleepResult(d, FALSE)
  /\ \/ UNCHANGED <<down, woken>>
     \/ down' = down \cup {d} /\ woken' = woken \ {d}
  /\ UNCHANGED <<pc, sampleVars, devicePool, rep, published,
                 io, windowIO, hostVars, historyVars>>

(* Wrong: the state is written with attempts still open. *)
PublishUnresolved ==
  /\ pc = "sleep"
  /\ pc' = "sample"
  /\ published' = {d \in DOMAIN disks : disks[d].sleeping}
  /\ prev' = cur
  /\ resampled' = FALSE
  /\ UNCHANGED <<engineVars, cur, moved, windowNow, devicePool, rep,
                 diskVars, hostVars, historyVars>>

(* Wrong: the next comparison starts from a sample of its own. *)
PublishSamplingAnew ==
  /\ pc = "sleep" /\ selected = {}
  /\ pc' = "sample"
  /\ published' = {d \in DOMAIN disks : disks[d].sleeping}
  /\ prev' = cur
  /\ resampled' = FALSE
  /\ windowIO' = {}
  /\ UNCHANGED <<engineVars, cur, moved, windowNow, devicePool, rep,
                 io, down, woken, hostVars, historyVars>>

(* writeState once every attempt is resolved, then prev = cur. *)
Publish ==
  /\ pc = "sleep" /\ selected = {}
  /\ pc' = "sample"
  /\ published' = {d \in DOMAIN disks : disks[d].sleeping}
  /\ prev' = cur
  /\ resampled' = FALSE
  /\ UNCHANGED <<engineVars, cur, moved, windowNow, devicePool, rep,
                 diskVars, hostVars, historyVars>>

-----------------------------------------------------------------------------
(* The world. *)
loopVars == <<engineVars, pc, sampleVars, devicePool, rep, published, quiet, lastIO>>

(* I/O spins a disk up. *)
DiskIO(d) ==
  /\ io' = io \cup {d}
  /\ windowIO' = windowIO \cup {d}
  /\ down' = down \ {d}
  /\ woken' = woken \ {d}
  /\ UNCHANGED <<loopVars, hostVars, replHeld, settled>>

(* The drive's own standby timer, or a one-shot or scheduled sleep. *)
SpinDown(d) ==
  /\ down' = down \cup {d}
  /\ woken' = woken \ {d}
  /\ UNCHANGED <<loopVars, io, windowIO, hostVars, replHeld, settled>>

(* A one-shot or scheduled wake: the disk spins without any I/O. *)
SpinUp(d) ==
  /\ d \in down
  /\ down' = down \ {d}
  /\ woken' = woken \cup {d}
  /\ UNCHANGED <<loopVars, io, windowIO, hostVars, replHeld, settled>>

Replication ==
  /\ replicating' = ~replicating
  /\ replHeld' = (replHeld /\ replicating')
  /\ UNCHANGED <<loopVars, diskVars, open, poolOf, settled>>

WindowChanges(w) ==
  /\ open' = IF w \in open THEN open \ {w} ELSE open \cup {w}
  /\ UNCHANGED <<loopVars, diskVars, replicating, poolOf, replHeld, settled>>

MoveDisk(d, p) ==
  /\ poolOf[d] # p
  /\ poolOf' = [poolOf EXCEPT ![d] = p]
  /\ settled' = FALSE
  /\ UNCHANGED <<loopVars, diskVars, replicating, open, replHeld>>

World ==
  \/ \E d \in Device : DiskIO(d) \/ SpinDown(d) \/ SpinUp(d)
  \/ Replication
  \/ \E w \in Windowed \cup {Global} : WindowChanges(w)
  \/ \E d \in Device : \E p \in MayJoin[d] : MoveDisk(d, p)

Attempt(d) == Withhold(d) \/ SleepSucceeds(d) \/ SleepFails(d)

Loop ==
  \/ BeginSample
  \/ \E present \in Answers(Device, "sample") : EndSample(present)
  \/ SkipRescan
  \/ \E bootKnown \in BootAnswers, answered, reached \in Answers(Pool, "zpool"),
        present \in Answers(Device, "sample") : Rescan(bootKnown, answered, reached, present)
  \/ \E dt \in Steps : CheckAndUpdate(dt)
  \/ \E d \in Device : Attempt(d)
  \/ Publish

DaemonNext == Loop \/ World

DaemonSpec == DaemonInit /\ [][DaemonNext]_daemonVars

(* The loop runs on whatever the world does, and the reader does not fail  *)
(* for ever.  Nothing is assumed of the world.                             *)
DaemonFairness ==
  /\ WF_daemonVars(Loop)
  /\ SF_daemonVars(EndSample(Device))

FairDaemon == DaemonSpec /\ DaemonFairness

-----------------------------------------------------------------------------
(* The shape of the loop's state: an attempt is only open between Update   *)
(* and Publish, and only managed disks are ever reported.                  *)
DaemonTypeOK ==
  /\ EngineTypeOK
  /\ pc \in {"sample", "sampling", "rescan", "gate", "sleep"}
  /\ pc # "sleep" => selected = {}
  /\ prev \subseteq Device /\ cur \subseteq Device /\ moved \subseteq Device
  /\ windowNow \subseteq Windowed \cup {Global}
  /\ resampled \in BOOLEAN /\ rep \in BOOLEAN
  /\ devicePool \in [Device -> ManagedPool \cup {NoPool}]
  /\ published \subseteq Device
  /\ windowIO \subseteq io /\ io \subseteq Device /\ down \subseteq Device
  /\ woken \subseteq Device \ down
  /\ poolOf \in [Device -> PoolOrNone]
  /\ quiet \in [Device -> 0 .. Wait]

(* README, safety model 2: a disk the loop is about to spin down really    *)
(* has done no I/O for Wait seconds, as the disk knows it and not as the   *)
(* samples told it.  It takes the sampling, the comparison with the last   *)
(* sample, the rescan and the engine together.                             *)
SleepOnlyTrulyIdle == \A d \in selected : quiet[d] >= Wait

(* I/O whose evidence the loop still holds: it has not been sampled, or    *)
(* not compared, or its counter is missing and the next comparison will    *)
(* show it, or the engine was just replaced and has yet to report.         *)
Unseen ==
  IF resampled THEN Device
  ELSE io \cup (Device \ prev) \cup (Device \ cur)
         \cup (IF pc \in {"rescan", "gate", "sleep"} THEN moved ELSE {})

(* The state file never lies for longer than a tick: a disk it reports as  *)
(* sleeping is in standby, or was spun up by hand, or did I/O that a       *)
(* coming sample is bound to show.  (The defect MarkSleepResult's comment  *)
(* tells of, a failed command reported as sleep for ever, is its negation.) *)
ReportedAsleepIsDown == \A d \in published : d \in down \cup woken \cup Unseen

(* A standby command is issued to d in this step. *)
Commanded(d) == pc = "sleep" /\ ~rep /\ d \in selected /\ d \notin selected'

(* The replication gate, as one check per tick provides it: a zfs send or  *)
(* receive that was running when the tick's sample ended, and runs still,  *)
(* is never disturbed.                                                     *)
RunningReplicationIsSafe == [][\A d \in Device : Commanded(d) => ~replHeld]_daemonVars

(* README, safety model 3: no disk is slept inside the window its pool     *)
(* goes by, once a rescan has seen which pool that is.                     *)
NoSleepInsideWindow == \A d \in selected : settled => WindowOf(poolOf[d]) \notin windowNow

(* README, safety model 6: no disk of the boot pool is spun down by the    *)
(* loop, once a rescan has seen that it belongs to it.                     *)
BootPoolNeverSlept == \A d \in selected : settled => poolOf[d] # BootPool

(* I/O on a disk reported as sleeping is noticed in the end. *)
WakeIsNoticed == \A d \in Device : (d \in published /\ d \in io) ~> (d \notin published)

(* Nothing keeps d awake and nothing keeps the loop from seeing that. *)
LeftAlone(d) ==
  /\ d \in DOMAIN disks /\ d \in cur /\ ~resampled
  /\ d \notin io \cup moved \cup woken
  /\ ~replicating /\ WindowOf(devicePool[d]) \notin open

(* A managed disk left alone for good is in standby or tried again and     *)
(* again: no failed or withheld attempt is the last one.                   *)
QuietDiskIsSlept ==
  \A d \in Device : <>[]LeftAlone(d) => []<>(d \in down \/ d \in selected)
=============================================================================
