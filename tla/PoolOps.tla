------------------------------ MODULE PoolOps -------------------------------
(***************************************************************************)
(* Whole-pool operations (pool.go, oneshot.go): sleeppool, wakepool,       *)
(* export-now and import-now, step by step, as the daemon's export         *)
(* timetable, its scheduled tasks and one-shot commands beside it run them *)
(* on the same pools, virtual machines and vmstate.json.  zpool, qm and    *)
(* smartctl are external and modelled by the answers the code handles, a   *)
(* timed-out zpool that takes effect later among them.                     *)
(***************************************************************************)
EXTENDS Naturals, FiniteSets

CONSTANTS
  Daemon,        \* the process that follows the export timetable
  Shell,         \* the one-shot commands, each a process of its own
  Pool, VM,
  PoolOf,        \* the pool each VM's disks are on
  BootPool,      \* the pool guardBootPool refuses, or no pool at all
  ExportPools,   \* pools under the export timetable
  VMMode,        \* "off", "suspend" or "shutdown"
  Tasks,         \* what the scheduled tasks of the daemon are given
  Commands,      \* what one-shot commands are given
  Idle,          \* VMs the administrator has stopped beforehand
  Faults,        \* which external calls may fail
  CrashPoints,   \* steps at which a process may die
  MaxCrashes

Command == [kind : {"sleep", "wake", "export", "import"}, export : BOOLEAN, includeVM : BOOLEAN]
(* "replication": any check may find one running; "config": qm config fails *)
(* for a VM; "timeout": a zpool call is given up on; the others: the call   *)
(* of that name fails.                                                      *)
FaultKinds == {"replication", "list", "config", "sleepvm", "wakevm", "export", "import", "timeout", "command"}

ASSUME PoolOpsAssumption ==
  /\ Daemon \notin Shell
  /\ PoolOf \in [VM -> Pool]
  /\ ExportPools \subseteq Pool /\ Idle \subseteq VM
  /\ VMMode \in {"off", "suspend", "shutdown"}
  /\ Tasks \subseteq {c \in Command : c.kind \in {"sleep", "wake"}}
  /\ Commands \subseteq Command /\ Faults \subseteq FaultKinds
  /\ MaxCrashes \in Nat

VARIABLES
  inWindow,     \* the timetable wants the pools imported, as the tick has read it
  imported,     \* the pools zpool list shows
  standby,      \* the pools whose disks are spun down
  vm,           \* each VM: "running", "asleep" by our doing, or "stopped"
  late,         \* zpool calls given up on that may still take effect
  record,       \* vmstate.json: pool -> recorded VMs (no entry is empty)
  pc, job,      \* each process: its step, and its call
  todo, ids,    \* the VMs still to be handled, those put to sleep
  seen,         \* the record as the process has read it
  overlapped,   \* history: two processes have handled VMs at once
  crashes

hostVars == <<imported, standby, vm, late>>
procVars == <<pc, job, todo, ids, seen, overlapped>>
poolVars == <<inWindow, hostVars, record, procVars, crashes>>

Process == {Daemon} \cup Shell
SleepSteps == {"vmSleep", "load", "save", "export", "spinDown"}
WakeSteps == {"import", "spinUp", "recall", "vmWake", "reload", "clear"}
VMSteps == {"vmSleep", "load", "save", "recall", "vmWake", "reload", "clear"}

Empty == [q \in Pool |-> {}]
NoJob == [pool |-> BootPool, kind |-> "wake", export |-> FALSE, includeVM |-> FALSE]
Job(q, c) ==
  [pool |-> q, kind |-> c.kind, export |-> c.export, includeVM |-> c.includeVM]
VMsOn(q) == {v \in VM : PoolOf[v] = q}

(* VMsOnPool leaves out a VM whose `qm config` fails. *)
Listings(q) == IF "config" \in Faults THEN SUBSET VMsOn(q) ELSE {VMsOn(q)}

(* The daemon is at rest between two calls; a command runs once. *)
AtRest(p) == pc[p] = "idle"

Goto(p, step) ==
  /\ pc' = [pc EXCEPT ![p] = step]
  /\ overlapped' = (overlapped \/ (step \in VMSteps /\ \E r \in Process \ {p} : pc[r] \in VMSteps))

(* The call returns, its locals are gone; a daemon only logs how it ended,   *)
(* a command exits with it.                                                *)
End(p) ==
  /\ pc' = [pc EXCEPT ![p] = IF p = Daemon THEN "idle" ELSE "gone"]
  /\ job' = [job EXCEPT ![p] = NoJob]
  /\ todo' = [todo EXCEPT ![p] = {}] /\ ids' = [ids EXCEPT ![p] = {}]
  /\ seen' = [seen EXCEPT ![p] = Empty]
  /\ UNCHANGED overlapped

-----------------------------------------------------------------------------
PoolInit ==
  /\ inWindow \in BOOLEAN
  /\ imported = Pool /\ standby = {}
  /\ vm = [v \in VM |-> IF v \in Idle THEN "stopped" ELSE "running"]
  /\ late = {}
  /\ record = Empty
  /\ pc = [p \in Process |-> "idle"] /\ job = [p \in Process |-> NoJob]
  /\ todo = [p \in Process |-> {}] /\ ids = [p \in Process |-> {}]
  /\ seen = [p \in Process |-> Empty]
  /\ overlapped = FALSE
  /\ crashes = 0

(* execSleepPool refuses the boot pool, any pool while a replication is    *)
(* found running, and one whose disks or VMs cannot be listed, as an       *)
(* exported pool's.                                                        *)
RefuseSleep(p, q, c) ==
  /\ AtRest(p) /\ End(p)
  /\ q = BootPool \/ q \notin imported \/ "replication" \in Faults \/ "list" \in Faults
  /\ UNCHANGED <<inWindow, hostVars, record, crashes>>

BeginSleep(p, q, c) ==
  /\ AtRest(p)
  /\ q # BootPool /\ q \in imported
  /\ Goto(p, IF c.includeVM THEN "vmSleep" ELSE IF c.export THEN "export" ELSE "spinDown")
  /\ job' = [job EXCEPT ![p] = Job(q, c)]
  /\ IF c.includeVM /\ VMMode # "off"
       THEN \E listed \in Listings(q) : todo' = [todo EXCEPT ![p] = listed]
       ELSE UNCHANGED todo
  /\ UNCHANGED <<inWindow, hostVars, record, ids, seen, crashes>>

(* export-now has the first two guards of sleeppool and leaves VMs, record *)
(* and disks alone; import-now has none.                                   *)
RefuseExport(p, q) ==
  /\ AtRest(p) /\ (q = BootPool \/ "replication" \in Faults)
  /\ End(p)
  /\ UNCHANGED <<inWindow, hostVars, record, crashes>>

BeginPoolCommand(p, q, c) ==
  /\ AtRest(p)
  /\ c.kind = "import" \/ (c.kind = "export" /\ q # BootPool)
  /\ Goto(p, c.kind) /\ job' = [job EXCEPT ![p] = Job(q, c)]
  /\ UNCHANGED <<inWindow, hostVars, record, todo, ids, seen, crashes>>

(* Wrong: a VM is recorded before it is known to sleep. *)
SleepVMRecordingAll(p, v) ==
  /\ pc[p] = "vmSleep" /\ v \in todo[p]
  /\ todo' = [todo EXCEPT ![p] = @ \ {v}] /\ ids' = [ids EXCEPT ![p] = @ \cup {v}]
  /\ IF vm[v] = "running" THEN vm' = [vm EXCEPT ![v] = "asleep"] ELSE UNCHANGED vm
  /\ UNCHANGED <<inWindow, imported, standby, late, record, pc, job, seen, overlapped, crashes>>

(* vmSleep: qm suspend or shutdown; one that does not run is an error, and *)
(* only those that went to sleep are recorded.                             *)
SleepVM(p, v) ==
  /\ pc[p] = "vmSleep" /\ v \in todo[p]
  /\ todo' = [todo EXCEPT ![p] = @ \ {v}]
  /\ \/ /\ vm[v] = "running"
        /\ vm' = [vm EXCEPT ![v] = "asleep"]
        /\ ids' = [ids EXCEPT ![p] = @ \cup {v}]
     \/ /\ vm[v] # "running" \/ "sleepvm" \in Faults
        /\ UNCHANGED <<vm, ids>>
  /\ UNCHANGED <<inWindow, imported, standby, late, record, pc, job, seen, overlapped, crashes>>

AllSlept(p) ==
  /\ pc[p] = "vmSleep" /\ todo[p] = {} /\ Goto(p, "load")
  /\ UNCHANGED <<inWindow, hostVars, record, job, todo, ids, seen, crashes>>

(* saveVMAffected and clearVMAffected read the whole map ... *)
LoadRecord(p) ==
  /\ pc[p] \in {"load", "reload"}
  /\ seen' = [seen EXCEPT ![p] = record]
  /\ Goto(p, IF pc[p] = "load" THEN "save" ELSE "clear")
  /\ UNCHANGED <<inWindow, hostVars, record, job, todo, ids, crashes>>

AfterSave(p) ==
  /\ Goto(p, IF job[p].export THEN "export" ELSE "spinDown")
  /\ seen' = [seen EXCEPT ![p] = Empty] /\ ids' = [ids EXCEPT ![p] = {}]
  /\ UNCHANGED <<inWindow, hostVars, job, todo, crashes>>

(* Wrong: the entries of the other pools are lost and given these VMs. *)
SaveRecordEverywhere(p) ==
  /\ pc[p] = "save"
  /\ record' = [q \in Pool |-> ids[p]]
  /\ AfterSave(p)

(* ... and write it back with this pool's entry changed. *)
SaveRecord(p) ==
  /\ pc[p] = "save"
  /\ record' = [seen[p] EXCEPT ![job[p].pool] = ids[p]]
  /\ AfterSave(p)

(* Wrong: the entry of the pool is left in the map. *)
ClearRecordNot(p) ==
  /\ pc[p] = "clear"
  /\ record' = seen[p]
  /\ End(p)
  /\ UNCHANGED <<inWindow, hostVars, crashes>>

ClearRecord(p) ==
  /\ pc[p] = "clear"
  /\ record' = [seen[p] EXCEPT ![job[p].pool] = {}]
  /\ End(p)
  /\ UNCHANGED <<inWindow, hostVars, crashes>>

(* zpool export: refused while a VM keeps the pool busy. *)
Exportable(q) == q \in imported /\ \A v \in VMsOn(q) : vm[v] # "running"

ExportSucceeds(p) ==
  /\ pc[p] = "export" /\ Exportable(job[p].pool)
  /\ imported' = imported \ {job[p].pool}
  /\ IF job[p].kind = "export" THEN End(p)
     ELSE Goto(p, "spinDown") /\ UNCHANGED <<job, todo, ids, seen>>
  /\ UNCHANGED <<inWindow, standby, vm, late, record, crashes>>

(* A zpool that exceeds its timeout is killed, but what it has asked of    *)
(* the kernel may be done all the same.                                    *)
ExportFails(p) ==
  /\ pc[p] = "export"
  /\ \/ ~Exportable(job[p].pool) /\ UNCHANGED late
     \/ "export" \in Faults /\ UNCHANGED late
     \/ /\ "timeout" \in Faults /\ Exportable(job[p].pool)
        /\ late' = late \cup {<<"export", job[p].pool>>}
  /\ End(p)
  /\ UNCHANGED <<inWindow, imported, standby, vm, record, crashes>>

(* SleepAll: of an exported pool all disks; else, after the flush, those   *)
(* reverifyIdle finds at rest, which a running VM's are not.               *)
SpinDown(p) ==
  /\ pc[p] = "spinDown"
  /\ \/ /\ job[p].export \/ \A v \in VMsOn(job[p].pool) : vm[v] # "running"
        /\ standby' = standby \cup {job[p].pool} /\ End(p)
     \/ ~job[p].export /\ UNCHANGED standby /\ End(p)
     \/ "command" \in Faults /\ UNCHANGED standby /\ End(p)
  /\ UNCHANGED <<inWindow, imported, vm, late, record, crashes>>

-----------------------------------------------------------------------------
(* execWakePool; a failing IsImported counts as "not imported". *)
BeginWake(p, q, c) ==
  /\ AtRest(p)
  /\ job' = [job EXCEPT ![p] = Job(q, c)]
  /\ \/ q \in imported /\ Goto(p, "spinUp")
     \/ (q \notin imported \/ "list" \in Faults) /\ Goto(p, "import")
  /\ UNCHANGED <<inWindow, hostVars, record, todo, ids, seen, crashes>>

ImportSucceeds(p) ==
  /\ pc[p] = "import" /\ job[p].pool \notin imported
  /\ imported' = imported \cup {job[p].pool}
  /\ IF job[p].kind = "import" THEN End(p)
     ELSE Goto(p, "spinUp") /\ UNCHANGED <<job, todo, ids, seen>>
  /\ UNCHANGED <<inWindow, standby, vm, late, record, crashes>>

ImportFails(p) ==
  /\ pc[p] = "import"
  /\ \/ (job[p].pool \in imported \/ "import" \in Faults) /\ UNCHANGED late
     \/ /\ "timeout" \in Faults /\ job[p].pool \notin imported
        /\ late' = late \cup {<<"import", job[p].pool>>}
  /\ End(p)
  /\ UNCHANGED <<inWindow, imported, standby, vm, record, crashes>>

(* What was given up on is done after all, or never. *)
LateEffect ==
  /\ \E call \in late :
       /\ late' = late \ {call}
       /\ LET q == call[2]
          IN \/ call[1] = "import" /\ imported' = imported \cup {q}
             \/ call[1] = "export" /\ Exportable(q) /\ imported' = imported \ {q}
             \/ UNCHANGED imported
  /\ UNCHANGED <<inWindow, standby, vm, record, procVars, crashes>>

(* WakeAll; a failing disk is kept for the exit status only, and a pool    *)
(* whose disks are unknown is a warning.                                   *)
SpinUp(p) ==
  /\ pc[p] = "spinUp"
  /\ \/ job[p].pool \in imported /\ standby' = standby \ {job[p].pool}
     \/ (job[p].pool \notin imported \/ "command" \in Faults) /\ UNCHANGED standby
  /\ IF job[p].includeVM /\ VMMode # "off"
       THEN Goto(p, "recall") /\ UNCHANGED <<job, todo, ids, seen>>
       ELSE End(p)
  /\ UNCHANGED <<inWindow, imported, vm, late, record, crashes>>

(* vmWake: the recorded VMs or, without a record, all VMs of the pool;     *)
(* if those cannot be listed the wake ends there.                          *)
Recall(p) ==
  /\ pc[p] = "recall"
  /\ LET recorded == record[job[p].pool]
     IN \/ /\ \E listed \in Listings(job[p].pool) :
                todo' = [todo EXCEPT ![p] = IF recorded # {} THEN recorded ELSE listed]
           /\ Goto(p, "vmWake")
           /\ UNCHANGED <<job, ids, seen>>
        \/ /\ recorded = {} /\ "list" \in Faults
           /\ End(p)
  /\ UNCHANGED <<inWindow, hostVars, record, crashes>>

(* qm resume brings back what was suspended, qm start whatever is stopped. *)
Wakes(v) == vm[v] = "asleep" \/ (VMMode = "shutdown" /\ vm[v] = "stopped")

WakeVM(p, v) ==
  /\ pc[p] = "vmWake" /\ v \in todo[p]
  /\ todo' = [todo EXCEPT ![p] = @ \ {v}]
  /\ \/ Wakes(v) /\ PoolOf[v] \in imported /\ vm' = [vm EXCEPT ![v] = "running"]
     \/ /\ ~Wakes(v) \/ PoolOf[v] \notin imported \/ "wakevm" \in Faults
        /\ UNCHANGED vm
  /\ UNCHANGED <<inWindow, imported, standby, late, record, pc, job, ids, seen, overlapped, crashes>>

AllWoken(p) ==
  /\ pc[p] = "vmWake" /\ todo[p] = {} /\ Goto(p, "reload")
  /\ UNCHANGED <<inWindow, hostVars, record, job, todo, ids, seen, crashes>>

-----------------------------------------------------------------------------
Woken == [kind |-> "wake", export |-> FALSE, includeVM |-> VMMode # "off"]
Exported == [kind |-> "sleep", export |-> TRUE, includeVM |-> VMMode # "off"]

(* Wrong: the spun down disks are taken for an exported pool. *)
EnterWindowIfSpunDown(q) ==
  /\ q \in ExportPools /\ inWindow /\ q \in standby
  /\ BeginWake(Daemon, q, Woken)

(* handleExportSchedule, for one of its pools: a wake in the window, an    *)
(* export outside of it, and only where the pool is not there yet.         *)
EnterWindow(q) ==
  /\ q \in ExportPools /\ inWindow /\ q \notin imported
  /\ BeginWake(Daemon, q, Woken)

LeaveWindow(q) ==
  /\ q \in ExportPools /\ ~inWindow /\ q \in imported
  /\ BeginSleep(Daemon, q, Exported)

LeaveRefused(q) ==
  /\ q \in ExportPools /\ ~inWindow /\ q \in imported
  /\ RefuseSleep(Daemon, q, Exported)

(* A scheduled task, which the daemon runs itself between two ticks, or a  *)
(* one-shot command, a process beside it.                                  *)
RunCommand(p, q, c) ==
  \/ c.kind = "sleep" /\ (BeginSleep(p, q, c) \/ RefuseSleep(p, q, c))
  \/ c.kind = "wake" /\ BeginWake(p, q, c)
  \/ c.kind = "export" /\ RefuseExport(p, q)
  \/ BeginPoolCommand(p, q, c)

Step(p) ==
  \/ \E v \in VM : SleepVM(p, v) \/ WakeVM(p, v)
  \/ AllSlept(p) \/ LoadRecord(p) \/ SaveRecord(p)
  \/ ExportSucceeds(p) \/ ExportFails(p) \/ SpinDown(p)
  \/ ImportSucceeds(p) \/ ImportFails(p) \/ SpinUp(p)
  \/ Recall(p) \/ AllWoken(p) \/ ClearRecord(p)

(* The process dies; what it did stays done. *)
Crash(p) ==
  /\ crashes < MaxCrashes /\ pc[p] \in CrashPoints
  /\ crashes' = crashes + 1 /\ End(p)
  /\ UNCHANGED <<inWindow, hostVars, record>>

WindowTurns ==
  /\ inWindow' = ~inWindow
  /\ UNCHANGED <<hostVars, record, procVars, crashes>>

PoolNext ==
  \/ \E q \in Pool : EnterWindow(q) \/ LeaveWindow(q) \/ LeaveRefused(q)
  \/ \E q \in Pool, c \in Tasks : RunCommand(Daemon, q, c)
  \/ \E p \in Shell, q \in Pool, c \in Commands : RunCommand(p, q, c)
  \/ \E p \in Process : Step(p) \/ Crash(p)
  \/ LateEffect \/ WindowTurns

PoolSpec == PoolInit /\ [][PoolNext]_poolVars

(* The daemon is started again and comes round to every pool of the        *)
(* timetable, its calls return within their timeouts, the list of VMs is   *)
(* complete, and an export or import of such a pool that is tried again    *)
(* and again succeeds, at last and when nothing stands against it.         *)
PoolFairness ==
  /\ WF_poolVars(Step(Daemon))
  /\ \A q \in ExportPools :
       /\ SF_poolVars(EnterWindow(q))
       /\ SF_poolVars(LeaveWindow(q) /\ (VMMode # "off" => todo'[Daemon] = VMsOn(q)))
       /\ SF_poolVars(job[Daemon].pool = q /\ ImportSucceeds(Daemon))
       /\ SF_poolVars(job[Daemon].pool = q /\ ExportSucceeds(Daemon))

FairPools == PoolSpec /\ PoolFairness

-----------------------------------------------------------------------------
PoolTypeOK ==
  /\ inWindow \in BOOLEAN
  /\ imported \subseteq Pool /\ standby \subseteq Pool
  /\ vm \in [VM -> {"running", "asleep", "stopped"}]
  /\ late \subseteq {"export", "import"} \X Pool /\ overlapped \in BOOLEAN
  /\ record \in [Pool -> SUBSET VM] /\ \A q \in Pool : record[q] \subseteq VMsOn(q)
  /\ pc \in [Process -> {"idle", "gone"} \cup SleepSteps \cup WakeSteps]
  /\ job \in [Process -> [pool : Pool \cup {BootPool}, kind : {"sleep", "wake", "export", "import"},
                          export : BOOLEAN, includeVM : BOOLEAN]]
  /\ todo \in [Process -> SUBSET VM] /\ ids \in [Process -> SUBSET VM]
  /\ seen \in [Process -> [Pool -> SUBSET VM]]
  /\ crashes \in 0 .. MaxCrashes

Waking(q) == \E p \in Process : job[p].pool = q /\ pc[p] \in {"vmWake", "reload", "clear"}

(* vmstate.json is honest: as long as no two processes have handled VMs at *)
(* once, which the unlocked file does not survive, a recorded VM is asleep *)
(* by our doing until the wake that is to take it out of the record, over  *)
(* failed exports, late effects, partial lists, deaths and commands that   *)
(* run beside the daemon.                                                  *)
RecordedAreAsleep ==
  ~overlapped => \A q \in Pool : \A v \in record[q] : vm[v] = "asleep" \/ Waking(q)

(* The record, read and written back as a whole by several processes, is   *)
(* the one VMRecord promises: the one process that handles VMs replaces    *)
(* the entry of its own pool by VMs that do sleep, wakes no other VM of a  *)
(* pool than the recorded ones, if there are any, and leaves the entry     *)
(* only when it is through.                                                *)
Wakers == {q \in Pool : Waking(q)}
Recorded == INSTANCE VMRecord WITH
  state <- vm, noted <- record, waking <- Wakers, shared <- overlapped
ImplementsRecord == Recorded!RecordSpec

(* A wake takes the record away only after the last VM of the pool it put  *)
(* to sleep is up again, so that none is forgotten; the record alone does  *)
(* not tell, for a sleep that is tried again finds its VMs asleep and      *)
(* records none.                                                           *)
ClearedWhenAllAwake ==
  \A p \in Process : pc[p] = "clear" => \A v \in VMsOn(job[p].pool) : vm[v] # "asleep"

(* handleExportSchedule forces a pool to the state the timetable wants:     *)
(* while the timetable stays where it is, a pool of the timetable is        *)
(* brought there again and again, whatever replications, failures, late     *)
(* effects, commands beside the daemon and a crash of it undo.              *)
TimetableIsFollowed ==
  \A q \in ExportPools :
    /\ <>[]inWindow => []<>(q \in imported)
    /\ <>[]~inWindow => []<>(q \notin imported)

(* What the timetable put to sleep it brings back when the window comes to *)
(* stay: no VM of its pools is left asleep.                                *)
VMsComeBack == <>[]inWindow => <>[](\A v \in VM : vm[v] # "asleep")
=============================================================================
