----------------------------- MODULE PoolProofs -----------------------------
(***************************************************************************)
(* Proofs about vmstate.json, for any number of pools, VMs and commands    *)
(* beside the daemon, any faults, and crashes before the VMs are woken.    *)
(***************************************************************************)
EXTENDS PoolOps, TLAPS

Places == {"idle", "gone"} \cup SleepSteps \cup WakeSteps
Jobs == [pool : Pool \cup {BootPool}, kind : {"sleep", "wake", "export", "import"},
         export : BOOLEAN, includeVM : BOOLEAN]
Filling == {"vmSleep", "load", "save"}
Emptying == {"vmWake", "reload", "clear"}

(* What a process holds is about the pool it was called for. *)
Own(p) ==
  /\ pc[p] \notin {"idle", "gone"} => job[p].pool \in Pool
  /\ pc[p] \in {"idle", "gone"} => todo[p] = {}
  /\ pc[p] \in {"vmSleep", "vmWake"} => todo[p] \subseteq VMsOn(job[p].pool)
  /\ ids[p] # {} => pc[p] \in Filling /\ ids[p] \subseteq VMsOn(job[p].pool)
  /\ \A q \in Pool : seen[p][q] \subseteq VMsOn(q)

(* One process at a time handles VMs and the record ... *)
Solo == \A p, r \in Process : pc[p] \in VMSteps /\ pc[r] \in VMSteps => p = r

(* ... so what it has put to sleep is still asleep when it is recorded,    *)
(* and what it has read is still the record when it is written back.       *)
Current(p) ==
  /\ \A v \in ids[p] : vm[v] = "asleep"
  /\ pc[p] \in {"save", "clear"} => seen[p] = record

Honest == \A q \in Pool : \A v \in record[q] : vm[v] = "asleep" \/ Waking(q)

PoolInv ==
  /\ PoolTypeOK
  /\ \A p \in Process : Own(p)
  /\ ~overlapped => Solo /\ (\A p \in Process : Current(p)) /\ Honest

-----------------------------------------------------------------------------
ProcTypes ==
  /\ pc \in [Process -> Places] /\ job \in [Process -> Jobs]
  /\ todo \in [Process -> SUBSET VM] /\ ids \in [Process -> SUBSET VM]
  /\ seen \in [Process -> [Pool -> SUBSET VM]]
  /\ overlapped \in BOOLEAN

HostTypes ==
  /\ inWindow \in BOOLEAN
  /\ imported \subseteq Pool /\ standby \subseteq Pool
  /\ vm \in [VM -> {"running", "asleep", "stopped"}]
  /\ late \subseteq {"export", "import"} \X Pool
  /\ record \in [Pool -> SUBSET VM] /\ \A q \in Pool : record[q] \subseteq VMsOn(q)
  /\ crashes \in 0 .. MaxCrashes

LEMMA TypesSplit == PoolTypeOK <=> ProcTypes /\ HostTypes
BY DEF PoolTypeOK, ProcTypes, HostTypes, Places, Jobs

LEMMA JobType ==
  ASSUME NEW q \in Pool, NEW c \in Command
  PROVE  Job(q, c) \in Jobs /\ Job(q, c).pool = q
BY DEF Job, Jobs, Command

LEMMA ListingsAreOnPool ==
  ASSUME NEW q, NEW listed \in Listings(q)
  PROVE  listed \subseteq VMsOn(q) /\ VMsOn(q) \subseteq VM
BY DEF Listings, VMsOn

(* Nobody but p moves; entering a step on VMs beside another is recorded.  *)
OnlyMoves(p) ==
  /\ \A r \in Process \ {p} :
       /\ pc'[r] = pc[r] /\ job'[r] = job[r] /\ todo'[r] = todo[r]
       /\ ids'[r] = ids[r] /\ seen'[r] = seen[r]
  /\ overlapped' = (overlapped \/ (pc'[p] \in VMSteps /\ \E r \in Process \ {p} : pc[r] \in VMSteps))

LEMMA GotoMoves ==
  ASSUME ProcTypes, NEW p \in Process, NEW step \in Places, Goto(p, step)
  PROVE  /\ pc'[p] = step /\ pc' \in [Process -> Places] /\ overlapped' \in BOOLEAN
         /\ \A r \in Process \ {p} : pc'[r] = pc[r]
         /\ overlapped' = (overlapped \/ (pc'[p] \in VMSteps /\ \E r \in Process \ {p} : pc[r] \in VMSteps))
BY DEF ProcTypes, Goto

(* A process that ends holds nothing any more. *)
LEMMA EndMoves ==
  ASSUME ProcTypes, NEW p \in Process, End(p)
  PROVE  /\ ProcTypes' /\ OnlyMoves(p) /\ Own(p)'
         /\ pc'[p] \in {"idle", "gone"} /\ ids'[p] = {}
<1>1. NoJob \in Jobs /\ Empty \in [Pool -> SUBSET VM]
  BY DEF NoJob, Jobs, Empty
<1>2. /\ pc'[p] \in {"idle", "gone"} /\ todo'[p] = {} /\ ids'[p] = {} /\ seen'[p] = Empty
      /\ overlapped' = overlapped
  BY DEF End, ProcTypes
<1>3. ProcTypes'
  BY <1>1 DEF End, ProcTypes, Places
<1>4. OnlyMoves(p)
  BY <1>2 DEF End, ProcTypes, OnlyMoves, VMSteps
<1>5. Own(p)'
  BY <1>2 DEF Own, Empty
<1> QED
  BY <1>2, <1>3, <1>4, <1>5

(* A step that leaves the VMs and the record alone keeps the invariant if  *)
(* it gathers nothing unseen and does not end a wake.                      *)
LEMMA MoveKeeps ==
  ASSUME PoolInv, NEW p \in Process, HostTypes', ProcTypes', OnlyMoves(p), Own(p)',
         UNCHANGED <<vm, record>>,
         ids'[p] \subseteq ids[p],
         pc'[p] \in {"save", "clear"} => seen'[p] = record,
         pc[p] \in Emptying => pc'[p] \in Emptying /\ job'[p] = job[p]
  PROVE  PoolInv'
<1>1. PoolTypeOK'
  BY DEF PoolTypeOK, ProcTypes, HostTypes, Places, Jobs
<1>2. \A r \in Process : Own(r)'
  BY DEF PoolInv, OnlyMoves, Own
<1>3. ASSUME ~overlapped'
      PROVE  Solo' /\ (\A r \in Process : Current(r)') /\ Honest'
  <2>1. ~overlapped /\ Solo /\ (\A r \in Process : Current(r)) /\ Honest
    BY <1>3 DEF OnlyMoves, PoolInv
  <2>2. Solo'
    BY <1>3, <2>1 DEF OnlyMoves, Solo
  <2>3. \A r \in Process : Current(r)'
    BY <2>1 DEF OnlyMoves, Current
  <2>4. \A q \in Pool : Waking(q) => Waking(q)'
    BY DEF Waking, OnlyMoves, Emptying
  <2> QED
    BY <2>1, <2>2, <2>3, <2>4 DEF Honest
<1> QED
  BY <1>1, <1>2, <1>3 DEF PoolInv

-----------------------------------------------------------------------------
LEMMA PoolStarts == PoolInit => PoolInv
<1> SUFFICES ASSUME PoolInit PROVE PoolInv
  OBVIOUS
<1>1. NoJob \in Jobs /\ Empty \in [Pool -> SUBSET VM]
  BY DEF NoJob, Jobs, Empty
<1>2. ProcTypes
  BY <1>1 DEF PoolInit, ProcTypes, Places
<1>5. HostTypes
  <2>1. vm \in [VM -> {"running", "asleep", "stopped"}]
    BY DEF PoolInit
  <2>2. record \in [Pool -> SUBSET VM] /\ \A q \in Pool : record[q] \subseteq VMsOn(q)
    BY DEF PoolInit, Empty
  <2> QED
    BY <2>1, <2>2, PoolOpsAssumption DEF PoolInit, HostTypes
<1>3. \A p \in Process : Own(p) /\ Current(p)
  BY DEF PoolInit, Own, Current, Empty
<1>4. Solo /\ Honest
  BY DEF PoolInit, Solo, Honest, VMSteps, Empty
<1> QED
  BY <1>2, <1>3, <1>4, <1>5, TypesSplit DEF PoolInv

-----------------------------------------------------------------------------
LEMMA EndKeeps ==
  ASSUME PoolInv, NEW p \in Process, End(p), HostTypes', UNCHANGED <<vm, record>>,
         pc[p] \notin Emptying
  PROVE  PoolInv'
<1>1. ProcTypes
  BY TypesSplit DEF PoolInv
<1>2. /\ ProcTypes' /\ OnlyMoves(p) /\ Own(p)'
      /\ pc'[p] \in {"idle", "gone"} /\ ids'[p] = {}
  BY <1>1, EndMoves
<1> QED
  BY <1>2, MoveKeeps

(* A step that goes on with its call, with new locals or the old ones. *)
LEMMA GoOnKeeps ==
  ASSUME PoolInv, NEW p \in Process, NEW step \in Places, Goto(p, step), HostTypes',
         UNCHANGED <<vm, record, job, todo, ids, seen>>,
         pc[p] \notin {"idle", "gone"}, step \notin {"idle", "gone", "vmSleep", "vmWake", "save", "clear"},
         ids[p] # {} => step \in Filling,
         pc[p] \in Emptying => step \in Emptying
  PROVE  PoolInv'
<1>1. ProcTypes
  BY TypesSplit DEF PoolInv
<1>2. /\ pc'[p] = step /\ pc' \in [Process -> Places] /\ overlapped' \in BOOLEAN
      /\ OnlyMoves(p)
  BY <1>1, GotoMoves DEF OnlyMoves
<1>3. ProcTypes'
  BY <1>1, <1>2 DEF ProcTypes
<1>4. Own(p)'
  BY <1>2 DEF PoolInv, Own
<1> QED
  BY <1>2, <1>3, <1>4, MoveKeeps

LEMMA RestingHoldNothing ==
  ASSUME PoolInv, NEW p \in Process, AtRest(p)
  PROVE  ids[p] = {} /\ pc[p] \notin Emptying
BY DEF PoolInv, Own, AtRest, Filling, Emptying

(* A call begins. *)
LEMMA BeginKeeps ==
  ASSUME PoolInv, NEW p \in Process, NEW q \in Pool, NEW c \in Command, NEW step \in Places,
         AtRest(p), Goto(p, step), job' = [job EXCEPT ![p] = Job(q, c)],
         UNCHANGED <<inWindow, hostVars, record, ids, seen, crashes>>,
         step \notin {"idle", "gone", "save", "clear", "vmWake"},
         \/ UNCHANGED todo
         \/ step = "vmSleep" /\ \E listed \in Listings(q) : todo' = [todo EXCEPT ![p] = listed]
  PROVE  PoolInv'
<1>1. ProcTypes /\ HostTypes
  BY TypesSplit DEF PoolInv
<1>2. /\ pc'[p] = step /\ pc' \in [Process -> Places] /\ overlapped' \in BOOLEAN
      /\ \A r \in Process \ {p} : pc'[r] = pc[r]
      /\ overlapped' = (overlapped \/ (pc'[p] \in VMSteps /\ \E r \in Process \ {p} : pc[r] \in VMSteps))
  BY <1>1, GotoMoves
<1>3. /\ Job(q, c) \in Jobs /\ Job(q, c).pool = q
  BY JobType
<1>4. /\ todo' \in [Process -> SUBSET VM] /\ \A r \in Process \ {p} : todo'[r] = todo[r]
      /\ todo'[p] \subseteq VMsOn(q)
  <2>1. todo[p] = {}
    BY DEF PoolInv, Own, AtRest
  <2> QED
    BY <1>1, <2>1, ListingsAreOnPool DEF ProcTypes
<1>5. /\ job' \in [Process -> Jobs] /\ job'[p].pool = q
      /\ \A r \in Process \ {p} : job'[r] = job[r]
  BY <1>1, <1>3 DEF ProcTypes
<1>6. ProcTypes' /\ OnlyMoves(p)
  BY <1>1, <1>2, <1>4, <1>5 DEF ProcTypes, OnlyMoves
<1>7. HostTypes' /\ UNCHANGED <<vm, record>>
  BY <1>1 DEF HostTypes, hostVars
<1>8. ids'[p] = {} /\ ids' = ids /\ seen' = seen /\ pc[p] \notin Emptying
  BY RestingHoldNothing
<1>9. Own(p)'
  BY <1>2, <1>4, <1>5, <1>8 DEF PoolInv, Own
<1> QED
  BY <1>2, <1>6, <1>7, <1>8, <1>9, MoveKeeps

-----------------------------------------------------------------------------
(* One lemma per action, the steps that end a call by EndKeeps, those that *)
(* begin one by BeginKeeps and those that go on by GoOnKeeps.              *)
LEMMA SameHost ==
  ASSUME HostTypes, UNCHANGED <<inWindow, hostVars, record, crashes>>
  PROVE  HostTypes' /\ UNCHANGED <<vm, record>>
BY DEF HostTypes, hostVars

LEMMA Parts == PoolInv => ProcTypes /\ HostTypes /\ \A p \in Process : Own(p)
BY TypesSplit DEF PoolInv

LEMMA RefusalKeeps ==
  ASSUME PoolInv, NEW p \in Process, NEW q \in Pool, NEW c \in Command,
         RefuseSleep(p, q, c) \/ RefuseExport(p, q)
  PROVE  PoolInv'
<1>1. AtRest(p) /\ End(p) /\ UNCHANGED <<inWindow, hostVars, record, crashes>>
  BY DEF RefuseSleep, RefuseExport
<1>2. HostTypes' /\ UNCHANGED <<vm, record>>
  BY <1>1, Parts, SameHost
<1> QED
  BY <1>1, <1>2, RestingHoldNothing, EndKeeps

LEMMA BeginSleepKeeps ==
  ASSUME PoolInv, NEW p \in Process, NEW q \in Pool, NEW c \in Command, BeginSleep(p, q, c)
  PROVE  PoolInv'
<1> DEFINE step == IF c.includeVM THEN "vmSleep" ELSE IF c.export THEN "export" ELSE "spinDown"
<1>1. /\ AtRest(p) /\ Goto(p, step) /\ job' = [job EXCEPT ![p] = Job(q, c)]
      /\ UNCHANGED <<inWindow, hostVars, record, ids, seen, crashes>>
  BY DEF BeginSleep
<1>2. \/ UNCHANGED todo
      \/ step = "vmSleep" /\ \E listed \in Listings(q) : todo' = [todo EXCEPT ![p] = listed]
  BY DEF BeginSleep
<1>3. step \in Places /\ step \notin {"idle", "gone", "save", "clear", "vmWake"}
  BY DEF Places, SleepSteps, WakeSteps
<1> HIDE DEF step
<1> QED
  BY <1>1, <1>2, <1>3, BeginKeeps

LEMMA BeginPoolCommandKeeps ==
  ASSUME PoolInv, NEW p \in Process, NEW q \in Pool, NEW c \in Command, BeginPoolCommand(p, q, c)
  PROVE  PoolInv'
<1>1. /\ AtRest(p) /\ Goto(p, c.kind) /\ job' = [job EXCEPT ![p] = Job(q, c)]
      /\ UNCHANGED <<inWindow, hostVars, record, todo, ids, seen, crashes>>
      /\ c.kind \in {"import", "export"}
  BY DEF BeginPoolCommand
<1>2. c.kind \in Places
  BY <1>1 DEF Places, SleepSteps, WakeSteps
<1> QED
  BY <1>1, <1>2, BeginKeeps

LEMMA BeginWakeKeeps ==
  ASSUME PoolInv, NEW p \in Process, NEW q \in Pool, NEW c \in Command, BeginWake(p, q, c)
  PROVE  PoolInv'
<1>1. PICK step \in {"import", "spinUp"} : Goto(p, step)
  BY DEF BeginWake
<1>2. /\ AtRest(p) /\ job' = [job EXCEPT ![p] = Job(q, c)]
      /\ UNCHANGED <<inWindow, hostVars, record, todo, ids, seen, crashes>>
  BY DEF BeginWake
<1>3. step \in Places
  BY DEF Places, WakeSteps
<1> QED
  BY <1>1, <1>2, <1>3, BeginKeeps

LEMMA AllSleptKeeps ==
  ASSUME PoolInv, NEW p \in Process, AllSlept(p)
  PROVE  PoolInv'
<1>1. HostTypes' /\ UNCHANGED <<vm, record>>
  BY Parts, SameHost DEF AllSlept
<1>2. "load" \in Places
  BY DEF Places, SleepSteps
<1> QED
  BY <1>1, <1>2, GoOnKeeps DEF AllSlept, Filling, Emptying

LEMMA AllWokenKeeps ==
  ASSUME PoolInv, NEW p \in Process, AllWoken(p)
  PROVE  PoolInv'
<1>1. HostTypes' /\ UNCHANGED <<vm, record>>
  BY Parts, SameHost DEF AllWoken
<1>2. "reload" \in Places
  BY DEF Places, WakeSteps
<1>3. ids[p] = {}
  BY DEF AllWoken, PoolInv, Own, Filling
<1> QED
  BY <1>1, <1>2, <1>3, GoOnKeeps DEF AllWoken, Emptying

LEMMA LoadRecordKeeps ==
  ASSUME PoolInv, NEW p \in Process, LoadRecord(p)
  PROVE  PoolInv'
<1> DEFINE step == IF pc[p] = "load" THEN "save" ELSE "clear"
<1>1. /\ ProcTypes /\ HostTypes /\ Own(p)
      /\ HostTypes' /\ UNCHANGED <<vm, record, job, todo, ids>>
  BY Parts, SameHost DEF LoadRecord
<1>2. Goto(p, step) /\ step \in Places /\ seen' = [seen EXCEPT ![p] = record]
  BY DEF LoadRecord, Places, SleepSteps, WakeSteps
<1>3. /\ pc'[p] = step /\ pc' \in [Process -> Places] /\ overlapped' \in BOOLEAN
      /\ \A r \in Process \ {p} : pc'[r] = pc[r]
      /\ overlapped' = (overlapped \/ (pc'[p] \in VMSteps /\ \E r \in Process \ {p} : pc[r] \in VMSteps))
  BY <1>1, <1>2, GotoMoves
<1>4. /\ seen' \in [Process -> [Pool -> SUBSET VM]] /\ seen'[p] = record
      /\ \A r \in Process \ {p} : seen'[r] = seen[r]
  BY <1>1, <1>2 DEF ProcTypes, HostTypes
<1>5. ProcTypes' /\ OnlyMoves(p)
  BY <1>1, <1>3, <1>4 DEF ProcTypes, OnlyMoves
<1>6. Own(p)'
  BY <1>1, <1>3, <1>4 DEF LoadRecord, Own, HostTypes, Filling
<1>7. pc[p] \in Emptying => pc'[p] \in Emptying
  BY <1>3 DEF LoadRecord, Emptying
<1> QED
  BY <1>1, <1>4, <1>5, <1>6, <1>7, MoveKeeps

LEMMA ExportKeeps ==
  ASSUME PoolInv, NEW p \in Process, ExportSucceeds(p) \/ ExportFails(p)
  PROVE  PoolInv'
<1>1. pc[p] = "export" /\ HostTypes /\ Own(p) /\ job[p].pool \in Pool
  BY Parts DEF ExportSucceeds, ExportFails, Own
<1>2. UNCHANGED <<inWindow, standby, vm, record, crashes>>
  BY DEF ExportSucceeds, ExportFails
<1>3. imported' \subseteq Pool
  BY <1>1 DEF ExportSucceeds, ExportFails, HostTypes
<1>4. late' \subseteq {"export", "import"} \X Pool
  BY <1>1 DEF ExportSucceeds, ExportFails, HostTypes
<1>5. HostTypes' /\ UNCHANGED <<vm, record>>
  BY <1>1, <1>2, <1>3, <1>4 DEF HostTypes
<1>6. "spinDown" \in Places /\ ids[p] = {}
  BY <1>1 DEF Places, SleepSteps, Own, Filling
<1>7. \/ End(p)
      \/ Goto(p, "spinDown") /\ UNCHANGED <<job, todo, ids, seen>>
  BY DEF ExportSucceeds, ExportFails
<1>8. CASE End(p)
  BY <1>1, <1>5, <1>8, EndKeeps DEF Emptying
<1>9. CASE Goto(p, "spinDown") /\ UNCHANGED <<job, todo, ids, seen>>
  BY <1>1, <1>5, <1>6, <1>9, GoOnKeeps DEF Emptying
<1> QED
  BY <1>7, <1>8, <1>9

LEMMA ImportKeeps ==
  ASSUME PoolInv, NEW p \in Process, ImportSucceeds(p) \/ ImportFails(p)
  PROVE  PoolInv'
<1>1. pc[p] = "import" /\ HostTypes /\ Own(p) /\ job[p].pool \in Pool
  BY Parts DEF ImportSucceeds, ImportFails, Own
<1>2. UNCHANGED <<inWindow, standby, vm, record, crashes>>
  BY DEF ImportSucceeds, ImportFails
<1>3. imported' \subseteq Pool
  BY <1>1 DEF ImportSucceeds, ImportFails, HostTypes
<1>4. late' \subseteq {"export", "import"} \X Pool
  BY <1>1 DEF ImportSucceeds, ImportFails, HostTypes
<1>5. HostTypes' /\ UNCHANGED <<vm, record>>
  BY <1>1, <1>2, <1>3, <1>4 DEF HostTypes
<1>6. "spinUp" \in Places /\ ids[p] = {}
  BY <1>1 DEF Places, WakeSteps, Own, Filling
<1>7. \/ End(p)
      \/ Goto(p, "spinUp") /\ UNCHANGED <<job, todo, ids, seen>>
  BY DEF ImportSucceeds, ImportFails
<1>8. CASE End(p)
  BY <1>1, <1>5, <1>8, EndKeeps DEF Emptying
<1>9. CASE Goto(p, "spinUp") /\ UNCHANGED <<job, todo, ids, seen>>
  BY <1>1, <1>5, <1>6, <1>9, GoOnKeeps DEF Emptying
<1> QED
  BY <1>7, <1>8, <1>9

LEMMA SpinDownKeeps ==
  ASSUME PoolInv, NEW p \in Process, SpinDown(p)
  PROVE  PoolInv'
<1>1. /\ pc[p] = "spinDown" /\ HostTypes /\ Own(p) /\ job[p].pool \in Pool
      /\ End(p) /\ UNCHANGED <<inWindow, imported, vm, late, record, crashes>>
  BY Parts DEF SpinDown, Own
<1>2. standby' \subseteq Pool
  BY <1>1 DEF SpinDown, HostTypes
<1>3. HostTypes' /\ UNCHANGED <<vm, record>>
  BY <1>1, <1>2 DEF HostTypes
<1> QED
  BY <1>1, <1>3, EndKeeps DEF Emptying

LEMMA SpinUpKeeps ==
  ASSUME PoolInv, NEW p \in Process, SpinUp(p)
  PROVE  PoolInv'
<1>1. /\ pc[p] = "spinUp" /\ HostTypes /\ Own(p)
      /\ UNCHANGED <<inWindow, imported, vm, late, record, crashes>>
  BY Parts DEF SpinUp
<1>2. standby' \subseteq Pool
  BY <1>1 DEF SpinUp, HostTypes
<1>3. HostTypes' /\ UNCHANGED <<vm, record>>
  BY <1>1, <1>2 DEF HostTypes
<1>4. "recall" \in Places /\ ids[p] = {}
  BY <1>1 DEF Places, WakeSteps, Own, Filling
<1>5. \/ End(p)
      \/ Goto(p, "recall") /\ UNCHANGED <<job, todo, ids, seen>>
  BY DEF SpinUp
<1>6. CASE End(p)
  BY <1>1, <1>3, <1>6, EndKeeps DEF Emptying
<1>7. CASE Goto(p, "recall") /\ UNCHANGED <<job, todo, ids, seen>>
  BY <1>1, <1>3, <1>4, <1>7, GoOnKeeps DEF Emptying
<1> QED
  BY <1>5, <1>6, <1>7

(* vmWake takes up the VMs of its own pool: the record holds no others.    *)
LEMMA RecallKeeps ==
  ASSUME PoolInv, NEW p \in Process, Recall(p)
  PROVE  PoolInv'
<1>1. /\ pc[p] = "recall" /\ ProcTypes /\ HostTypes /\ Own(p) /\ job[p].pool \in Pool
      /\ HostTypes' /\ UNCHANGED <<vm, record>>
  BY Parts, SameHost DEF Recall, Own
<1>2. CASE End(p)
  BY <1>1, <1>2, EndKeeps DEF Emptying
<1>3. ASSUME Goto(p, "vmWake"), UNCHANGED <<job, ids, seen>>,
             NEW listed \in Listings(job[p].pool),
             todo' = [todo EXCEPT ![p] = IF record[job[p].pool] # {} THEN record[job[p].pool] ELSE listed]
      PROVE  PoolInv'
  <2>1. "vmWake" \in Places
    BY DEF Places, WakeSteps
  <2>2. /\ pc'[p] = "vmWake" /\ pc' \in [Process -> Places] /\ overlapped' \in BOOLEAN
        /\ \A r \in Process \ {p} : pc'[r] = pc[r]
        /\ overlapped' = (overlapped \/ (pc'[p] \in VMSteps /\ \E r \in Process \ {p} : pc[r] \in VMSteps))
    BY <1>1, <1>3, <2>1, GotoMoves
  <2>3. /\ todo' \in [Process -> SUBSET VM] /\ todo'[p] \subseteq VMsOn(job[p].pool)
        /\ \A r \in Process \ {p} : todo'[r] = todo[r]
    BY <1>1, <1>3, ListingsAreOnPool DEF ProcTypes, HostTypes
  <2>4. ProcTypes' /\ OnlyMoves(p)
    BY <1>1, <1>3, <2>2, <2>3 DEF ProcTypes, OnlyMoves
  <2>5. Own(p)'
    BY <1>1, <1>3, <2>2, <2>3 DEF Own, Filling, VMsOn
  <2> QED
    BY <1>1, <1>3, <2>2, <2>4, <2>5, MoveKeeps DEF Emptying
<1> QED
  BY <1>2, <1>3 DEF Recall

LEMMA CrashKeeps ==
  ASSUME PoolInv, NEW p \in Process, CrashPoints \cap Emptying = {}, Crash(p)
  PROVE  PoolInv'
<1>1. /\ pc[p] \notin Emptying /\ End(p) /\ HostTypes
      /\ UNCHANGED <<inWindow, hostVars, record>>
      /\ crashes' = crashes + 1 /\ crashes < MaxCrashes
  BY Parts DEF Crash
<1>2. crashes' \in 0 .. MaxCrashes
  BY <1>1, PoolOpsAssumption DEF HostTypes
<1>3. HostTypes' /\ UNCHANGED <<vm, record>>
  BY <1>1, <1>2 DEF HostTypes, hostVars
<1> QED
  BY <1>1, <1>3, EndKeeps

(* What changes around the processes leaves VMs and record alone. *)
LEMMA HostKeeps ==
  ASSUME PoolInv, HostTypes', UNCHANGED <<vm, record, procVars>>
  PROVE  PoolInv'
<1>1. /\ vm' = vm /\ record' = record /\ pc' = pc /\ job' = job /\ todo' = todo
      /\ ids' = ids /\ seen' = seen /\ overlapped' = overlapped
  BY DEF procVars
<1>2. PoolTypeOK'
  <2>1. ProcTypes'
    BY <1>1, Parts DEF ProcTypes
  <2> QED
    BY <2>1 DEF PoolTypeOK, ProcTypes, HostTypes, Places, Jobs
<1>3. (\A p \in Process : Own(p))'
  BY <1>1 DEF PoolInv, Own
<1>4. (~overlapped => Solo /\ (\A p \in Process : Current(p)) /\ Honest)'
  BY <1>1 DEF PoolInv, Solo, Current, Honest, Waking
<1> QED
  BY <1>2, <1>3, <1>4 DEF PoolInv

LEMMA SurroundingsKeep ==
  ASSUME PoolInv, LateEffect \/ WindowTurns \/ UNCHANGED poolVars
  PROVE  PoolInv'
<1>1. HostTypes
  BY Parts
<1>2. CASE LateEffect
  <2>1. imported' \subseteq Pool /\ late' \subseteq {"export", "import"} \X Pool
    <3>1. PICK call \in late :
            /\ late' = late \ {call}
            /\ imported' \in {imported \cup {call[2]}, imported \ {call[2]}, imported}
      BY <1>2 DEF LateEffect
    <3> QED
      BY <1>1, <3>1 DEF HostTypes
  <2>2. UNCHANGED <<inWindow, standby, vm, record, procVars, crashes>>
    BY <1>2 DEF LateEffect
  <2>3. HostTypes'
    BY <1>1, <2>1, <2>2 DEF HostTypes
  <2> QED
    BY <2>2, <2>3, HostKeeps
<1>3. CASE WindowTurns
  <2>1. UNCHANGED <<hostVars, record, procVars, crashes>> /\ inWindow' = ~inWindow
    BY <1>3 DEF WindowTurns
  <2>2. HostTypes' /\ UNCHANGED <<vm, record>>
    BY <1>1, <2>1 DEF HostTypes, hostVars
  <2> QED
    BY <2>1, <2>2, HostKeeps
<1>4. CASE UNCHANGED poolVars
  <2>1. UNCHANGED <<inWindow, hostVars, record, crashes, procVars>>
    BY <1>4 DEF poolVars
  <2>2. HostTypes' /\ UNCHANGED <<vm, record>>
    BY <1>1, <2>1, SameHost
  <2> QED
    BY <2>1, <2>2, HostKeeps
<1> QED
  BY <1>2, <1>3, <1>4

(* Putting one VM to sleep wakes no other: what is gathered or recorded as *)
(* asleep stays so.                                                        *)
LEMMA SleepVMKeeps ==
  ASSUME PoolInv, NEW p \in Process, NEW v \in VM, SleepVM(p, v)
  PROVE  PoolInv'
<1>1. ProcTypes /\ HostTypes /\ \A r \in Process : Own(r)
  BY Parts
<1>2. /\ pc[p] = "vmSleep" /\ v \in todo[p] /\ todo' = [todo EXCEPT ![p] = @ \ {v}]
      /\ UNCHANGED <<inWindow, imported, standby, late, record, pc, job, seen, overlapped, crashes>>
      /\ \/ vm' = [vm EXCEPT ![v] = "asleep"] /\ ids' = [ids EXCEPT ![p] = @ \cup {v}]
         \/ UNCHANGED <<vm, ids>>
  BY DEF SleepVM
<1>3. /\ vm' \in [VM -> {"running", "asleep", "stopped"}]
      /\ \A w \in VM : vm[w] = "asleep" => vm'[w] = "asleep"
      /\ vm'[v] = "asleep" \/ ids' = ids
  BY <1>1, <1>2 DEF HostTypes
<1>4. v \in VMsOn(job[p].pool) /\ todo[p] \subseteq VMsOn(job[p].pool)
  BY <1>1, <1>2 DEF Own
<1>5. /\ ids' \in [Process -> SUBSET VM]
      /\ \A r \in Process \ {p} : ids'[r] = ids[r]
      /\ ids'[p] \subseteq ids[p] \cup {v}
      /\ todo' \in [Process -> SUBSET VM]
      /\ \A r \in Process : todo'[r] \subseteq todo[r]
  BY <1>1, <1>2 DEF ProcTypes
<1>6. PoolTypeOK'
  <2>1. ProcTypes' /\ HostTypes'
    BY <1>1, <1>2, <1>3, <1>5 DEF ProcTypes, HostTypes
  <2> QED
    BY <2>1 DEF PoolTypeOK, ProcTypes, HostTypes, Places, Jobs
<1>7. \A r \in Process : Own(r)'
  <2>1. ids'[p] \subseteq VMsOn(job[p].pool)
    BY <1>1, <1>2, <1>4, <1>5 DEF Own
  <2> QED
    BY <1>1, <1>2, <1>4, <1>5, <2>1 DEF Own, Filling
<1>8. ASSUME ~overlapped'
      PROVE  Solo' /\ (\A r \in Process : Current(r)') /\ Honest'
  <2>1. Solo /\ (\A r \in Process : Current(r)) /\ Honest
    BY <1>2, <1>8 DEF PoolInv
  <2>2. Solo'
    BY <1>2, <2>1 DEF Solo
  <2>3. \A r \in Process : Current(r)'
    <3> SUFFICES ASSUME NEW r \in Process PROVE Current(r)'
      OBVIOUS
    <3>1. \A w \in ids'[r] : vm'[w] = "asleep"
      BY <1>1, <1>3, <1>5, <2>1 DEF Current, ProcTypes
    <3> QED
      BY <1>2, <2>1, <3>1 DEF Current
  <2>4. Honest'
    BY <1>1, <1>2, <1>3, <2>1 DEF Honest, Waking, HostTypes
  <2> QED
    BY <2>2, <2>3, <2>4
<1> QED
  BY <1>6, <1>7, <1>8 DEF PoolInv

(* A VM is woken by the one process that handles VMs, of the pool it wakes. *)
LEMMA WakeVMKeeps ==
  ASSUME PoolInv, NEW p \in Process, NEW v \in VM, WakeVM(p, v)
  PROVE  PoolInv'
<1>1. ProcTypes /\ HostTypes /\ \A r \in Process : Own(r)
  BY Parts
<1>2. /\ pc[p] = "vmWake" /\ v \in todo[p] /\ todo' = [todo EXCEPT ![p] = @ \ {v}]
      /\ UNCHANGED <<inWindow, imported, standby, late, record, pc, job, ids, seen, overlapped, crashes>>
      /\ vm' = [vm EXCEPT ![v] = "running"] \/ UNCHANGED vm
  BY DEF WakeVM
<1>3. /\ vm' \in [VM -> {"running", "asleep", "stopped"}]
      /\ \A w \in VM \ {v} : vm'[w] = vm[w]
  BY <1>1, <1>2 DEF HostTypes
<1>4. v \in VMsOn(job[p].pool) /\ job[p].pool \in Pool
  BY <1>1, <1>2 DEF Own
<1>5. /\ todo' \in [Process -> SUBSET VM]
      /\ \A r \in Process : todo'[r] \subseteq todo[r]
  BY <1>1, <1>2 DEF ProcTypes
<1>6. PoolTypeOK'
  <2>1. ProcTypes' /\ HostTypes'
    BY <1>1, <1>2, <1>3, <1>5 DEF ProcTypes, HostTypes
  <2> QED
    BY <2>1 DEF PoolTypeOK, ProcTypes, HostTypes, Places, Jobs
<1>7. \A r \in Process : Own(r)'
  BY <1>1, <1>2, <1>5 DEF Own
<1>8. ASSUME ~overlapped'
      PROVE  Solo' /\ (\A r \in Process : Current(r)') /\ Honest'
  <2>1. Solo /\ (\A r \in Process : Current(r)) /\ Honest
    BY <1>2, <1>8 DEF PoolInv
  <2>2. Solo'
    BY <1>2, <2>1 DEF Solo
  <2>3. \A r \in Process : Current(r)'
    <3> SUFFICES ASSUME NEW r \in Process PROVE Current(r)'
      OBVIOUS
    <3>1. ids[r] = {}
      <4>1. SUFFICES ASSUME ids[r] # {} PROVE FALSE
        OBVIOUS
      <4>2. pc[r] \in Filling
        BY <1>1, <4>1 DEF Own
      <4> QED
        BY <1>2, <2>1, <4>2 DEF Solo, Filling, VMSteps
    <3> QED
      BY <1>2, <2>1, <3>1 DEF Current
  <2>4. Honest'
    <3> SUFFICES ASSUME NEW q \in Pool, NEW w \in record[q]
                 PROVE  vm'[w] = "asleep" \/ Waking(q)'
      BY <1>2 DEF Honest
    <3>1. w \in VMsOn(q) /\ w \in VM
      BY <1>1 DEF HostTypes
    <3>2. CASE w = v
      BY <1>2, <1>4, <3>1, <3>2 DEF VMsOn, Waking
    <3>3. CASE w # v
      BY <1>2, <1>3, <2>1, <3>1, <3>3 DEF Honest, Waking
    <3> QED
      BY <3>2, <3>3
  <2> QED
    BY <2>2, <2>3, <2>4
<1> QED
  BY <1>6, <1>7, <1>8 DEF PoolInv

(* The write puts back what was read, with this pool's entry replaced: as  *)
(* long as nobody wrote in between, no other entry changes.                *)
LEMMA SaveRecordKeeps ==
  ASSUME PoolInv, NEW p \in Process, SaveRecord(p)
  PROVE  PoolInv'
<1> DEFINE step == IF job[p].export THEN "export" ELSE "spinDown"
<1>1. ProcTypes /\ HostTypes /\ \A r \in Process : Own(r)
  BY Parts
<1>2. /\ pc[p] = "save" /\ Goto(p, step)
      /\ record' = [seen[p] EXCEPT ![job[p].pool] = ids[p]]
      /\ seen' = [seen EXCEPT ![p] = Empty] /\ ids' = [ids EXCEPT ![p] = {}]
      /\ UNCHANGED <<inWindow, hostVars, job, todo, crashes>>
  BY DEF SaveRecord, AfterSave
<1>3. step \in {"export", "spinDown"} /\ step \in Places
  BY DEF Places, SleepSteps
<1> HIDE DEF step
<1>4. /\ pc'[p] = step /\ pc' \in [Process -> Places] /\ overlapped' \in BOOLEAN
      /\ \A r \in Process \ {p} : pc'[r] = pc[r]
      /\ overlapped' = (overlapped \/ (pc'[p] \in VMSteps /\ \E r \in Process \ {p} : pc[r] \in VMSteps))
  BY <1>1, <1>2, <1>3, GotoMoves
<1>5. job[p].pool \in Pool /\ ids[p] \subseteq VMsOn(job[p].pool)
  BY <1>1, <1>2 DEF Own
<1>6. /\ record' \in [Pool -> SUBSET VM] /\ record'[job[p].pool] = ids[p]
      /\ \A q \in Pool \ {job[p].pool} : record'[q] = seen[p][q]
  BY <1>1, <1>2, <1>5 DEF ProcTypes
<1>7. \A q \in Pool : record'[q] \subseteq VMsOn(q)
  <2> SUFFICES ASSUME NEW q \in Pool PROVE record'[q] \subseteq VMsOn(q)
    OBVIOUS
  <2>1. seen[p][q] \subseteq VMsOn(q)
    BY <1>1 DEF Own
  <2> QED
    BY <1>5, <1>6, <2>1
<1>8. /\ Empty \in [Pool -> SUBSET VM] /\ seen' \in [Process -> [Pool -> SUBSET VM]]
      /\ ids' \in [Process -> SUBSET VM] /\ seen'[p] = Empty /\ ids'[p] = {}
      /\ \A r \in Process \ {p} : seen'[r] = seen[r] /\ ids'[r] = ids[r]
  <2>1. Empty \in [Pool -> SUBSET VM]
    BY DEF Empty
  <2> QED
    BY <1>1, <1>2, <2>1 DEF ProcTypes
<1>9. UNCHANGED <<inWindow, imported, standby, vm, late, job, todo, crashes>>
  BY <1>2 DEF hostVars
<1>10. PoolTypeOK'
  <2>1. ProcTypes'
    BY <1>1, <1>4, <1>8, <1>9 DEF ProcTypes
  <2>2. HostTypes'
    BY <1>1, <1>6, <1>7, <1>9 DEF HostTypes, VMsOn
  <2> QED
    BY <2>1, <2>2 DEF PoolTypeOK, ProcTypes, HostTypes, Places, Jobs
<1>11. \A r \in Process : Own(r)'
  <2>1. Own(p)'
    BY <1>3, <1>4, <1>5, <1>8, <1>9 DEF Own, Empty, VMsOn
  <2>2. \A r \in Process \ {p} : Own(r)'
    BY <1>1, <1>4, <1>8, <1>9 DEF Own
  <2> QED
    BY <2>1, <2>2
<1>12. ASSUME ~overlapped'
       PROVE  Solo' /\ (\A r \in Process : Current(r)') /\ Honest'
  <2>1. Solo /\ (\A r \in Process : Current(r)) /\ Honest
    BY <1>4, <1>12 DEF PoolInv
  <2>2. \A r \in Process \ {p} : pc'[r] = pc[r] /\ pc[r] \notin VMSteps
    BY <1>2, <1>4, <2>1 DEF Solo, VMSteps
  <2>3. Solo'
    BY <1>3, <1>4, <2>2 DEF Solo, VMSteps
  <2>4. \A r \in Process : Current(r)'
    BY <1>3, <1>4, <1>8, <1>9, <2>1, <2>2 DEF Current, VMSteps
  <2>5. \A q \in Pool : ~Waking(q)
    BY <1>2, <2>2 DEF Waking, VMSteps
  <2>6. Honest'
    <3> SUFFICES ASSUME NEW q \in Pool, NEW v \in record'[q] PROVE vm[v] = "asleep"
      BY <1>9 DEF Honest
    <3>1. CASE q = job[p].pool
      BY <1>6, <2>1, <3>1 DEF Current
    <3>2. CASE q # job[p].pool
      BY <1>2, <1>6, <2>1, <2>5, <3>2 DEF Current, Honest
    <3> QED
      BY <3>1, <3>2
  <2> QED
    BY <2>3, <2>4, <2>6
<1> QED
  BY <1>10, <1>11, <1>12 DEF PoolInv

(* A wake ends only with its pool's entry gone. *)
LEMMA ClearRecordKeeps ==
  ASSUME PoolInv, NEW p \in Process, ClearRecord(p)
  PROVE  PoolInv'
<1>1. ProcTypes /\ HostTypes /\ \A r \in Process : Own(r)
  BY Parts
<1>2. /\ pc[p] = "clear" /\ End(p)
      /\ record' = [seen[p] EXCEPT ![job[p].pool] = {}]
      /\ UNCHANGED <<inWindow, imported, standby, vm, late, crashes>>
  BY DEF ClearRecord, hostVars
<1>3. /\ ProcTypes' /\ OnlyMoves(p) /\ Own(p)'
      /\ pc'[p] \in {"idle", "gone"} /\ ids'[p] = {}
  BY <1>1, <1>2, EndMoves
<1>4. job[p].pool \in Pool
  BY <1>1, <1>2 DEF Own
<1>5. /\ record' \in [Pool -> SUBSET VM] /\ record'[job[p].pool] = {}
      /\ \A q \in Pool \ {job[p].pool} : record'[q] = seen[p][q]
  BY <1>1, <1>2, <1>4 DEF ProcTypes
<1>6. \A q \in Pool : record'[q] \subseteq VMsOn(q)
  <2> SUFFICES ASSUME NEW q \in Pool PROVE record'[q] \subseteq VMsOn(q)
    OBVIOUS
  <2>1. seen[p][q] \subseteq VMsOn(q)
    BY <1>1 DEF Own
  <2> QED
    BY <1>5, <2>1
<1>7. PoolTypeOK'
  <2>1. HostTypes'
    BY <1>1, <1>2, <1>5, <1>6 DEF HostTypes, VMsOn
  <2> QED
    BY <1>3, <2>1 DEF PoolTypeOK, ProcTypes, HostTypes, Places, Jobs
<1>8. \A r \in Process : Own(r)'
  BY <1>1, <1>3 DEF OnlyMoves, Own
<1>9. ASSUME ~overlapped'
      PROVE  Solo' /\ (\A r \in Process : Current(r)') /\ Honest'
  <2>1. Solo /\ (\A r \in Process : Current(r)) /\ Honest
    BY <1>3, <1>9 DEF OnlyMoves, PoolInv
  <2>2. \A r \in Process \ {p} : pc'[r] = pc[r] /\ pc[r] \notin VMSteps
    BY <1>2, <1>3, <2>1 DEF OnlyMoves, Solo, VMSteps
  <2>3. Solo'
    BY <1>3, <2>2 DEF Solo, VMSteps
  <2>4. \A r \in Process : Current(r)'
    BY <1>2, <1>3, <2>1, <2>2 DEF OnlyMoves, Current, VMSteps
  <2>5. \A q \in Pool \ {job[p].pool} : ~Waking(q)
    BY <2>2 DEF Waking, VMSteps
  <2>6. Honest'
    <3> SUFFICES ASSUME NEW q \in Pool, NEW v \in record'[q] PROVE vm[v] = "asleep"
      BY <1>2 DEF Honest
    <3>1. q # job[p].pool /\ record'[q] = record[q]
      BY <1>2, <1>5, <2>1 DEF Current
    <3> QED
      BY <2>1, <2>5, <3>1 DEF Honest
  <2> QED
    BY <2>3, <2>4, <2>6
<1> QED
  BY <1>7, <1>8, <1>9 DEF PoolInv

-----------------------------------------------------------------------------
LEMMA RunCommandKeeps ==
  ASSUME PoolInv, NEW p \in Process, NEW q \in Pool, NEW c \in Command, RunCommand(p, q, c)
  PROVE  PoolInv'
BY RefusalKeeps, BeginSleepKeeps, BeginWakeKeeps, BeginPoolCommandKeeps DEF RunCommand

LEMMA StepKeeps ==
  ASSUME PoolInv, NEW p \in Process, Step(p)
  PROVE  PoolInv'
BY SleepVMKeeps, WakeVMKeeps, AllSleptKeeps, LoadRecordKeeps, SaveRecordKeeps, ExportKeeps,
   SpinDownKeeps, ImportKeeps, SpinUpKeeps, RecallKeeps, AllWokenKeeps, ClearRecordKeeps DEF Step

LEMMA PoolNextKeeps ==
  ASSUME CrashPoints \cap Emptying = {}, PoolInv, [PoolNext]_poolVars
  PROVE  PoolInv'
<1>1. Woken \in Command /\ Exported \in Command /\ Daemon \in Process
  BY DEF Woken, Exported, Command, Process
<1>2. Tasks \subseteq Command /\ Commands \subseteq Command /\ Shell \subseteq Process
  BY PoolOpsAssumption DEF Process
<1>3. CASE \E q \in Pool : EnterWindow(q) \/ LeaveWindow(q) \/ LeaveRefused(q)
  BY <1>1, <1>3, BeginWakeKeeps, BeginSleepKeeps, RefusalKeeps DEF EnterWindow, LeaveWindow, LeaveRefused
<1>4. CASE \E q \in Pool, c \in Tasks : RunCommand(Daemon, q, c)
  BY <1>1, <1>2, <1>4, RunCommandKeeps
<1>5. CASE \E p \in Shell, q \in Pool, c \in Commands : RunCommand(p, q, c)
  BY <1>2, <1>5, RunCommandKeeps
<1>6. CASE \E p \in Process : Step(p) \/ Crash(p)
  BY <1>6, StepKeeps, CrashKeeps
<1>7. CASE LateEffect \/ WindowTurns \/ UNCHANGED poolVars
  BY <1>7, SurroundingsKeep
<1> QED
  BY <1>3, <1>4, <1>5, <1>6, <1>7 DEF PoolNext

LEMMA PoolInvImplies == PoolInv => PoolTypeOK /\ RecordedAreAsleep
BY DEF PoolInv, Honest, RecordedAreAsleep

(* Type correctness of whole-pool operations: no command, failure or crash *)
(* puts a VM of another pool into an entry of vmstate.json.                *)
THEOREM PoolTypeCorrect ==
  ASSUME CrashPoints \cap Emptying = {}
  PROVE  PoolSpec => []PoolTypeOK
<1>1. PoolInv /\ [PoolNext]_poolVars => PoolInv'
  BY PoolNextKeeps
<1> QED
  BY <1>1, PoolStarts, PoolInvImplies, PTL DEF PoolSpec

(* saveVMAffected and clearVMAffected keep vmstate.json honest (pool.go):  *)
(* whatever fails, is killed or takes effect late, and with any commands   *)
(* beside the daemon, as long as no two processes have handled VMs at once *)
(* and none dies while it wakes them, a recorded VM is one that sleeps by  *)
(* our doing or is being woken.                                            *)
THEOREM RecordIsHonest ==
  ASSUME CrashPoints \cap Emptying = {}
  PROVE  PoolSpec => []RecordedAreAsleep
<1>1. PoolInv /\ [PoolNext]_poolVars => PoolInv'
  BY PoolNextKeeps
<1> QED
  BY <1>1, PoolStarts, PoolInvImplies, PTL DEF PoolSpec
-----------------------------------------------------------------------------
(* The record as VMRecord promises it.  What has to be added is that a     *)
(* wake is on the VMs recorded, if there are any.                          *)
Preferred ==
  ~overlapped =>
    \A p \in Process : pc[p] = "vmWake" => record[job[p].pool] = {} \/ todo[p] \subseteq record[job[p].pool]

RecordInv == PoolInv /\ Preferred

(* A step of one process that neither changes VMs or record nor begins or  *)
(* ends the waking of a pool.                                              *)
Still(p) ==
  /\ UNCHANGED <<vm, record>>
  /\ overlapped => overlapped'
  /\ \A r \in Process \ {p} : pc'[r] = pc[r] /\ job'[r] = job[r] /\ todo'[r] = todo[r]
  /\ pc'[p] # "vmWake"
  /\ pc[p] \in Emptying <=> pc'[p] \in Emptying
  /\ pc[p] \in Emptying => job'[p] = job[p]

RecordStep == [Recorded!RecordNext]_(Recorded!recordVars)

LEMMA StillStutters ==
  ASSUME Preferred, NEW p \in Process, Still(p)
  PROVE  Preferred' /\ Wakers' = Wakers /\ (overlapped' = overlapped => RecordStep)
<1>1. \A q \in Pool : Waking(q)' <=> Waking(q)
  BY DEF Still, Waking, Emptying
<1>2. Wakers' = Wakers
  BY <1>1 DEF Wakers
<1>3. Preferred'
  BY DEF Still, Preferred
<1> QED
  BY <1>2, <1>3 DEF RecordStep, Recorded!recordVars, Still

LEMMA EndIsStill ==
  ASSUME PoolInv, NEW p \in Process, End(p), UNCHANGED <<vm, record>>, pc[p] \notin Emptying
  PROVE  Still(p)
<1>1. OnlyMoves(p) /\ pc'[p] \in {"idle", "gone"}
  BY Parts, EndMoves
<1> QED
  BY <1>1 DEF Still, OnlyMoves, Emptying

LEMMA GotoIsStill ==
  ASSUME PoolInv, NEW p \in Process, NEW step \in Places, Goto(p, step), UNCHANGED <<vm, record>>,
         \A r \in Process \ {p} : job'[r] = job[r] /\ todo'[r] = todo[r],
         step # "vmWake", pc[p] \in Emptying <=> step \in Emptying,
         pc[p] \in Emptying => job'[p] = job[p]
  PROVE  Still(p)
<1>1. /\ pc'[p] = step /\ \A r \in Process \ {p} : pc'[r] = pc[r]
      /\ overlapped => overlapped'
  BY Parts, GotoMoves
<1> QED
  BY <1>1 DEF Still

(* The beginnings of calls, and the steps without VMs. *)
LEMMA BeginIsStill ==
  ASSUME PoolInv, NEW p \in Process, NEW q \in Pool, NEW c \in Command, RunCommand(p, q, c)
  PROVE  Still(p)
<1>1. AtRest(p) /\ pc[p] = "idle" /\ pc[p] \notin Emptying
  BY DEF RunCommand, RefuseSleep, RefuseExport, BeginSleep, BeginWake, BeginPoolCommand, AtRest, Emptying
<1>2. CASE RefuseSleep(p, q, c) \/ RefuseExport(p, q)
  BY <1>1, <1>2, EndIsStill DEF RefuseSleep, RefuseExport, hostVars
<1>3. CASE BeginSleep(p, q, c) \/ BeginWake(p, q, c) \/ BeginPoolCommand(p, q, c)
  <2>1. PICK step \in {"vmSleep", "export", "spinDown", "spinUp", "import"} : Goto(p, step)
    BY <1>3 DEF BeginSleep, BeginWake, BeginPoolCommand
  <2>2. /\ step \in Places /\ step # "vmWake" /\ step \notin Emptying
    BY <2>1 DEF Places, SleepSteps, WakeSteps, Emptying
  <2>3. UNCHANGED <<vm, record>> /\ job' = [job EXCEPT ![p] = Job(q, c)]
    BY <1>3 DEF BeginSleep, BeginWake, BeginPoolCommand, hostVars
  <2>4. todo' = todo \/ \E listed : todo' = [todo EXCEPT ![p] = listed]
    BY <1>3 DEF BeginSleep, BeginWake, BeginPoolCommand
  <2>5. \A r \in Process \ {p} : job'[r] = job[r] /\ todo'[r] = todo[r]
    BY <2>3, <2>4, Parts DEF ProcTypes
  <2> QED
    BY <1>1, <2>1, <2>2, <2>3, <2>5, GotoIsStill
<1> QED
  BY <1>2, <1>3 DEF RunCommand

LEMMA QuietIsStill ==
  ASSUME PoolInv, NEW p \in Process,
         \/ AllSlept(p) \/ LoadRecord(p) \/ ExportSucceeds(p) \/ ExportFails(p) \/ SpinDown(p)
         \/ ImportSucceeds(p) \/ ImportFails(p) \/ SpinUp(p) \/ AllWoken(p)
  PROVE  Still(p)
<1>1. UNCHANGED <<vm, record>>
  BY DEF AllSlept, LoadRecord, ExportSucceeds, ExportFails, SpinDown, ImportSucceeds, ImportFails,
         SpinUp, AllWoken, hostVars
<1>2. CASE AllSlept(p) \/ LoadRecord(p) \/ AllWoken(p)
  <2>1. PICK step \in {"load", "save", "clear", "reload"} :
          Goto(p, step) /\ (pc[p] \in Emptying <=> step \in Emptying)
    BY <1>2 DEF AllSlept, LoadRecord, AllWoken, Emptying
  <2>2. step \in Places /\ step # "vmWake" /\ job' = job /\ todo' = todo
    BY <1>2, <2>1 DEF AllSlept, LoadRecord, AllWoken, Places, SleepSteps, WakeSteps
  <2> QED
    BY <1>1, <2>1, <2>2, GotoIsStill
<1>3. CASE \/ ExportSucceeds(p) \/ ExportFails(p) \/ SpinDown(p)
           \/ ImportSucceeds(p) \/ ImportFails(p) \/ SpinUp(p)
  <2>1. pc[p] \notin Emptying
    BY <1>3 DEF ExportSucceeds, ExportFails, SpinDown, ImportSucceeds, ImportFails, SpinUp, Emptying
  <2>2. CASE End(p)
    BY <1>1, <2>1, <2>2, EndIsStill
  <2>3. ASSUME NEW step \in {"spinDown", "spinUp", "recall"}, Goto(p, step), UNCHANGED <<job, todo>>
        PROVE  Still(p)
    <3>1. step \in Places /\ step # "vmWake" /\ step \notin Emptying
      BY DEF Places, SleepSteps, WakeSteps, Emptying
    <3> QED
      BY <1>1, <2>1, <2>3, <3>1, GotoIsStill
  <2> QED
    BY <1>3, <2>2, <2>3
    DEF ExportSucceeds, ExportFails, SpinDown, ImportSucceeds, ImportFails, SpinUp
<1> QED
  BY <1>2, <1>3

-----------------------------------------------------------------------------
(* The five steps of the promise. *)
LEMMA NobodyElseWakes ==
  ASSUME PoolInv, ~overlapped, NEW p \in Process, pc[p] \in VMSteps
  PROVE  Wakers = IF pc[p] \in Emptying THEN {job[p].pool} ELSE {}
<1>1. \A r \in Process : pc[r] \in Emptying => r = p
  BY DEF PoolInv, Solo, Emptying, VMSteps
<1>2. job[p].pool \in Pool
  BY DEF PoolInv, Own, VMSteps
<1>3. \A q \in Pool : Waking(q) <=> pc[p] \in Emptying /\ job[p].pool = q
  BY <1>1 DEF Waking, Emptying
<1> QED
  BY <1>2, <1>3 DEF Wakers

LEMMA SleepIsPromised ==
  ASSUME RecordInv, ~overlapped, NEW p \in Process, NEW v \in VM, SleepVM(p, v)
  PROVE  Preferred' /\ (Recorded!PutToSleep(v) \/ UNCHANGED Recorded!recordVars)
<1>1. /\ pc[p] = "vmSleep" /\ todo' = [todo EXCEPT ![p] = @ \ {v}]
      /\ UNCHANGED <<record, pc, job, overlapped>>
      /\ \/ vm[v] = "running" /\ vm' = [vm EXCEPT ![v] = "asleep"]
         \/ vm' = vm
  BY DEF SleepVM
<1>2. Wakers = {} /\ Wakers' = Wakers
  <2>1. Wakers = {}
    BY <1>1, NobodyElseWakes DEF RecordInv, Emptying, VMSteps
  <2> QED
    BY <1>1, <2>1 DEF Wakers, Waking
<1>3. Preferred'
  <2>1. \A r \in Process : todo'[r] \subseteq todo[r]
    BY <1>1, Parts DEF RecordInv, ProcTypes
  <2> QED
    BY <1>1, <2>1 DEF RecordInv, Preferred
<1> QED
  BY <1>1, <1>2, <1>3 DEF Recorded!PutToSleep, Recorded!recordVars

LEMMA WakeIsPromised ==
  ASSUME RecordInv, ~overlapped, NEW p \in Process, NEW v \in VM, WakeVM(p, v)
  PROVE  Preferred' /\ (Recorded!Wake(v) \/ UNCHANGED Recorded!recordVars)
<1>1. /\ pc[p] = "vmWake" /\ v \in todo[p] /\ todo' = [todo EXCEPT ![p] = @ \ {v}]
      /\ UNCHANGED <<record, pc, job, overlapped>>
      /\ vm' = [vm EXCEPT ![v] = "running"] \/ vm' = vm
  BY DEF WakeVM
<1>2. PoolOf[v] = job[p].pool
  BY <1>1, Parts DEF RecordInv, Own, VMsOn
<1>3. Wakers = {PoolOf[v]} /\ Wakers' = Wakers
  <2>1. Wakers = {PoolOf[v]}
    BY <1>1, <1>2, NobodyElseWakes DEF RecordInv, Emptying, VMSteps
  <2> QED
    BY <1>1, <2>1 DEF Wakers, Waking
<1>4. record[PoolOf[v]] # {} => v \in record[PoolOf[v]]
  BY <1>1, <1>2 DEF RecordInv, Preferred
<1>5. Preferred'
  <2>1. \A r \in Process : todo'[r] \subseteq todo[r]
    BY <1>1, Parts DEF RecordInv, ProcTypes
  <2> QED
    BY <1>1, <2>1 DEF RecordInv, Preferred
<1> QED
  BY <1>1, <1>3, <1>4, <1>5 DEF Recorded!Wake, Recorded!recordVars

LEMMA SaveIsPromised ==
  ASSUME RecordInv, ~overlapped, NEW p \in Process, SaveRecord(p)
  PROVE  Preferred' /\ \E q \in Pool, S \in SUBSET VM : Recorded!Note(q, S)
<1> DEFINE step == IF job[p].export THEN "export" ELSE "spinDown"
<1>1. ProcTypes /\ HostTypes /\ Own(p) /\ Solo /\ Current(p)
  BY Parts DEF RecordInv, PoolInv
<1>2. /\ pc[p] = "save" /\ Goto(p, step)
      /\ record' = [seen[p] EXCEPT ![job[p].pool] = ids[p]]
      /\ vm' = vm /\ job' = job /\ todo' = todo
  BY DEF SaveRecord, AfterSave, hostVars
<1>3. step \in {"export", "spinDown"} /\ step \in Places
  BY DEF Places, SleepSteps
<1> HIDE DEF step
<1>4. pc'[p] = step /\ \A r \in Process \ {p} : pc'[r] = pc[r]
  BY <1>1, <1>2, <1>3, GotoMoves
<1>5. seen[p] = record
  BY <1>1, <1>2 DEF Current
<1>6. job[p].pool \in Pool /\ ids[p] \in SUBSET VM
      /\ ids[p] \subseteq {v \in VM : PoolOf[v] = job[p].pool /\ vm[v] = "asleep"}
  BY <1>1, <1>2 DEF Own, Current, VMsOn, ProcTypes
<1>7. \A r \in Process : pc[r] \notin Emptying /\ pc'[r] \notin Emptying
  BY <1>1, <1>2, <1>3, <1>4 DEF Solo, Emptying, VMSteps
<1>8. Wakers = {} /\ Wakers' = {}
  BY <1>7 DEF Wakers, Waking, Emptying
<1>9. Preferred'
  BY <1>7 DEF Preferred, Emptying
<1>10. Recorded!Note(job[p].pool, ids[p])
  BY <1>2, <1>5, <1>6, <1>8 DEF Recorded!Note
<1> QED
  BY <1>6, <1>9, <1>10

LEMMA ClearIsPromised ==
  ASSUME RecordInv, ~overlapped, NEW p \in Process, ClearRecord(p)
  PROVE  Preferred' /\ \E q \in Pool : Recorded!Forget(q)
<1>1. ProcTypes /\ Own(p) /\ Solo /\ Current(p)
  BY Parts DEF RecordInv, PoolInv
<1>2. /\ pc[p] = "clear" /\ End(p) /\ vm' = vm
      /\ record' = [seen[p] EXCEPT ![job[p].pool] = {}]
  BY DEF ClearRecord, hostVars
<1>3. OnlyMoves(p) /\ pc'[p] \in {"idle", "gone"}
  BY <1>1, <1>2, EndMoves
<1>4. \A r \in Process : pc'[r] \notin Emptying
  BY <1>1, <1>2, <1>3 DEF Solo, OnlyMoves, Emptying, VMSteps
<1>5. Wakers = {job[p].pool}
  BY <1>2, NobodyElseWakes DEF RecordInv, Emptying, VMSteps
<1>6. Wakers' = {} /\ Preferred'
  BY <1>4 DEF Wakers, Waking, Preferred, Emptying
<1>7. job[p].pool \in Pool /\ seen[p] = record
  BY <1>1, <1>2 DEF Own, Current
<1> QED
  BY <1>2, <1>5, <1>6, <1>7 DEF Recorded!Forget

LEMMA RecallIsPromised ==
  ASSUME RecordInv, ~overlapped, ~overlapped', NEW p \in Process, Recall(p)
  PROVE  Preferred' /\ ((\E q \in Pool : Recorded!BeginToWake(q)) \/ UNCHANGED Recorded!recordVars)
<1>1. ProcTypes /\ Own(p) /\ Solo /\ pc[p] = "recall" /\ UNCHANGED <<vm, record>>
  BY Parts DEF RecordInv, PoolInv, Recall, hostVars
<1>2. Wakers = {}
  BY <1>1, NobodyElseWakes DEF RecordInv, Emptying, VMSteps
<1>3. CASE End(p)
  <2>1. Still(p)
    BY <1>1, <1>3, EndIsStill DEF RecordInv, Emptying
  <2>2. Preferred' /\ Wakers' = Wakers
    BY <2>1, StillStutters DEF RecordInv
  <2> QED
    BY <1>1, <1>3, <2>2 DEF End, Recorded!recordVars
<1>4. ASSUME Goto(p, "vmWake"), UNCHANGED job, NEW listed,
             todo' = [todo EXCEPT ![p] = IF record[job[p].pool] # {} THEN record[job[p].pool] ELSE listed]
      PROVE  Preferred' /\ \E q \in Pool : Recorded!BeginToWake(q)
  <2>1. "vmWake" \in Places /\ job[p].pool \in Pool
    BY <1>1 DEF Places, WakeSteps, Own
  <2>2. pc'[p] = "vmWake" /\ \A r \in Process \ {p} : pc'[r] = pc[r]
    BY <1>1, <1>4, <2>1, GotoMoves
  <2>3. \A r \in Process : pc'[r] \in Emptying <=> r = p
    BY <1>1, <2>2 DEF Solo, Emptying, VMSteps
  <2>4. \A q \in Pool : Waking(q)' <=> job[p].pool = q
    BY <1>4, <2>3 DEF Waking, Emptying
  <2>5. Wakers' = {job[p].pool}
    BY <2>1, <2>4 DEF Wakers
  <2>6. todo'[p] = IF record[job[p].pool] # {} THEN record[job[p].pool] ELSE listed
    BY <1>1, <1>4 DEF ProcTypes
  <2>7. Preferred'
    BY <1>1, <1>4, <2>3, <2>6 DEF Preferred, Emptying
  <2> QED
    BY <1>1, <1>2, <2>1, <2>5, <2>7 DEF Recorded!BeginToWake
<1> QED
  BY <1>3, <1>4 DEF Recall

-----------------------------------------------------------------------------
(* Once two processes have handled VMs at once nothing is promised. *)
LEMMA OverlappedPromisesNothing ==
  ASSUME PoolInv', overlapped'
  PROVE  RecordStep
<1>1. vm' \in [VM -> {"running", "asleep", "stopped"}] /\ record' \in [Pool -> SUBSET VM]
  BY DEF PoolInv, PoolTypeOK
<1>2. Wakers' \subseteq Pool
  BY DEF Wakers
<1> QED
  BY <1>1, <1>2 DEF RecordStep, Recorded!RecordNext, Recorded!NothingPromised, Recorded!VMStates

(* The steps of the promise, where it holds. *)
LEMMA PromisedStep ==
  ASSUME ~overlapped, ~overlapped', NEW v \in VM, NEW q \in Pool, NEW S \in SUBSET VM,
         \/ Recorded!PutToSleep(v) \/ Recorded!Wake(v) \/ Recorded!BeginToWake(q)
         \/ Recorded!Forget(q) \/ Recorded!Note(q, S)
  PROVE  RecordStep
BY DEF RecordStep, Recorded!RecordNext

LEMMA StepOfRecord ==
  ASSUME RecordInv, PoolInv', NEW p \in Process, Step(p)
  PROVE  Preferred' /\ RecordStep
<1>1. CASE \/ AllSlept(p) \/ LoadRecord(p) \/ ExportSucceeds(p) \/ ExportFails(p) \/ SpinDown(p)
           \/ ImportSucceeds(p) \/ ImportFails(p) \/ SpinUp(p) \/ AllWoken(p)
  <2>1. Still(p)
    BY <1>1, QuietIsStill DEF RecordInv
  <2>2. Preferred' /\ (overlapped' = overlapped => RecordStep)
    BY <2>1, StillStutters DEF RecordInv
  <2>3. overlapped \in BOOLEAN /\ overlapped' \in BOOLEAN /\ (overlapped => overlapped')
    BY <2>1 DEF Still, RecordInv, PoolInv, PoolTypeOK
  <2>4. CASE overlapped'
    BY <2>2, <2>4, OverlappedPromisesNothing
  <2>5. CASE ~overlapped'
    BY <2>2, <2>3, <2>5
  <2> QED
    BY <2>4, <2>5
<1>2. CASE overlapped'
  <2>1. Preferred'
    BY <1>2 DEF Preferred
  <2> QED
    BY <1>2, <2>1, OverlappedPromisesNothing
<1>3. ASSUME ~overlapped',
             \/ \E v \in VM : SleepVM(p, v) \/ WakeVM(p, v)
             \/ SaveRecord(p) \/ Recall(p) \/ ClearRecord(p)
      PROVE  Preferred' /\ RecordStep
  <2>1. ~overlapped
    BY <1>3 DEF SleepVM, WakeVM, SaveRecord, AfterSave, Recall, ClearRecord, Goto, End
  <2>2. ASSUME UNCHANGED Recorded!recordVars PROVE RecordStep
    BY <2>2 DEF RecordStep
  <2>3. ASSUME NEW v \in VM, SleepVM(p, v) \/ WakeVM(p, v) PROVE Preferred' /\ RecordStep
    <3>1. Preferred' /\ (Recorded!PutToSleep(v) \/ Recorded!Wake(v) \/ UNCHANGED Recorded!recordVars)
      BY <2>1, <2>3, SleepIsPromised, WakeIsPromised
    <3> QED
      BY <1>3, <2>1, <2>2, <3>1 DEF RecordStep, Recorded!RecordNext
  <2>4. CASE SaveRecord(p)
    BY <1>3, <2>1, <2>4, SaveIsPromised DEF RecordStep, Recorded!RecordNext
  <2>5. CASE ClearRecord(p)
    BY <1>3, <2>1, <2>5, ClearIsPromised DEF RecordStep, Recorded!RecordNext
  <2>6. CASE Recall(p)
    <3>1. Preferred' /\ ((\E q \in Pool : Recorded!BeginToWake(q)) \/ UNCHANGED Recorded!recordVars)
      BY <1>3, <2>1, <2>6, RecallIsPromised
    <3> QED
      BY <1>3, <2>1, <2>2, <3>1 DEF RecordStep, Recorded!RecordNext
  <2> QED
    BY <1>3, <2>3, <2>4, <2>5, <2>6
<1> QED
  BY <1>1, <1>2, <1>3 DEF Step

LEMMA RecordNextStep ==
  ASSUME CrashPoints \cap Emptying = {}, RecordInv, [PoolNext]_poolVars
  PROVE  RecordInv' /\ RecordStep
<1>1. PoolInv'
  BY PoolNextKeeps DEF RecordInv
<1> SUFFICES Preferred' /\ RecordStep
  BY <1>1 DEF RecordInv
<1>2. Woken \in Command /\ Exported \in Command /\ Daemon \in Process
  BY DEF Woken, Exported, Command, Process
<1>3. Tasks \subseteq Command /\ Commands \subseteq Command /\ Shell \subseteq Process
  BY PoolOpsAssumption DEF Process
<1>4. ASSUME NEW p \in Process, Still(p) PROVE Preferred' /\ RecordStep
  <2>1. Preferred' /\ (overlapped' = overlapped => RecordStep)
    BY <1>4, StillStutters DEF RecordInv
  <2>2. overlapped \in BOOLEAN /\ overlapped' \in BOOLEAN /\ (overlapped => overlapped')
    BY <1>1, <1>4 DEF Still, RecordInv, PoolInv, PoolTypeOK
  <2>3. CASE overlapped'
    BY <1>1, <2>1, <2>3, OverlappedPromisesNothing
  <2>4. CASE ~overlapped'
    BY <2>1, <2>2, <2>4
  <2> QED
    BY <2>3, <2>4
<1>5. CASE \E q \in Pool : EnterWindow(q) \/ LeaveWindow(q) \/ LeaveRefused(q)
  <2>1. PICK q \in Pool, c \in Command : RunCommand(Daemon, q, c)
    <3>1. PICK q \in Pool : BeginWake(Daemon, q, Woken) \/ BeginSleep(Daemon, q, Exported)
                              \/ RefuseSleep(Daemon, q, Exported)
      BY <1>5 DEF EnterWindow, LeaveWindow, LeaveRefused
    <3>2. Woken.kind = "wake" /\ Exported.kind = "sleep"
      BY DEF Woken, Exported
    <3> QED
      BY <1>2, <3>1, <3>2 DEF RunCommand
  <2>2. PoolInv
    BY DEF RecordInv
  <2> QED
    BY <1>2, <1>4, <2>1, <2>2, BeginIsStill
<1>6. CASE \/ \E q \in Pool, c \in Tasks : RunCommand(Daemon, q, c)
           \/ \E p \in Shell, q \in Pool, c \in Commands : RunCommand(p, q, c)
  <2>1. PoolInv
    BY DEF RecordInv
  <2>2. PICK p \in Process, q \in Pool, c \in Command : RunCommand(p, q, c)
    BY <1>2, <1>3, <1>6
  <2> QED
    BY <1>4, <2>1, <2>2, BeginIsStill
<1>7. ASSUME NEW p \in Process, Crash(p) PROVE Preferred' /\ RecordStep
  <2>1. End(p) /\ pc[p] \notin Emptying /\ UNCHANGED <<vm, record>>
    BY <1>7 DEF Crash, hostVars
  <2> QED
    BY <1>4, <2>1, EndIsStill DEF RecordInv
<1>8. ASSUME NEW p \in Process, Step(p) PROVE Preferred' /\ RecordStep
  BY <1>1, <1>8, StepOfRecord
<1>9. CASE LateEffect \/ WindowTurns \/ UNCHANGED poolVars
  <2>1. UNCHANGED <<vm, record, pc, job, todo, overlapped>>
    BY <1>9 DEF LateEffect, WindowTurns, poolVars, hostVars, procVars
  <2>2. Wakers' = Wakers /\ Preferred'
    BY <2>1 DEF Wakers, Waking, RecordInv, Preferred
  <2>3. UNCHANGED Recorded!recordVars
    BY <2>1, <2>2 DEF Recorded!recordVars
  <2> QED
    BY <2>2, <2>3 DEF RecordStep
<1>10. CASE \E p \in Process : Step(p) \/ Crash(p)
  BY <1>7, <1>8, <1>10
<1> QED
  BY <1>5, <1>6, <1>9, <1>10 DEF PoolNext

LEMMA RecordStarts == PoolInit => RecordInv /\ Recorded!RecordInit
<1> SUFFICES ASSUME PoolInit PROVE RecordInv /\ Recorded!RecordInit
  OBVIOUS
<1>1. RecordInv
  BY PoolStarts DEF PoolInit, RecordInv, Preferred
<1>2. Wakers = {}
  BY DEF PoolInit, Wakers, Waking
<1>3. vm \in [VM -> {"running", "stopped"}]
  BY DEF PoolInit
<1> QED
  BY <1>1, <1>2, <1>3 DEF PoolInit, Recorded!RecordInit, Empty

(* pool.go:190-191, 240: vmstate.json, which every process reads and       *)
(* writes back as a whole, is the record of what sleeps by our doing, as   *)
(* long as no two processes handle VMs at once and none dies waking them:  *)
(* initial states map to initial states, and every step to a step of the   *)
(* promise or to none.                                                     *)
THEOREM PoolImplementsRecord ==
  ASSUME CrashPoints \cap Emptying = {}
  PROVE  PoolSpec => ImplementsRecord
<1>1. RecordInv /\ [PoolNext]_poolVars => RecordInv' /\ RecordStep
  BY RecordNextStep
<1> QED
  BY <1>1, RecordStarts, PTL DEF PoolSpec, ImplementsRecord, Recorded!RecordSpec, RecordStep

(* pool.go:190-191: a VM its owner has stopped is started only by the wake *)
(* of a pool without a record, in any mode.                                *)
THEOREM StoppedStayDown ==
  ASSUME CrashPoints \cap Emptying = {}
  PROVE  PoolSpec => [][\A v \in VM : vm[v] = "stopped" /\ vm'[v] # "stopped"
                                        => overlapped' \/ record[PoolOf[v]] = {}]_poolVars
<1> DEFINE Stays == \A v \in VM : vm[v] = "stopped" /\ vm'[v] # "stopped"
                                    => overlapped' \/ record[PoolOf[v]] = {}
           Noted == ~overlapped => \A q \in Pool : \A v \in record[q] : vm[v] # "stopped"
<1>1. PoolInit => Noted
  BY DEF PoolInit, Empty
<1>2. RecordInv /\ Noted /\ RecordInv' /\ RecordStep => Noted' /\ Stays
  <2> SUFFICES ASSUME RecordInv, Noted, RecordInv', RecordStep PROVE Noted' /\ Stays
    OBVIOUS
  <2>1. CASE overlapped'
    BY <2>1
  <2>2. CASE ~overlapped' /\ UNCHANGED Recorded!recordVars
    BY <2>2 DEF Recorded!recordVars
  <2>3. CASE ~overlapped' /\ Recorded!RecordNext
    <3>1. /\ vm \in [VM -> {"running", "asleep", "stopped"}] /\ record \in [Pool -> SUBSET VM]
          /\ ~overlapped /\ \A q \in Pool : \A v \in record[q] : vm[v] # "stopped"
      BY <2>3 DEF Recorded!RecordNext, Recorded!NothingPromised, RecordInv, PoolInv, PoolTypeOK
    <3>2. ASSUME NEW v \in VM, Recorded!PutToSleep(v) PROVE Noted' /\ Stays
      <4>1. vm[v] = "running" /\ vm' = [vm EXCEPT ![v] = "asleep"] /\ record' = record
        BY <3>2 DEF Recorded!PutToSleep
      <4> QED
        BY <3>1, <4>1
    <3>3. ASSUME NEW v \in VM, Recorded!Wake(v) PROVE Noted' /\ Stays
      <4>1. /\ record[PoolOf[v]] # {} => v \in record[PoolOf[v]]
            /\ vm' = [vm EXCEPT ![v] = "running"] /\ record' = record
        BY <3>3 DEF Recorded!Wake
      <4>2. PoolOf[v] \in Pool
        BY PoolOpsAssumption
      <4> QED
        BY <3>1, <4>1, <4>2
    <3>4. ASSUME NEW q \in Pool, Recorded!BeginToWake(q) \/ Recorded!Forget(q) PROVE Noted' /\ Stays
      BY <3>1, <3>4 DEF Recorded!BeginToWake, Recorded!Forget
    <3>5. ASSUME NEW q \in Pool, NEW S \in SUBSET VM, Recorded!Note(q, S) PROVE Noted' /\ Stays
      BY <3>1, <3>5 DEF Recorded!Note
    <3> QED
      BY <2>3, <3>2, <3>3, <3>4, <3>5 DEF Recorded!RecordNext, Recorded!NothingPromised
  <2> QED
    BY <2>1, <2>2, <2>3 DEF RecordStep
<1>3. RecordInv /\ [PoolNext]_poolVars => RecordInv' /\ RecordStep
  BY RecordNextStep
<1>4. RecordInv /\ Noted /\ [PoolNext]_poolVars => RecordInv' /\ Noted' /\ Stays
  BY <1>2, <1>3
<1>5. PoolInit => RecordInv
  BY RecordStarts
<1> HIDE DEF Noted, Stays
<1>6. PoolSpec => [][Stays]_poolVars
  BY <1>1, <1>4, <1>5, PTL DEF PoolSpec
<1> QED
  BY <1>6 DEF Stays
=============================================================================
