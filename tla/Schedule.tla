------------------------------ MODULE Schedule ------------------------------
(***************************************************************************)
(* Scheduled pool tasks (schedule.go) kept in state-dir/schedule.json:     *)
(* every `sleeppool --at` or `wakepool --at` is a process that loads the   *)
(* file, appends its task and writes the file back; the daemon does the    *)
(* same once per tick, without the tasks whose time has come and which it  *)
(* has run.  Files are modelled down to the inode, because writeJSONAtomic *)
(* (util.go) gives every writer the same temporary name.                   *)
(***************************************************************************)
EXTENDS Naturals, FiniteSets

CONSTANTS
  Client,       \* the one-shot commands, each with the task it queues
  Daemon,       \* the daemon's process
  Inode,        \* enough inodes for every file and descriptor
  None,         \* no inode
  MaxKills,     \* how often a process may be killed in all
  MaxFailures   \* how often a write may fail in all

ASSUME ScheduleAssumption ==
  /\ Daemon \notin Client
  /\ None \notin Inode
  /\ IsFiniteSet(Client) /\ IsFiniteSet(Inode)
  /\ Cardinality(Inode) >= Cardinality(Client) + 4
  /\ MaxKills \in Nat /\ MaxFailures \in Nat

VARIABLES
  pc,        \* where each process stands
  loaded,    \* the tasks each process has in memory to write
  todo,      \* the daemon: loaded tasks found due and not yet run
  fd,        \* the inode each process has open for writing
  path,      \* the inode of schedule.json
  tmp,       \* the inode of schedule.json.tmp
  content,   \* what each inode holds
  clock,     \* the tasks whose time has come
  runs,      \* history: how often each task was executed
  queued,    \* history: the tasks whose command reported success
  kills,     \* how many processes were killed
  failures,  \* how many writes have failed
  overlapped \* history: two processes were in their passes at once

fileVars == <<path, tmp, content>>
faultVars == <<kills, failures, overlapped>>
scheduleVars == <<pc, loaded, todo, fd, fileVars, clock, runs, queued, faultVars>>

Process == Client \cup {Daemon}

JSON(tasks) == [state |-> "complete", tasks |-> tasks]
Truncated == [state |-> "truncated", tasks |-> {}]
Torn == [state |-> "torn", tasks |-> {}]

(* Not between loading the schedule and the end of the rename. *)
AtRest(p) == pc[p] \in {"idle", "done", "failed", "stopped"}

Readable == IF path = None THEN TRUE ELSE content[path].state = "complete"

(* What loadSchedule delivers: a missing file is an empty schedule. *)
OnDisk == IF path = None THEN {} ELSE content[path].tasks

(* The inode a file created now gets; which one makes no difference. *)
FreshInode == CHOOSE i \in Inode : i # path /\ i # tmp /\ \A p \in Process : i # fd[p]

Goto(p, where) == pc' = [pc EXCEPT ![p] = where]

(* p begins its pass, which nothing keeps it from while others are in one. *)
Enter(p, where) ==
  /\ Goto(p, where)
  /\ overlapped' = (overlapped \/ \E q \in Process \ {p} : ~AtRest(q))

(* The pass of p is given up, and what p held of it. *)
Abandon(p, where) ==
  /\ Goto(p, where)
  /\ loaded' = [loaded EXCEPT ![p] = {}] /\ fd' = [fd EXCEPT ![p] = None]

-----------------------------------------------------------------------------
ScheduleInit ==
  /\ pc = [p \in Process |-> "idle"]
  /\ loaded = [p \in Process |-> {}]
  /\ todo = {}
  /\ fd = [p \in Process |-> None]
  /\ path = None /\ tmp = None
  /\ content = [i \in Inode |-> Truncated]
  /\ clock = {}
  /\ runs = [c \in Client |-> 0]
  /\ queued = {}
  /\ kills = 0 /\ failures = 0 /\ overlapped = FALSE

(* queueTask: load and append; a directory that cannot be made or a        *)
(* schedule that cannot be read is an error.                               *)
QueueTask(c) ==
  /\ pc[c] = "idle"
  /\ \/ /\ Readable
        /\ Enter(c, "open") /\ loaded' = [loaded EXCEPT ![c] = OnDisk \cup {c}]
     \/ Goto(c, "failed") /\ UNCHANGED <<loaded, overlapped>>
  /\ UNCHANGED <<todo, fd, fileVars, clock, runs, queued, kills, failures>>

(* Wrong: what is run stays in the schedule. *)
RunDueTasksKeepingRun ==
  /\ pc[Daemon] = "idle"
  /\ IF Readable /\ OnDisk # {}
       THEN /\ loaded' = [loaded EXCEPT ![Daemon] = OnDisk]
            /\ todo' = OnDisk \cap clock
            /\ Enter(Daemon, "run")
       ELSE UNCHANGED <<loaded, todo, pc, overlapped>>
  /\ UNCHANGED <<fd, fileVars, clock, runs, queued, kills, failures>>

(* Wrong: what is not due is dropped from the schedule. *)
RunDueTasksDroppingRest ==
  /\ pc[Daemon] = "idle"
  /\ IF Readable /\ OnDisk # {}
       THEN /\ loaded' = [loaded EXCEPT ![Daemon] = {}]
            /\ todo' = OnDisk \cap clock
            /\ Enter(Daemon, "run")
       ELSE UNCHANGED <<loaded, todo, pc, overlapped>>
  /\ UNCHANGED <<fd, fileVars, clock, runs, queued, kills, failures>>

(* Wrong: the time of a task is not compared. *)
RunDueTasksEarly ==
  /\ pc[Daemon] = "idle"
  /\ IF Readable /\ OnDisk # {}
       THEN /\ loaded' = [loaded EXCEPT ![Daemon] = {}]
            /\ todo' = OnDisk
            /\ Enter(Daemon, "run")
       ELSE UNCHANGED <<loaded, todo, pc, overlapped>>
  /\ UNCHANGED <<fd, fileVars, clock, runs, queued, kills, failures>>

(* runDueTasks: load, and sort what is due from what remains; nothing is   *)
(* done for an unreadable or an empty schedule.                            *)
RunDueTasks ==
  /\ pc[Daemon] = "idle"
  /\ IF Readable /\ OnDisk # {}
       THEN /\ loaded' = [loaded EXCEPT ![Daemon] = OnDisk \ clock]
            /\ todo' = OnDisk \cap clock
            /\ Enter(Daemon, "run")
       ELSE UNCHANGED <<loaded, todo, pc, overlapped>>
  /\ UNCHANGED <<fd, fileVars, clock, runs, queued, kills, failures>>

(* One task of the list is executed, well or not. *)
RunTask(t) ==
  /\ pc[Daemon] = "run" /\ t \in todo
  /\ runs' = [runs EXCEPT ![t] = @ + 1]
  /\ todo' = todo \ {t}
  /\ UNCHANGED <<pc, loaded, fd, fileVars, clock, queued, faultVars>>

AllRun ==
  /\ pc[Daemon] = "run" /\ todo = {}
  /\ Goto(Daemon, "open")
  /\ UNCHANGED <<loaded, todo, fd, fileVars, clock, runs, queued, faultVars>>

(* Wrong: the schedule itself is opened and truncated. *)
OpenInPlace(p) ==
  /\ pc[p] = "open"
  /\ Goto(p, "write")
  /\ LET i == IF path # None THEN path ELSE FreshInode
     IN /\ path' = i
        /\ fd' = [fd EXCEPT ![p] = i]
        /\ content' = [content EXCEPT ![i] = Truncated]
  /\ UNCHANGED <<loaded, todo, tmp, clock, runs, queued, faultVars>>

(* os.WriteFile(tmp), first half: the file is created, or truncated even   *)
(* if another process is writing it.                                       *)
OpenTmp(p) ==
  /\ pc[p] = "open"
  /\ Goto(p, "write")
  /\ LET i == IF tmp # None THEN tmp ELSE FreshInode
     IN /\ tmp' = i
        /\ fd' = [fd EXCEPT ![p] = i]
        /\ content' = [content EXCEPT ![i] = Truncated]
  /\ UNCHANGED <<loaded, todo, path, clock, runs, queued, faultVars>>

(* os.WriteFile(tmp), second half: over another process's longer text ours *)
(* leaves a torn one.                                                      *)
WriteTmp(p) ==
  /\ pc[p] = "write"
  /\ Goto(p, "rename")
  /\ LET mine == JSON(loaded[p])
         now  == content[fd[p]]
     IN \E new \in (IF now \in {Truncated, mine} THEN {mine} ELSE {mine, Torn}) :
          content' = [content EXCEPT ![fd[p]] = new]
  /\ fd' = [fd EXCEPT ![p] = None]
  /\ UNCHANGED <<loaded, todo, path, tmp, clock, runs, queued, faultVars>>

(* os.Rename(tmp, path): whatever bears the temporary name becomes the     *)
(* schedule; without one, queueTask reports an error and the daemon warns. *)
Rename(p) ==
  /\ pc[p] = "rename"
  /\ IF tmp # None THEN path' = tmp /\ tmp' = None ELSE UNCHANGED <<path, tmp>>
  /\ Goto(p, IF p = Daemon THEN "idle" ELSE IF tmp # None THEN "done" ELSE "failed")
  /\ queued' = IF p # Daemon /\ tmp # None THEN queued \cup {p} ELSE queued
  /\ loaded' = [loaded EXCEPT ![p] = {}]
  /\ UNCHANGED <<todo, fd, content, clock, runs, faultVars>>

(* Wrong: a write that fails removes the schedule with the temporary file. *)
WriteFailsRemoving(p) ==
  /\ failures < MaxFailures /\ pc[p] \in {"open", "write", "rename"}
  /\ failures' = failures + 1
  /\ Abandon(p, IF p = Daemon THEN "idle" ELSE "failed")
  /\ path' = None /\ tmp' = None
  /\ UNCHANGED <<todo, content, clock, runs, queued, kills, overlapped>>

(* The open, the write or the rename is refused, on a full disk or a       *)
(* read-only state-dir: what was written stays under the temporary name,   *)
(* the command reports an error, and the daemon warns and goes on with a   *)
(* schedule that still holds what it has executed.                         *)
WriteFails(p) ==
  /\ failures < MaxFailures /\ pc[p] \in {"open", "write", "rename"}
  /\ failures' = failures + 1
  /\ IF pc[p] = "write"
       THEN \E new \in {content[fd[p]], Torn} : content' = [content EXCEPT ![fd[p]] = new]
       ELSE UNCHANGED content
  /\ Abandon(p, IF p = Daemon THEN "idle" ELSE "failed")
  /\ UNCHANGED <<todo, path, tmp, clock, runs, queued, kills, overlapped>>

(* A signal ends a process at once, wherever it stands (the daemon's own   *)
(* handler calls os.Exit).                                                 *)
Kill(p) ==
  /\ kills < MaxKills /\ ~(p # Daemon /\ AtRest(p)) /\ pc[p] # "stopped"
  /\ kills' = kills + 1
  /\ Abandon(p, IF p = Daemon THEN "stopped" ELSE "failed")
  /\ todo' = IF p = Daemon THEN {} ELSE todo
  /\ UNCHANGED <<fileVars, clock, runs, queued, failures, overlapped>>

Restart ==
  /\ pc[Daemon] = "stopped"
  /\ Goto(Daemon, "idle")
  /\ UNCHANGED <<loaded, todo, fd, fileVars, clock, runs, queued, faultVars>>

TimeComes(t) ==
  /\ t \notin clock
  /\ clock' = clock \cup {t}
  /\ UNCHANGED <<pc, loaded, todo, fd, fileVars, runs, queued, faultVars>>

Step(p) == OpenTmp(p) \/ WriteTmp(p) \/ Rename(p)

DaemonStep == RunDueTasks \/ (\E t \in Client : RunTask(t)) \/ AllRun \/ Step(Daemon)

ScheduleNext ==
  \/ DaemonStep \/ Restart
  \/ \E c \in Client : QueueTask(c) \/ Step(c) \/ TimeComes(c)
  \/ \E p \in Process : WriteFails(p) \/ Kill(p)

ScheduleSpec == ScheduleInit /\ [][ScheduleNext]_scheduleVars

(* The daemon's loop runs, gets to read the schedule, and is started       *)
(* again; a command once begun runs on unless it is killed; the clock runs.*)
ScheduleFairness ==
  /\ WF_scheduleVars(DaemonStep) /\ WF_scheduleVars(Restart)
  /\ \A c \in Client : WF_scheduleVars(Step(c)) /\ WF_scheduleVars(TimeComes(c))

FairSchedule == ScheduleSpec /\ ScheduleFairness

-----------------------------------------------------------------------------
Content == [state : {"complete", "truncated", "torn"}, tasks : SUBSET Client]

ScheduleTypeOK ==
  /\ pc \in [Process -> {"idle", "run", "open", "write", "rename", "done", "failed", "stopped"}]
  /\ loaded \in [Process -> SUBSET Client]
  /\ todo \subseteq clock /\ clock \subseteq Client
  /\ fd \in [Process -> Inode \cup {None}]
  /\ path \in Inode \cup {None} /\ tmp \in Inode \cup {None}
  /\ content \in [Inode -> Content]
  /\ runs \in [Client -> Nat]
  /\ queued \subseteq Client
  /\ kills \in 0 .. MaxKills /\ failures \in 0 .. MaxFailures /\ overlapped \in BOOLEAN

(* Atomicity of the file (writeJSONAtomic): until two passes overlap,      *)
(* whoever loads the schedule, wherever a writer is, was killed or has     *)
(* failed, finds a complete one.                                           *)
AlwaysReadable == ~overlapped => Readable

(* A task whose command reported success is in the schedule, if that can   *)
(* be read at all, until the daemon has run it: no write loses it.         *)
QueuedIsKept == Readable => \A t \in queued : runs[t] > 0 \/ t \in OnDisk

(* The file serves as the queue it is meant to be until two passes         *)
(* overlap, over kills and failing writes anywhere and restarts: what was  *)
(* queued leaves it only after it was executed, and nothing that is not    *)
(* queued and due is executed.  After that, nothing before its time.       *)
Queue == INSTANCE TaskQueue WITH
  Task <- Client, queue <- OnDisk, due <- clock, ran <- runs, shared <- overlapped
ImplementsQueue == Queue!QueueSpec

(* "executes and removes": until two passes overlap, a task is executed    *)
(* once, and once more at most for each kill and each failed write, which  *)
(* may be the daemon's and leave the executed task in the schedule.        *)
RunsAreCounted == ~overlapped => \A t \in Client : runs[t] <= 1 + kills + failures

(* A task that was queued is executed in the end, unless passes overlap. *)
QueuedIsRun ==
  \A t \in Client : (t \in queued /\ ~overlapped) ~> (runs[t] > 0 \/ overlapped)
=============================================================================
