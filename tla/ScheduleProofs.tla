--------------------------- MODULE ScheduleProofs ---------------------------
(***************************************************************************)
(* Proofs about the schedule file, for any number of commands, of kills    *)
(* and of failing writes: it implements TaskQueue, and until two processes *)
(* are inside their load-to-rename passes at once it is readable at every  *)
(* step and a task is executed once more for each kill and each failed     *)
(* write at most.                                                          *)
(***************************************************************************)
EXTENDS Schedule, FiniteSetTheorems, TLAPS

Writing == {"open", "write", "rename"}
Pass == {"run"} \cup Writing

(* Each process stands where it can, and at most one of them in its pass. *)
Turns ==
  /\ pc[Daemon] \notin {"done", "failed"}
  /\ \A c \in Client : pc[c] \notin {"run", "stopped"}
  /\ \A p, q \in Process : ~AtRest(p) /\ ~AtRest(q) => p = q

(* The schedule is complete and nobody's temporary file; what is open is   *)
(* the temporary file, empty until it is written as a whole.               *)
Files ==
  /\ path # None => content[path].state = "complete" /\ path # tmp
  /\ \A p \in Process :
       /\ pc[p] # "write" => fd[p] = None
       /\ pc[p] = "write" => fd[p] = tmp /\ tmp # None /\ content[tmp] = Truncated
       /\ pc[p] = "rename" => tmp # None /\ content[tmp] = JSON(loaded[p])

(* What a command is about to write is the schedule and its own task.      *)
Commands ==
  \A c \in Client :
    /\ pc[c] \in {"idle"} \cup Writing => c \notin OnDisk /\ runs[c] = 0
    /\ pc[c] \in Writing => loaded[c] = OnDisk \cup {c}

(* What the daemon has executed and is about to leave out. *)
Spent == IF pc[Daemon] \in Pass THEN (OnDisk \ loaded[Daemon]) \ todo ELSE {}

Execution ==
  /\ pc[Daemon] # "run" => todo = {}
  /\ todo \subseteq OnDisk
  /\ pc[Daemon] \in Pass => loaded[Daemon] \subseteq OnDisk \ todo
  /\ \A t \in Spent : runs[t] > 0
  /\ \A t \in OnDisk \ Spent : runs[t] <= kills + failures

RunsBounded == \A t \in Client : runs[t] <= 1 + kills + failures

(* What holds as long as one process at a time has been in its pass. *)
LoneInv == Turns /\ Files /\ Commands /\ Execution /\ RunsBounded

ScheduleInv == ScheduleTypeOK /\ (~overlapped => LoneInv)

-----------------------------------------------------------------------------
LEMMA OnDiskType == ScheduleTypeOK => OnDisk \subseteq Client
BY DEF ScheduleTypeOK, OnDisk, Content

(* The inodes in use: two have a name, and each process has one open.      *)
LEMMA FreshIsFresh ==
  ASSUME ScheduleTypeOK
  PROVE  FreshInode \in Inode /\ FreshInode # path /\ FreshInode # tmp
<1> DEFINE Opened == {fd[p] : p \in Process}
<1> DEFINE InUse == (Opened \cup {path}) \cup {tmp}
<1>1. IsFiniteSet(Process) /\ Cardinality(Process) = Cardinality(Client) + 1
  BY ScheduleAssumption, FS_AddElement DEF Process
<1>2. fd \in Surjection(Process, Opened)
  BY DEF ScheduleTypeOK, Surjection
<1>3. IsFiniteSet(Opened) /\ Cardinality(Opened) <= Cardinality(Process)
  BY <1>1, <1>2, FS_Surjection
<1> HIDE DEF Opened
<1>4. /\ IsFiniteSet(Opened \cup {path})
      /\ Cardinality(Opened \cup {path}) \in {Cardinality(Opened), Cardinality(Opened) + 1}
  BY <1>3, FS_AddElement
<1>5. /\ IsFiniteSet(InUse)
      /\ Cardinality(InUse) \in {Cardinality(Opened \cup {path}), Cardinality(Opened \cup {path}) + 1}
  BY <1>4, FS_AddElement
<1>6. /\ Cardinality(Client) \in Nat /\ Cardinality(Opened) \in Nat /\ Cardinality(Inode) \in Nat
      /\ Cardinality(Opened \cup {path}) \in Nat /\ Cardinality(InUse) \in Nat
  BY <1>3, <1>4, <1>5, ScheduleAssumption, FS_CardinalityType
<1>7. Cardinality(InUse) < Cardinality(Inode)
  BY <1>1, <1>3, <1>4, <1>5, <1>6, ScheduleAssumption
<1>8. ~(Inode \subseteq InUse)
  <2> SUFFICES ASSUME Inode \subseteq InUse PROVE Cardinality(Inode) <= Cardinality(InUse)
    BY <1>6, <1>7
  <2> HIDE DEF InUse
  <2> QED
    BY <1>5, FS_Subset
<1>9. \E i \in Inode : i # path /\ i # tmp /\ \A p \in Process : i # fd[p]
  BY <1>8 DEF Opened
<1> QED
  BY <1>9 DEF FreshInode

(* Whoever is in its pass is so alone, and finds nothing open. *)
LEMMA AllOthersRest ==
  ASSUME Turns, NEW p \in Process, ~AtRest(p)
  PROVE  \A q \in Process \ {p} : AtRest(q)
BY DEF Turns

-----------------------------------------------------------------------------
LEMMA ScheduleStarts == ScheduleInit => ScheduleInv
<1> SUFFICES ASSUME ScheduleInit PROVE ScheduleInv
  OBVIOUS
<1>1. OnDisk = {} /\ Spent = {}
  BY DEF ScheduleInit, OnDisk, Spent, Pass, Writing, Process
<1>2. ScheduleTypeOK
  <2>1. 0 \in 0 .. MaxKills /\ 0 \in 0 .. MaxFailures
    BY ScheduleAssumption
  <2>2. Truncated \in Content
    BY DEF Truncated, Content
  <2> QED
    BY <2>1, <2>2 DEF ScheduleInit, ScheduleTypeOK
<1>3. Turns /\ Files
  BY DEF ScheduleInit, Turns, Files, AtRest, Process
<1>4. Commands /\ Execution /\ RunsBounded
  BY <1>1 DEF ScheduleInit, Commands, Execution, RunsBounded, Pass, Writing, Process
<1> QED
  BY <1>2, <1>3, <1>4 DEF ScheduleInv, LoneInv

-----------------------------------------------------------------------------
(* The shapes are kept whoever overlaps with whom. *)
LEMMA TypesStay == ScheduleTypeOK /\ [ScheduleNext]_scheduleVars => ScheduleTypeOK'
<1> SUFFICES ASSUME ScheduleTypeOK, [ScheduleNext]_scheduleVars PROVE ScheduleTypeOK'
  OBVIOUS
<1>0. /\ Daemon \in Process /\ Daemon \notin Client /\ Client \subseteq Process
      /\ OnDisk \subseteq Client
      /\ Truncated \in Content /\ Torn \in Content
      /\ \A p \in Process : loaded[p] \subseteq Client /\ JSON(loaded[p]) \in Content
      /\ kills \in Nat /\ failures \in Nat
      /\ \A k \in Nat : k < MaxKills => k + 1 \in 0 .. MaxKills
      /\ \A k \in Nat : k < MaxFailures => k + 1 \in 0 .. MaxFailures
  BY ScheduleAssumption, OnDiskType
  DEF Process, Truncated, Torn, JSON, Content, ScheduleTypeOK
<1> USE <1>0 DEF Goto, Enter, Abandon, fileVars, faultVars
<1>1. ASSUME NEW c \in Client, QueueTask(c) PROVE ScheduleTypeOK'
  <2>1. overlapped' \in BOOLEAN
    BY <1>1 DEF ScheduleTypeOK, QueueTask
  <2> QED
    BY <1>1, <2>1 DEF ScheduleTypeOK, QueueTask
<1>2. CASE RunDueTasks
  <2>1. overlapped' \in BOOLEAN
    BY <1>2 DEF ScheduleTypeOK, RunDueTasks
  <2> QED
    BY <1>2, <2>1 DEF ScheduleTypeOK, RunDueTasks
<1>3. ASSUME NEW t \in Client, RunTask(t) PROVE ScheduleTypeOK'
  BY <1>3 DEF ScheduleTypeOK, RunTask
<1>4. CASE AllRun \/ Restart
  BY <1>4 DEF ScheduleTypeOK, AllRun, Restart
<1>5. ASSUME NEW p \in Process, OpenTmp(p) PROVE ScheduleTypeOK'
  <2>1. PICK i \in Inode : /\ tmp' = i /\ fd' = [fd EXCEPT ![p] = i]
                         /\ content' = [content EXCEPT ![i] = Truncated]
    BY <1>5, FreshIsFresh DEF OpenTmp, ScheduleTypeOK
  <2> QED
    BY <1>5, <2>1 DEF ScheduleTypeOK, OpenTmp
<1>6. ASSUME NEW p \in Process, WriteTmp(p) PROVE ScheduleTypeOK'
  <2>1. PICK new \in Content : content' = [content EXCEPT ![fd[p]] = new]
    BY <1>6 DEF WriteTmp
  <2> QED
    BY <1>6, <2>1 DEF ScheduleTypeOK, WriteTmp
<1>7. ASSUME NEW p \in Process, Rename(p) PROVE ScheduleTypeOK'
  BY <1>7 DEF ScheduleTypeOK, Rename, Process
<1>8. ASSUME NEW p \in Process, WriteFails(p) PROVE ScheduleTypeOK'
  <2>1. content' \in [Inode -> Content]
    BY <1>8 DEF ScheduleTypeOK, WriteFails
  <2> QED
    BY <1>8, <2>1 DEF ScheduleTypeOK, WriteFails
<1>9. ASSUME NEW p \in Process, Kill(p) PROVE ScheduleTypeOK'
  BY <1>9 DEF ScheduleTypeOK, Kill
<1>10. ASSUME NEW t \in Client, TimeComes(t) PROVE ScheduleTypeOK'
  BY <1>10 DEF ScheduleTypeOK, TimeComes
<1>11. CASE UNCHANGED scheduleVars
  BY <1>11 DEF ScheduleTypeOK, scheduleVars
<1> QED
  BY <1>1, <1>2, <1>3, <1>4, <1>5, <1>6, <1>7, <1>8, <1>9, <1>10, <1>11
  DEF ScheduleNext, DaemonStep, Step

-----------------------------------------------------------------------------
(* A pass begins while everybody rests.                                    *)
LEMMA QueueTaskKeeps ==
  ASSUME ~overlapped', ScheduleTypeOK, LoneInv, NEW c \in Client, QueueTask(c)
  PROVE  LoneInv'
<1> USE DEF LoneInv
<1>1. /\ c # Daemon /\ c \in Process /\ Daemon \in Process
      /\ pc'[c] = "open" => \A p \in Process : AtRest(p)
  BY ScheduleAssumption DEF QueueTask, Enter, Goto, AtRest, Process, ScheduleTypeOK
<1>2. /\ UNCHANGED <<todo, fd, path, tmp, content, clock, runs, queued, kills, failures>>
      /\ OnDisk' = OnDisk
      /\ pc' \in {[pc EXCEPT ![c] = "open"], [pc EXCEPT ![c] = "failed"]}
      /\ pc'[c] = "open" => loaded' = [loaded EXCEPT ![c] = OnDisk \cup {c}]
      /\ pc'[c] # "open" => loaded' = loaded
  BY <1>1 DEF QueueTask, Enter, Goto, OnDisk, fileVars, ScheduleTypeOK
<1>4. Turns'
  <2>1. pc'[c] \in {"open", "failed"} /\ \A p \in Process \ {c} : pc'[p] = pc[p]
    BY <1>1, <1>2 DEF ScheduleTypeOK
  <2>2. \A p \in Process : ~AtRest(p)' => p = c \/ (~AtRest(p) /\ pc'[c] # "open")
    BY <1>1, <2>1 DEF AtRest
  <2> QED
    BY <1>1, <2>1, <2>2 DEF Turns, Process, AtRest
<1>5. Files'
  <2>1. /\ pc'[c] \in {"open", "failed"}
        /\ \A p \in Process \ {c} : pc'[p] = pc[p] /\ loaded'[p] = loaded[p]
    BY <1>1, <1>2 DEF ScheduleTypeOK
  <2>2. fd[c] = None
    BY <1>1 DEF Files, QueueTask
  <2> QED
    BY <1>1, <1>2, <2>1, <2>2 DEF Files
<1>6. Commands'
  BY <1>1, <1>2 DEF Commands, QueueTask, AtRest, ScheduleTypeOK, Writing, Process
<1>7. Execution' /\ RunsBounded'
  <2>1. pc'[Daemon] = pc[Daemon] /\ loaded'[Daemon] = loaded[Daemon]
    BY <1>1, <1>2 DEF ScheduleTypeOK
  <2> QED
    BY <1>2, <2>1 DEF Execution, Spent, RunsBounded
<1> QED
  BY <1>4, <1>5, <1>6, <1>7

LEMMA RunDueTasksKeeps ==
  ASSUME ~overlapped', ScheduleTypeOK, LoneInv, RunDueTasks
  PROVE  LoneInv'
<1> USE DEF LoneInv
<1>1. Daemon \notin Client /\ Daemon \in Process
  BY ScheduleAssumption DEF Process
<1>2. CASE UNCHANGED <<loaded, todo, pc, overlapped>>
  <2>1. UNCHANGED scheduleVars
    BY <1>2 DEF RunDueTasks, scheduleVars, fileVars, faultVars
  <2> QED
    BY <2>1 DEF scheduleVars, fileVars, faultVars, ScheduleTypeOK, Turns, Files, Commands, Execution, Spent,
                OnDisk, AtRest, RunsBounded
<1>3. CASE Enter(Daemon, "run") /\ loaded' = [loaded EXCEPT ![Daemon] = OnDisk \ clock] /\ todo' = OnDisk \cap clock
  <2>1. /\ UNCHANGED <<fd, path, tmp, content, clock, runs, queued, kills, failures>>
        /\ OnDisk' = OnDisk
        /\ pc' = [pc EXCEPT ![Daemon] = "run"]
        /\ pc[Daemon] = "idle"
        /\ \A p \in Process : AtRest(p)
    BY <1>1, <1>3 DEF RunDueTasks, Enter, Goto, AtRest, OnDisk, fileVars
  <2>2. /\ pc'[Daemon] = "run" /\ loaded'[Daemon] = OnDisk \ clock
        /\ \A c \in Client : pc'[c] = pc[c] /\ loaded'[c] = loaded[c]
    BY <1>1, <1>3, <2>1 DEF ScheduleTypeOK, Process
  <2>4. Turns'
    BY <1>1, <1>3, <2>1 DEF Turns, AtRest, ScheduleTypeOK
  <2>5. Files'
    BY <1>1, <1>3, <2>1 DEF Files, AtRest, ScheduleTypeOK
  <2>6. Commands'
    BY <2>1, <2>2 DEF Commands
  <2>7. Execution' /\ RunsBounded'
    <3>1. Spent = {} /\ Spent' = {}
      BY <1>3, <2>1, <2>2, OnDiskType DEF Spent, Pass, Writing
    <3> QED
      BY <1>3, <2>1, <2>2, <3>1 DEF Execution, RunsBounded
  <2> QED
    BY <2>4, <2>5, <2>6, <2>7
<1> QED
  BY <1>2, <1>3 DEF RunDueTasks

(* The daemon is alone with the schedule. *)
LEMMA RunTaskKeeps ==
  ASSUME ScheduleTypeOK, LoneInv, NEW t \in Client, RunTask(t)
  PROVE  LoneInv'
<1> USE DEF LoneInv
<1>1. /\ UNCHANGED <<pc, loaded, fd, path, tmp, content, clock, queued, kills, failures>>
      /\ OnDisk' = OnDisk
      /\ pc[Daemon] = "run" /\ t \in todo /\ todo' = todo \ {t}
      /\ runs' = [runs EXCEPT ![t] = @ + 1]
  BY DEF RunTask, fileVars, faultVars, OnDisk
<1>2. /\ runs'[t] = runs[t] + 1 /\ runs[t] \in Nat /\ kills \in Nat /\ failures \in Nat
      /\ \A c \in Client \ {t} : runs'[c] = runs[c] /\ runs[c] \in Nat
  BY <1>1, ScheduleAssumption DEF ScheduleTypeOK
<1>3. t \in OnDisk /\ t \notin Spent /\ Spent' = Spent \cup {t}
  BY <1>1 DEF Execution, Spent, Pass
<1>5. Turns' /\ Files'
  BY <1>1 DEF Turns, Files, AtRest
<1>6. Commands'
  BY <1>1, <1>2, <1>3 DEF Commands
<1>7. runs[t] <= kills + failures
  BY <1>3 DEF Execution
<1>8. Execution' /\ RunsBounded'
  <2>1. \A s \in OnDisk : s \in Client
    BY OnDiskType
  <2>2. RunsBounded'
    BY <1>1, <1>2, <1>7 DEF RunsBounded
  <2>3. Execution'
    BY <1>1, <1>2, <1>3, <1>7, <2>1 DEF Execution, Spent
  <2> QED
    BY <2>2, <2>3
<1> QED
  BY <1>5, <1>6, <1>8

LEMMA AllRunKeeps ==
  ASSUME ScheduleTypeOK, LoneInv, AllRun
  PROVE  LoneInv'
<1> USE DEF LoneInv
<1>1. /\ UNCHANGED <<loaded, todo, fd, path, tmp, content, clock, runs, queued, kills, failures>>
      /\ OnDisk' = OnDisk
      /\ pc[Daemon] = "run" /\ todo = {} /\ pc' = [pc EXCEPT ![Daemon] = "open"]
  BY DEF AllRun, Goto, fileVars, faultVars, OnDisk
<1>2. /\ Daemon \in Process /\ Daemon \notin Client
      /\ pc'[Daemon] = "open" /\ \A c \in Client : pc'[c] = pc[c]
  BY <1>1, ScheduleAssumption DEF ScheduleTypeOK, Process
<1>4. Turns'
  BY <1>1, <1>2 DEF Turns, AtRest, Process
<1>5. Files'
  BY <1>1, <1>2 DEF Files, Process
<1>6. Commands'
  BY <1>1, <1>2 DEF Commands
<1>7. Execution' /\ RunsBounded'
  <2>1. Spent' = Spent
    BY <1>1, <1>2 DEF Spent, Pass, Writing
  <2> QED
    BY <1>1, <1>2, <2>1 DEF Execution, RunsBounded, Pass
<1> QED
  BY <1>4, <1>5, <1>6, <1>7

-----------------------------------------------------------------------------
(* Who holds the turn, and what that leaves of the others.                 *)
LEMMA AloneInPass ==
  ASSUME ScheduleTypeOK, LoneInv, NEW p \in Process, pc[p] \in Pass
  PROVE  /\ \A q \in Process \ {p} : pc[q] \notin Pass /\ fd[q] = None
         /\ \A c \in Client : c # p => pc[c] \notin Writing
         /\ p # Daemon => Spent = {} /\ todo = {} /\ p \in Client
         /\ Daemon \in Process /\ Daemon \notin Client /\ Client \subseteq Process
<1> USE DEF LoneInv
<1>1. Daemon \in Process /\ Daemon \notin Client /\ Client \subseteq Process
  BY ScheduleAssumption DEF Process
<1>2. \A q \in Process \ {p} : pc[q] \notin Pass
  BY DEF Turns, AtRest, Pass, Writing
<1>3. \A q \in Process \ {p} : fd[q] = None
  BY <1>2 DEF Files, Pass, Writing
<1>4. p # Daemon => Spent = {} /\ todo = {} /\ p \in Client
  BY <1>1, <1>2 DEF Spent, Execution, Pass, Process
<1> QED
  BY <1>1, <1>2, <1>3, <1>4 DEF Pass

(* Steps of the write leave the schedule alone until the rename. *)
LEMMA OpenKeeps ==
  ASSUME ScheduleTypeOK, LoneInv, NEW p \in Process, OpenTmp(p)
  PROVE  LoneInv' /\ OnDisk' = OnDisk
<1> USE DEF LoneInv
<1>1. pc[p] = "open" /\ pc[p] \in Pass
  BY DEF OpenTmp, Pass, Writing
<1> DEFINE i == IF tmp # None THEN tmp ELSE FreshInode
<1>2. /\ UNCHANGED <<loaded, todo, path, clock, runs, queued, kills, failures>>
      /\ tmp' = i /\ fd' = [fd EXCEPT ![p] = i]
      /\ content' = [content EXCEPT ![i] = Truncated]
      /\ pc' = [pc EXCEPT ![p] = "write"]
  BY DEF OpenTmp, Goto, faultVars
<1>3. i \in Inode /\ i # path /\ i # None
  <2>2. path # None => path # tmp
    BY DEF Files
  <2> QED
    BY <2>2, FreshIsFresh, ScheduleAssumption DEF ScheduleTypeOK
<1> HIDE DEF i
<1>4. /\ pc'[p] = "write" /\ fd'[p] = i /\ content'[i] = Truncated
      /\ \A q \in Process \ {p} : pc'[q] = pc[q] /\ fd'[q] = fd[q]
      /\ \A k \in Inode \ {i} : content'[k] = content[k]
  BY <1>2, <1>3 DEF ScheduleTypeOK
<1>5. OnDisk' = OnDisk
  BY <1>2, <1>3, <1>4 DEF OnDisk, ScheduleTypeOK
<1>7. Turns'
  BY <1>1, <1>4, AloneInPass DEF Turns, AtRest, Pass, Writing, Process
<1>8. Files'
  BY <1>1, <1>2, <1>3, <1>4, AloneInPass DEF Files, Pass, Writing, ScheduleTypeOK
<1>9. Commands' /\ Execution' /\ RunsBounded'
  <2>1. Spent' = Spent
    BY <1>1, <1>2, <1>4, <1>5, AloneInPass DEF Spent, Pass, Writing
  <2>2. Commands'
    BY <1>1, <1>2, <1>4, <1>5, AloneInPass DEF Commands, Writing
  <2>3. Execution' /\ RunsBounded'
    BY <1>1, <1>2, <1>4, <1>5, <2>1, AloneInPass DEF Execution, RunsBounded, Pass, Writing
  <2> QED
    BY <2>2, <2>3
<1> QED
  BY <1>5, <1>7, <1>8, <1>9

LEMMA WriteKeeps ==
  ASSUME ScheduleTypeOK, LoneInv, NEW p \in Process, WriteTmp(p)
  PROVE  LoneInv' /\ OnDisk' = OnDisk
<1> USE DEF LoneInv
<1>1. pc[p] = "write" /\ pc[p] \in Pass
  BY DEF WriteTmp, Pass, Writing
<1>2. /\ fd[p] = tmp /\ tmp # None /\ tmp # path /\ tmp \in Inode
      /\ content[tmp] = Truncated
  BY <1>1 DEF Files, ScheduleTypeOK
<1>3. /\ UNCHANGED <<loaded, todo, path, tmp, clock, runs, queued, kills, failures>>
      /\ fd' = [fd EXCEPT ![p] = None]
      /\ content' = [content EXCEPT ![tmp] = JSON(loaded[p])]
      /\ pc' = [pc EXCEPT ![p] = "rename"]
  BY <1>2 DEF WriteTmp, Goto, faultVars
<1>4. /\ pc'[p] = "rename" /\ fd'[p] = None /\ content'[tmp] = JSON(loaded[p])
      /\ \A q \in Process \ {p} : pc'[q] = pc[q] /\ fd'[q] = fd[q]
      /\ \A k \in Inode \ {tmp} : content'[k] = content[k]
  BY <1>2, <1>3 DEF ScheduleTypeOK
<1>5. OnDisk' = OnDisk
  BY <1>2, <1>3, <1>4 DEF OnDisk, ScheduleTypeOK
<1>7. Turns'
  BY <1>1, <1>4, AloneInPass DEF Turns, AtRest, Pass, Writing, Process
<1>8. Files'
  BY <1>1, <1>2, <1>3, <1>4, AloneInPass DEF Files, Pass, Writing, ScheduleTypeOK, JSON
<1>9. Commands' /\ Execution' /\ RunsBounded'
  <2>1. Spent' = Spent
    BY <1>1, <1>3, <1>4, <1>5, AloneInPass DEF Spent, Pass, Writing
  <2>2. Commands'
    BY <1>1, <1>3, <1>4, <1>5, AloneInPass DEF Commands, Writing
  <2>3. Execution' /\ RunsBounded'
    BY <1>1, <1>3, <1>4, <1>5, <2>1, AloneInPass DEF Execution, RunsBounded, Pass, Writing
  <2> QED
    BY <2>2, <2>3
<1> QED
  BY <1>5, <1>7, <1>8, <1>9

(* The rename puts in force what was written. *)
LEMMA RenameKeeps ==
  ASSUME ScheduleTypeOK, LoneInv, NEW p \in Process, Rename(p)
  PROVE  LoneInv' /\ OnDisk' = loaded[p]
<1> USE DEF LoneInv
<1>1. pc[p] = "rename" /\ pc[p] \in Pass
  BY DEF Rename, Pass, Writing
<1>2. tmp # None /\ tmp \in Inode /\ content[tmp] = JSON(loaded[p])
  BY <1>1 DEF Files, ScheduleTypeOK
<1>3. /\ UNCHANGED <<todo, fd, content, clock, runs, kills, failures>>
      /\ path' = tmp /\ tmp' = None
      /\ pc' = [pc EXCEPT ![p] = IF p = Daemon THEN "idle" ELSE "done"]
      /\ loaded' = [loaded EXCEPT ![p] = {}]
      /\ queued' \in {queued, queued \cup {p}} /\ (p = Daemon => queued' = queued)
  BY <1>2 DEF Rename, Goto, faultVars
<1>4. /\ pc'[p] = IF p = Daemon THEN "idle" ELSE "done"
      /\ \A q \in Process \ {p} : pc'[q] = pc[q] /\ loaded'[q] = loaded[q]
  BY <1>3 DEF ScheduleTypeOK
<1>5. OnDisk' = loaded[p] /\ Readable'
  BY <1>2, <1>3 DEF OnDisk, Readable, JSON
<1>7. Turns'
  BY <1>1, <1>4, AloneInPass DEF Turns, AtRest, Pass, Writing, Process
<1>8. Files'
  BY <1>1, <1>2, <1>3, <1>4, <1>5, AloneInPass DEF Files, Readable, Pass, Writing
<1>9. CASE p = Daemon
  <2>1. /\ loaded[p] \subseteq OnDisk /\ todo = {} /\ Spent = OnDisk \ loaded[p]
        /\ Spent' = {}
    BY <1>1, <1>4, <1>9 DEF Execution, Spent, Pass, Writing
  <2>2. Commands'
    BY <1>1, <1>3, <1>4, <1>5, <1>9, <2>1, AloneInPass DEF Commands, Writing
  <2>3. Execution' /\ RunsBounded'
    BY <1>3, <1>4, <1>5, <1>9, <2>1 DEF Execution, RunsBounded, Pass, Writing
  <2> QED
    BY <1>5, <1>7, <1>8, <2>2, <2>3
<1>10. CASE p # Daemon
  <2>1. /\ p \in Client /\ loaded[p] = OnDisk \cup {p} /\ p \notin OnDisk /\ runs[p] = 0
        /\ todo = {} /\ Spent = {}
    BY <1>1, <1>10, AloneInPass DEF Commands, Writing
  <2>2. /\ pc'[Daemon] = pc[Daemon] /\ pc[Daemon] \notin Pass
        /\ Spent' = {}
    BY <1>1, <1>4, <1>10, AloneInPass DEF Spent
  <2>3. Commands'
    BY <1>1, <1>3, <1>4, <1>5, <1>10, <2>1, AloneInPass DEF Commands, Writing
  <2>4. Execution' /\ RunsBounded'
    BY <1>3, <1>5, <2>1, <2>2, ScheduleAssumption
    DEF Execution, RunsBounded, Pass, ScheduleTypeOK
  <2> QED
    BY <1>5, <1>7, <1>8, <2>3, <2>4
<1> QED
  BY <1>9, <1>10

(* A pass given up leaves the schedule as it is, and what the daemon has   *)
(* executed may be executed once more.                                     *)
LEMMA AbandonKeeps ==
  ASSUME ScheduleTypeOK, LoneInv, NEW p \in Process, NEW where, Abandon(p, where),
         IF p = Daemon THEN where \in {"idle", "stopped"} ELSE where = "failed",
         todo' = todo \/ (p = Daemon /\ todo' = {}),
         p = Daemon => todo' = {},
         content' = content \/ (pc[p] = "write" /\ \E new : content' = [content EXCEPT ![fd[p]] = new]),
         UNCHANGED <<path, tmp, clock, runs, queued>>,
         kills' \in Nat /\ failures' \in Nat /\ kills' + failures' = kills + failures + 1
  PROVE  LoneInv' /\ OnDisk' = OnDisk
<1> USE DEF LoneInv
<1>1. /\ pc' = [pc EXCEPT ![p] = where]
      /\ loaded' = [loaded EXCEPT ![p] = {}] /\ fd' = [fd EXCEPT ![p] = None]
  BY DEF Abandon, Goto
<1>2. /\ Daemon \in Process /\ Daemon \notin Client /\ Client \subseteq Process
      /\ kills \in Nat /\ failures \in Nat /\ \A t \in Client : runs[t] \in Nat
      /\ p # Daemon => p \in Client
  BY ScheduleAssumption DEF Process, ScheduleTypeOK
<1>3. /\ pc'[p] = where /\ fd'[p] = None
      /\ \A q \in Process \ {p} :
           pc'[q] = pc[q] /\ loaded'[q] = loaded[q] /\ fd'[q] = fd[q]
  BY <1>1 DEF ScheduleTypeOK
<1>4. /\ OnDisk' = OnDisk
      /\ path # None => content'[path] = content[path]
      /\ content' # content => pc[p] = "write"
  <2>1. pc[p] = "write" => fd[p] = tmp
    BY DEF Files
  <2>2. path # None => content'[path] = content[path]
    BY <2>1 DEF Files, ScheduleTypeOK
  <2> QED
    BY <2>2 DEF OnDisk
<1>5. Turns'
  BY <1>2, <1>3 DEF Turns, AtRest, Process
<1>6. Files'
  <2>1. CASE content' = content
    BY <1>1, <1>3, <2>1 DEF Files
  <2>2. CASE content' # content
    <3>1. \A q \in Process \ {p} : pc[q] \notin Pass /\ fd[q] = None
      BY <1>4, <2>2, AloneInPass DEF Pass, Writing
    <3> QED
      BY <1>1, <1>3, <1>4, <2>2, <3>1 DEF Files, Pass, Writing
  <2> QED
    BY <2>1, <2>2
<1>7. Commands'
  BY <1>1, <1>2, <1>3, <1>4 DEF Commands, Writing
<1>8. OnDisk \subseteq Client
  BY OnDiskType
<1>11. \A t \in Client : runs'[t] = runs[t] /\ runs[t] <= kills' + failures'
  BY <1>2 DEF RunsBounded
<1>12. \A n, k, f \in Nat : n <= k + f => n <= 1 + k + f
  OBVIOUS
<1>13. RunsBounded'
  BY <1>2, <1>11, <1>12 DEF RunsBounded
<1>9. CASE p = Daemon
  <2>1. Spent' = {} /\ todo' = {} /\ pc'[Daemon] \in {"idle", "stopped"}
    BY <1>1, <1>3, <1>9 DEF Spent, Pass, Writing
  <2>2. \A t \in Client : runs[t] <= kills' + failures'
    BY <1>11
  <2>3. Execution'
    BY <1>1, <1>2, <1>4, <1>8, <2>1, <2>2 DEF Execution, Pass, Writing
  <2> QED
    BY <1>4, <1>5, <1>6, <1>7, <1>13, <2>3
<1>10. CASE p # Daemon
  <2>1. /\ Spent' = Spent /\ todo' = todo
        /\ pc'[Daemon] = pc[Daemon] /\ loaded'[Daemon] = loaded[Daemon]
    BY <1>1, <1>2, <1>3, <1>4, <1>10 DEF Spent
  <2>3. Execution'
    BY <1>1, <1>2, <1>4, <1>8, <1>11, <2>1 DEF Execution
  <2> QED
    BY <1>4, <1>5, <1>6, <1>7, <1>13, <2>3
<1> QED
  BY <1>9, <1>10

LEMMA KillKeeps ==
  ASSUME ScheduleTypeOK, LoneInv, NEW p \in Process, Kill(p)
  PROVE  LoneInv' /\ OnDisk' = OnDisk
<1> DEFINE where == IF p = Daemon THEN "stopped" ELSE "failed"
<1>1. Abandon(p, where) /\ kills' \in Nat /\ failures' \in Nat
      /\ kills' + failures' = kills + failures + 1
  BY ScheduleAssumption DEF Kill, ScheduleTypeOK
<1>2. /\ UNCHANGED <<path, tmp, content, clock, runs, queued>>
      /\ todo' = todo \/ (p = Daemon /\ todo' = {})
      /\ p = Daemon => todo' = {}
  BY DEF Kill, fileVars
<1>3. IF p = Daemon THEN where \in {"idle", "stopped"} ELSE where = "failed"
  OBVIOUS
<1> HIDE DEF where
<1> QED
  BY <1>1, <1>2, <1>3, AbandonKeeps

LEMMA WriteFailsKeeps ==
  ASSUME ScheduleTypeOK, LoneInv, NEW p \in Process, WriteFails(p)
  PROVE  LoneInv' /\ OnDisk' = OnDisk
<1> DEFINE where == IF p = Daemon THEN "idle" ELSE "failed"
<1>1. Abandon(p, where) /\ kills' \in Nat /\ failures' \in Nat
      /\ kills' + failures' = kills + failures + 1
  BY ScheduleAssumption DEF WriteFails, ScheduleTypeOK
<1>2. /\ UNCHANGED <<path, tmp, clock, runs, queued>>
      /\ todo' = todo
      /\ p = Daemon => todo' = {}
  BY DEF WriteFails, LoneInv, Execution
<1>3. content' = content \/ (pc[p] = "write" /\ \E new : content' = [content EXCEPT ![fd[p]] = new])
  BY DEF WriteFails
<1>4. IF p = Daemon THEN where \in {"idle", "stopped"} ELSE where = "failed"
  OBVIOUS
<1> HIDE DEF where
<1> QED
  BY <1>1, <1>2, <1>3, <1>4, AbandonKeeps

LEMMA RestartKeeps ==
  ASSUME ScheduleTypeOK, LoneInv, Restart
  PROVE  LoneInv' /\ OnDisk' = OnDisk
<1> USE DEF LoneInv
<1>1. /\ UNCHANGED <<loaded, todo, fd, path, tmp, content, clock, runs, queued, kills, failures>>
      /\ OnDisk' = OnDisk
      /\ pc[Daemon] = "stopped" /\ pc' = [pc EXCEPT ![Daemon] = "idle"]
  BY DEF Restart, Goto, fileVars, faultVars, OnDisk
<1>2. /\ Daemon \in Process /\ Daemon \notin Client
      /\ pc'[Daemon] = "idle" /\ \A q \in Process \ {Daemon} : pc'[q] = pc[q]
  BY <1>1, ScheduleAssumption DEF ScheduleTypeOK, Process
<1>4. Turns'
  BY <1>1, <1>2 DEF Turns, AtRest, Process
<1>5. Files'
  BY <1>1, <1>2 DEF Files
<1>6. Commands'
  BY <1>1, <1>2 DEF Commands, Process
<1>7. Execution' /\ RunsBounded'
  <2>1. Spent' = Spent
    BY <1>1, <1>2 DEF Spent, Pass, Writing
  <2> QED
    BY <1>1, <1>2, <2>1 DEF Execution, RunsBounded, Pass, Writing
<1> QED
  BY <1>1, <1>4, <1>5, <1>6, <1>7

LEMMA TimeKeeps ==
  ASSUME ScheduleTypeOK, LoneInv, NEW t \in Client, TimeComes(t)
  PROVE  LoneInv' /\ OnDisk' = OnDisk
<1> USE DEF LoneInv
<1>1. /\ UNCHANGED <<pc, loaded, todo, fd, path, tmp, content, runs, queued, kills, failures>>
      /\ OnDisk' = OnDisk /\ clock' = clock \cup {t}
  BY DEF TimeComes, fileVars, faultVars, OnDisk
<1>3. Turns' /\ Files' /\ Commands'
  BY <1>1 DEF Turns, Files, Commands, AtRest
<1>4. Execution' /\ RunsBounded'
  BY <1>1 DEF Execution, Spent, RunsBounded
<1> QED
  BY <1>1, <1>3, <1>4

LEMMA StutterKeeps ==
  ASSUME ScheduleTypeOK, LoneInv, UNCHANGED scheduleVars
  PROVE  LoneInv' /\ OnDisk' = OnDisk
BY DEF LoneInv, scheduleVars, fileVars, faultVars, ScheduleTypeOK, Turns, Files, Commands, Execution, Spent,
       OnDisk, AtRest, RunsBounded

LEMMA OverlapStays == ~overlapped' /\ [ScheduleNext]_scheduleVars => ~overlapped
BY DEF ScheduleNext, DaemonStep, Step, QueueTask, RunDueTasks, RunTask, AllRun, OpenTmp, WriteTmp,
       Rename, WriteFails, Kill, Restart, TimeComes, Enter, faultVars, scheduleVars

LEMMA LoneStep ==
  ASSUME ScheduleTypeOK, LoneInv, ~overlapped', [ScheduleNext]_scheduleVars
  PROVE  LoneInv'
<1>0. Daemon \in Process /\ Client \subseteq Process
  BY DEF Process
<1>1. CASE RunDueTasks \/ (\E t \in Client : RunTask(t)) \/ AllRun
  BY <1>1, RunDueTasksKeeps, RunTaskKeeps, AllRunKeeps
<1>2. CASE \E p \in Process : Step(p)
  BY <1>2, OpenKeeps, WriteKeeps, RenameKeeps DEF Step
<1>3. CASE \E c \in Client : QueueTask(c) \/ TimeComes(c)
  BY <1>3, QueueTaskKeeps, TimeKeeps
<1>4. CASE Restart \/ \E p \in Process : WriteFails(p) \/ Kill(p)
  BY <1>4, RestartKeeps, WriteFailsKeeps, KillKeeps
<1>5. CASE UNCHANGED scheduleVars
  BY <1>5, StutterKeeps
<1> QED
  BY <1>0, <1>1, <1>2, <1>3, <1>4, <1>5 DEF ScheduleNext, DaemonStep

LEMMA ScheduleInvariant == ScheduleSpec => []ScheduleInv
<1>1. ScheduleInv /\ [ScheduleNext]_scheduleVars => ScheduleInv'
  BY TypesStay, OverlapStays, LoneStep DEF ScheduleInv
<1> QED
  BY <1>1, ScheduleStarts, PTL DEF ScheduleSpec

(* schedule.json has the shape it is given, no more inodes are in use than *)
(* there are, and what is to be executed was due: whoever overlaps.        *)
THEOREM ScheduleTypeCorrect == ScheduleSpec => []ScheduleTypeOK
<1>1. ScheduleInv => ScheduleTypeOK
  BY DEF ScheduleInv
<1> QED
  BY <1>1, ScheduleInvariant, PTL

(* writeJSONAtomic: until two passes overlap, over kills and failures at   *)
(* any step of a write, a reader finds a complete file.                    *)
THEOREM ScheduleIsReadable == ScheduleSpec => []AlwaysReadable
<1>1. ScheduleInv => AlwaysReadable
  BY DEF ScheduleInv, LoneInv, Files, AlwaysReadable, Readable
<1> QED
  BY <1>1, ScheduleInvariant, PTL

(* runDueTasks: until two passes overlap, a task is executed once, and     *)
(* once more at most for each kill and each write that failed.             *)
THEOREM RunsAreBounded == ScheduleSpec => []RunsAreCounted
<1>1. ScheduleInv => RunsAreCounted
  BY DEF ScheduleInv, LoneInv, RunsBounded, RunsAreCounted
<1> QED
  BY <1>1, ScheduleInvariant, PTL

-----------------------------------------------------------------------------
LEMMA QueueStarts == ScheduleInit => Queue!QueueInit
BY DEF ScheduleInit, Queue!QueueInit, OnDisk

(* A command's rename is the moment its task is queued, ...                *)
LEMMA CommandEnqueues ==
  ASSUME ScheduleTypeOK, LoneInv, NEW c \in Client, Rename(c)
  PROVE  Queue!Enqueue(c)
<1>1. c \in Process /\ pc[c] \in Writing /\ UNCHANGED <<clock, runs, overlapped>>
  BY DEF Process, Rename, Writing, faultVars
<1>2. OnDisk' = OnDisk \cup {c} /\ c \notin OnDisk /\ runs[c] = 0
  BY <1>1, RenameKeeps DEF LoneInv, Commands
<1> QED
  BY <1>1, <1>2 DEF Queue!Enqueue

(* ... the daemon's the one at which what it has executed leaves.          *)
LEMMA DaemonDequeues ==
  ASSUME ScheduleTypeOK, LoneInv, Rename(Daemon)
  PROVE  Queue!Dequeue
<1>1. Daemon \in Process /\ pc[Daemon] = "rename" /\ UNCHANGED <<clock, runs, overlapped>>
  BY DEF Process, Rename, faultVars
<1>2. OnDisk' = loaded[Daemon]
  BY <1>1, RenameKeeps
<1>3. /\ loaded[Daemon] \subseteq OnDisk
      /\ \A t \in OnDisk \ loaded[Daemon] : runs[t] > 0
  BY <1>1 DEF LoneInv, Execution, Spent, Pass, Writing
<1> QED
  BY <1>1, <1>2, <1>3 DEF Queue!Dequeue

LEMMA TaskIsExecuted ==
  ASSUME ScheduleTypeOK, LoneInv, NEW t \in Client, RunTask(t)
  PROVE  Queue!Execute(t)
<1>1. t \in OnDisk \cap clock
  BY DEF RunTask, LoneInv, Execution, ScheduleTypeOK
<1>2. /\ UNCHANGED <<clock, overlapped>> /\ OnDisk' = OnDisk
      /\ runs' = [runs EXCEPT ![t] = @ + 1]
  BY DEF RunTask, fileVars, faultVars, OnDisk
<1> QED
  BY <1>1, <1>2 DEF Queue!Execute

(* The step that makes two passes overlap, and all that come after it.      *)
LEMMA OverlapKeepsNothing ==
  ASSUME ScheduleTypeOK, ScheduleTypeOK', overlapped', [ScheduleNext]_scheduleVars
  PROVE  Queue!NothingKept
<1>1. overlapped' = TRUE /\ OnDisk' \in SUBSET Client /\ clock' \subseteq Client
  <2>1. OnDisk' \subseteq Client
    BY DEF ScheduleTypeOK, OnDisk, Content
  <2> QED
    BY <2>1 DEF ScheduleTypeOK
<1>2. CASE \E t \in Client : RunTask(t)
  <2>1. PICK t \in Client : RunTask(t)
    BY <1>2
  <2>2. t \in clock /\ clock' = clock /\ runs' = [runs EXCEPT ![t] = @ + 1]
    BY <2>1 DEF RunTask, ScheduleTypeOK
  <2> QED
    BY <1>1, <2>2 DEF Queue!NothingKept
<1>3. CASE ~\E t \in Client : RunTask(t)
  <2>1. clock \subseteq clock' /\ runs' = runs
    BY <1>3 DEF ScheduleNext, DaemonStep, Step, QueueTask, RunDueTasks, AllRun, OpenTmp, WriteTmp,
                Rename, WriteFails, Kill, Restart, TimeComes, scheduleVars
  <2> QED
    BY <1>1, <2>1 DEF Queue!NothingKept
<1> QED
  BY <1>2, <1>3

LEMMA LoneQueueStep ==
  ASSUME ScheduleTypeOK, LoneInv, ~overlapped, ~overlapped', [ScheduleNext]_scheduleVars
  PROVE  [Queue!QueueNext]_(Queue!queueVars)
<1> DEFINE Idles == UNCHANGED <<OnDisk, clock, runs, overlapped>>
<1>0. Daemon \in Process /\ Client \subseteq Process
  BY DEF Process
<1>1. CASE \E t \in Client : RunTask(t)
  BY <1>1, TaskIsExecuted DEF Queue!QueueNext
<1>2. CASE \E c \in Client : Rename(c)
  BY <1>2, CommandEnqueues DEF Queue!QueueNext
<1>3. CASE Rename(Daemon)
  BY <1>3, DaemonDequeues DEF Queue!QueueNext
<1>4. CASE \E t \in Client : TimeComes(t)
  <2>1. PICK t \in Client : TimeComes(t)
    BY <1>4
  <2>2. UNCHANGED <<OnDisk, runs, overlapped>> /\ clock' = clock \cup {t}
    BY <2>1 DEF TimeComes, fileVars, faultVars, OnDisk
  <2> QED
    BY <2>2 DEF Queue!FallDue, Queue!QueueNext
<1>5. CASE RunDueTasks \/ AllRun \/ Restart \/ UNCHANGED scheduleVars
  <2>1. UNCHANGED <<OnDisk, clock, runs>>
    BY <1>5 DEF RunDueTasks, AllRun, Restart, scheduleVars, fileVars, OnDisk
  <2>2. UNCHANGED overlapped
    BY <1>5 DEF ScheduleTypeOK, RunDueTasks, AllRun, Restart, scheduleVars, faultVars, Enter
  <2> QED
    BY <2>1, <2>2 DEF Queue!queueVars
<1>6. CASE \E p \in Process : OpenTmp(p) \/ WriteTmp(p) \/ WriteFails(p) \/ Kill(p)
  <2>1. Idles
    BY <1>6, OpenKeeps, WriteKeeps, WriteFailsKeeps, KillKeeps
    DEF OpenTmp, WriteTmp, WriteFails, Kill, faultVars
  <2> QED
    BY <2>1 DEF Queue!queueVars
<1>7. CASE \E c \in Client : QueueTask(c)
  <2>1. UNCHANGED <<OnDisk, clock, runs>>
    BY <1>7 DEF QueueTask, fileVars, OnDisk
  <2>2. UNCHANGED overlapped
    BY <1>7 DEF ScheduleTypeOK, QueueTask, Enter
  <2> QED
    BY <2>1, <2>2 DEF Queue!queueVars
<1> QED
  BY <1>0, <1>1, <1>2, <1>3, <1>4, <1>5, <1>6, <1>7 DEF ScheduleNext, DaemonStep, Step

(* queueTask and runDueTasks together, over a file that is rewritten as a  *)
(* whole by processes that no lock keeps apart: until two of them overlap, *)
(* nothing that was queued is lost before it was executed, nothing is      *)
(* executed that is not queued and due, and nothing else is queued; after  *)
(* that, still nothing is executed before its time.                        *)
THEOREM ScheduleImplementsQueue == ScheduleSpec => ImplementsQueue
<1>1. ScheduleInv /\ ScheduleInv' /\ [ScheduleNext]_scheduleVars => [Queue!QueueNext]_(Queue!queueVars)
  BY OverlapStays, LoneQueueStep, OverlapKeepsNothing DEF ScheduleInv, Queue!QueueNext
<1> QED
  BY <1>1, ScheduleInvariant, QueueStarts, PTL
  DEF ScheduleSpec, ImplementsQueue, Queue!QueueSpec
=============================================================================
