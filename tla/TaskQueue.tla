------------------------------ MODULE TaskQueue ------------------------------
(***************************************************************************)
(* What `sleeppool --at` and `wakepool --at` promise (schedule.go:53, 67): *)
(* a task is put into a queue that outlives every process, is executed     *)
(* once its time has come, and is removed no sooner than that.  Schedule   *)
(* is shown to implement this by a file that is rewritten as a whole; once *)
(* two processes have done so at the same time, which nothing prevents,    *)
(* no more is promised than that nothing is executed before its time.      *)
(***************************************************************************)
EXTENDS Naturals

CONSTANT Task

VARIABLES
  queue,   \* the tasks that are queued
  due,     \* the tasks whose time has come
  ran,     \* how often each task was executed
  shared   \* two processes have rewritten the queue at once

queueVars == <<queue, due, ran, shared>>

QueueInit == queue = {} /\ due = {} /\ ran = [t \in Task |-> 0] /\ shared = FALSE

Enqueue(t) ==
  /\ t \notin queue /\ ran[t] = 0
  /\ queue' = queue \cup {t}
  /\ UNCHANGED <<due, ran, shared>>

FallDue(t) ==
  /\ due' = due \cup {t}
  /\ UNCHANGED <<queue, ran, shared>>

Execute(t) ==
  /\ t \in queue \cap due
  /\ ran' = [ran EXCEPT ![t] = @ + 1]
  /\ UNCHANGED <<queue, due, shared>>

(* Several tasks leave the queue at once, each of them executed. *)
Dequeue ==
  /\ queue' \subseteq queue
  /\ \A t \in queue \ queue' : ran[t] > 0
  /\ UNCHANGED <<due, ran, shared>>

(* Tasks may get lost or come back, but none runs before it is due. *)
NothingKept ==
  /\ shared' = TRUE
  /\ queue' \in SUBSET Task /\ due \subseteq due' /\ due' \subseteq Task
  /\ ran' = ran \/ \E t \in due : ran' = [ran EXCEPT ![t] = @ + 1]

QueueNext ==
  \/ \E t \in Task : Enqueue(t) \/ FallDue(t) \/ Execute(t)
  \/ Dequeue \/ NothingKept

QueueSpec == QueueInit /\ [][QueueNext]_queueVars
=============================================================================
