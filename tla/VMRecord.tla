------------------------------ MODULE VMRecord ------------------------------
(***************************************************************************)
(* What vmstate.json promises (pool.go:190-191, 240): it names VMs of the  *)
(* pool that sleep by our doing; a wake of the pool prefers them to all    *)
(* others, and takes them out of the record when it is through.  The       *)
(* promise is one about a file that one process at a time works on.        *)
(* PoolOps is shown to implement it by reading the file and writing it     *)
(* back as a whole.                                                        *)
(***************************************************************************)
CONSTANTS Pool, VM, PoolOf

VARIABLES
  state,    \* each VM: "running", "asleep" by our doing, or "stopped" by its owner
  noted,    \* the VMs recorded for each pool
  waking,   \* the pools whose VMs are being woken
  shared    \* two processes have handled VMs at once, and nothing is promised

recordVars == <<state, noted, waking, shared>>

VMStates == {"running", "asleep", "stopped"}

RecordInit ==
  /\ state \in [VM -> {"running", "stopped"}]
  /\ noted = [q \in Pool |-> {}] /\ waking = {}
  /\ shared = FALSE

PutToSleep(v) ==
  /\ waking = {} /\ state[v] = "running"
  /\ state' = [state EXCEPT ![v] = "asleep"]
  /\ UNCHANGED <<noted, waking>>

(* The entry of one pool is replaced, the others stay. *)
Note(q, S) ==
  /\ waking = {}
  /\ S \subseteq {v \in VM : PoolOf[v] = q /\ state[v] = "asleep"}
  /\ noted' = [noted EXCEPT ![q] = S]
  /\ UNCHANGED <<state, waking>>

BeginToWake(q) ==
  /\ waking = {} /\ waking' = {q}
  /\ UNCHANGED <<state, noted>>

(* All VMs of the pool may be woken only where none is recorded. *)
Wake(v) ==
  /\ waking = {PoolOf[v]}
  /\ noted[PoolOf[v]] # {} => v \in noted[PoolOf[v]]
  /\ state' = [state EXCEPT ![v] = "running"]
  /\ UNCHANGED <<noted, waking>>

Forget(q) ==
  /\ waking = {q} /\ waking' = {}
  /\ noted' = [noted EXCEPT ![q] = {}]
  /\ UNCHANGED state

NothingPromised ==
  /\ shared'
  /\ state' \in [VM -> VMStates] /\ noted' \in [Pool -> SUBSET VM] /\ waking' \subseteq Pool

RecordNext ==
  \/ /\ ~shared /\ ~shared'
     /\ \/ \E v \in VM : PutToSleep(v) \/ Wake(v)
        \/ \E q \in Pool : BeginToWake(q) \/ Forget(q)
        \/ \E q \in Pool, S \in SUBSET VM : Note(q, S)
  \/ NothingPromised

RecordSpec == RecordInit /\ [][RecordNext]_recordVars
=============================================================================
