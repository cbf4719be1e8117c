----------------------------- MODULE SleepPolicy -----------------------------
(***************************************************************************)
(* What the idle-detection engine of cs-sleeper promises its caller, with  *)
(* no word on how it keeps the promise: a disk is ordered to standby only  *)
(* when sleep is allowed, when it has shown no I/O for Wait seconds and in *)
(* at least Verify consecutive samples; it is taken for asleep only after  *)
(* the order succeeded; a failed order starts the whole cycle again.       *)
(***************************************************************************)
EXTENDS Integers

CONSTANTS
  Device,   \* the disks
  Wait,     \* seconds without I/O before a disk may sleep
  Verify,   \* consecutive idle samples before a disk may sleep
  Steps     \* the seconds that may pass between two samples

VARIABLES
  phase,    \* what the policy takes each disk for
  age,      \* seconds since the disk was last busy or refused, up to Wait
  run       \* idle samples since the disk was last busy or refused, up to Verify

policyVars == <<phase, age, run>>

Least(a, b) == IF a <= b THEN a ELSE b

PolicyInit ==
  /\ phase = [d \in Device |-> "awake"]
  /\ age = [d \in Device |-> 0]
  /\ run = [d \in Device |-> 0]

(* One sample: busy disks are awake again, the others grow older, and any  *)
(* of those that are old enough may be ordered to standby.                 *)
Observe(busy, allowed, dt) ==
  /\ \A d \in Device : phase[d] # "ordered"
  /\ age' = [d \in Device |-> IF d \in busy THEN 0 ELSE Least(age[d] + dt, Wait)]
  /\ run' = [d \in Device |-> IF d \in busy THEN 0 ELSE Least(run[d] + 1, Verify)]
  /\ \E chosen \in SUBSET {d \in allowed \ busy : phase[d] = "awake"} :
       /\ \A d \in chosen : age'[d] >= Wait /\ run'[d] >= Verify
       /\ phase' = [d \in Device |-> CASE d \in busy   -> "awake"
                                       [] d \in chosen -> "ordered"
                                       [] OTHER        -> phase[d]]

(* The order to d succeeded. *)
Confirm(d) ==
  /\ phase[d] = "ordered"
  /\ phase' = [phase EXCEPT ![d] = "asleep"]
  /\ UNCHANGED <<age, run>>

(* The order to d failed or was withheld: a full cycle starts again. *)
Refuse(d) ==
  /\ phase[d] = "ordered"
  /\ phase' = [phase EXCEPT ![d] = "awake"]
  /\ age' = [age EXCEPT ![d] = 0]
  /\ run' = [run EXCEPT ![d] = 0]

(* All that was known is dropped, at a moment no order is outstanding. *)
Forget ==
  /\ \A d \in Device : phase[d] # "ordered"
  /\ phase' = [d \in Device |-> "awake"]
  /\ age' = [d \in Device |-> 0]
  /\ run' = [d \in Device |-> 0]

PolicyNext ==
  \/ \E busy, allowed \in SUBSET Device, dt \in Steps : Observe(busy, allowed, dt)
  \/ \E d \in Device : Confirm(d) \/ Refuse(d)
  \/ Forget

PolicySpec == PolicyInit /\ [][PolicyNext]_policyVars
=============================================================================
