------------------------------- MODULE Engine -------------------------------
(***************************************************************************)
(* The idle-detection engine, internal/sleeper/sleeper.go.                 *)
(*                                                                         *)
(* An absolute time of the code is represented by its age: disks[d].idle   *)
(* is now - IdleSince, saturated at Wait, the only value it is compared    *)
(* with; ZeroTime stands for the zero time.Time.  LastActive and LastWake  *)
(* are written for reports only and left out.                              *)
(***************************************************************************)
EXTENDS Integers

CONSTANTS
  Device,      \* every disk that may ever be managed
  Wait,        \* Options.Wait, in seconds
  VerifyIdle,  \* Options.VerifyIdle as configured
  TrackWake,   \* Options.TrackWake
  Steps        \* the seconds that may pass between two calls of Update

ASSUME EngineAssumption ==
  /\ Wait \in Nat
  /\ VerifyIdle \in Int
  /\ TrackWake \in BOOLEAN
  /\ Steps \subseteq Nat

VARIABLES
  disks,     \* Engine.disks: the state of every tracked disk
  selected,  \* disks Update returned whose standby attempt is unresolved
  woke,      \* disks the last Update reported as woken on access
  busyAge,   \* history: seconds since d last showed I/O or failed to sleep
  idleRun    \* history: samples without I/O since then

engineVars == <<disks, selected, woke, busyAge, idleRun>>

ZeroTime == -1

(* The countdown a disk starts with: VerifyIdle, at least one sample. *)
Verify == IF VerifyIdle <= 0 THEN 1 ELSE VerifyIdle

EngineDisk == [sleeping : BOOLEAN, idle : ZeroTime .. Wait, verify : 0 .. Verify]

Saturate(n, bound) == IF n <= bound THEN n ELSE bound

FreshDisk == [sleeping |-> FALSE, idle |-> ZeroTime, verify |-> Verify]

NewEngine(devices) == [d \in devices |-> FreshDisk]

(* now - IdleSince after one more sample without I/O. *)
IdleAfter(e, dt) == IF e.idle = ZeroTime THEN 0 ELSE Saturate(e.idle + dt, Wait)

-----------------------------------------------------------------------------
(* Wrong variants of the operators below.  Each is a slip the code could   *)
(* have made; the properties must tell it from the code.                   *)

UpdateDiskTrustingZeroTime(e, active, allowed, dt) ==
  LET idle   == IF e.idle = ZeroTime THEN Wait ELSE Saturate(e.idle + dt, Wait)
      verify == IF e.verify > 0 THEN e.verify - 1 ELSE 0
  IN  CASE active                  -> FreshDisk
        [] ~active /\ (~allowed \/ idle < Wait) -> [e EXCEPT !.idle = idle]
        [] OTHER -> [sleeping |-> e.sleeping \/ verify = 0, idle |-> idle, verify |-> verify]

MarkDiskKeepsIdle(e, success) ==
  IF success THEN e ELSE [e EXCEPT !.sleeping = FALSE, !.verify = Verify]

-----------------------------------------------------------------------------
(* One disk's share of Update: active is whether the sample showed I/O,    *)
(* allowed what AllowSleep answers.                                        *)
UpdateDisk(e, active, allowed, dt) ==
  LET idle   == IdleAfter(e, dt)
      verify == IF e.verify > 0 THEN e.verify - 1 ELSE 0
  IN  CASE active                  -> FreshDisk
        [] ~active /\ (~allowed \/ idle < Wait) -> [e EXCEPT !.idle = idle]
        [] OTHER -> [sleeping |-> e.sleeping \/ verify = 0, idle |-> idle, verify |-> verify]

(* The disk's state after its standby attempt. *)
MarkDisk(e, success) ==
  IF success THEN e ELSE [sleeping |-> FALSE, idle |-> 0, verify |-> Verify]

-----------------------------------------------------------------------------
EngineInit(devices) ==
  /\ disks = NewEngine(devices)
  /\ selected = {}
  /\ woke = {}
  /\ busyAge = [d \in Device |-> 0]
  /\ idleRun = [d \in Device |-> 0]

(* The caller resolves every disk of one Update before it calls the next. *)
Update(active, allowed, dt) ==
  /\ selected = {}
  /\ disks' = [d \in DOMAIN disks |-> UpdateDisk(disks[d], d \in active, d \in allowed, dt)]
  /\ selected' = {d \in DOMAIN disks : ~disks[d].sleeping /\ disks'[d].sleeping}
  /\ woke' = {d \in DOMAIN disks : TrackWake /\ d \in active /\ disks[d].sleeping}
  /\ busyAge' = [d \in Device |-> IF d \in active THEN 0 ELSE Saturate(busyAge[d] + dt, Wait)]
  /\ idleRun' = [d \in Device |-> IF d \in active THEN 0 ELSE Saturate(idleRun[d] + 1, Verify)]

MarkSleepResult(d, success) ==
  /\ d \in selected
  /\ selected' = selected \ {d}
  /\ disks' = [disks EXCEPT ![d] = MarkDisk(@, success)]
  /\ busyAge' = IF success THEN busyAge ELSE [busyAge EXCEPT ![d] = 0]
  /\ idleRun' = IF success THEN idleRun ELSE [idleRun EXCEPT ![d] = 0]
  /\ UNCHANGED woke

(* The daemon replaces its engine when the set of managed disks changed. *)
Renew(devices) ==
  /\ selected = {}
  /\ disks' = NewEngine(devices)
  /\ busyAge' = [d \in Device |-> 0]
  /\ idleRun' = [d \in Device |-> 0]
  /\ UNCHANGED <<selected, woke>>

EngineNext ==
  \/ \E active, allowed \in SUBSET Device, dt \in Steps : Update(active, allowed, dt)
  \/ \E d \in Device, success \in BOOLEAN : MarkSleepResult(d, success)
  \/ \E devices \in SUBSET Device : Renew(devices)

EngineStart == \E devices \in SUBSET Device : EngineInit(devices)

EngineSpec == EngineStart /\ [][EngineNext]_engineVars

-----------------------------------------------------------------------------
(* The shape of the engine's state; the countdown never leaves 0..Verify   *)
(* (a disk that sleeps through many samples must not run it below zero).   *)
EngineTypeOK ==
  /\ DOMAIN disks \subseteq Device
  /\ disks \in [DOMAIN disks -> EngineDisk]
  /\ selected \subseteq DOMAIN disks
  /\ woke \subseteq Device
  /\ busyAge \in [Device -> 0 .. Wait]
  /\ idleRun \in [Device -> 0 .. Verify]

(* Idle detection as the README's safety model states it: a disk Update    *)
(* hands to the caller for standby has shown no I/O, and failed no         *)
(* attempt, for Wait seconds and for VerifyIdle consecutive samples.       *)
SleepOnlyWhenIdle ==
  \A d \in selected : busyAge[d] >= Wait /\ idleRun[d] >= Verify

(* One disk's state agrees with its history: the idle age never exceeds    *)
(* the real quiet time, the countdown is only below its start after that   *)
(* many idle samples and a full wait, and ends exactly when it sleeps.     *)
Backed(e, age, run) ==
  /\ e.idle <= age
  /\ Verify - e.verify <= run
  /\ e.sleeping <=> e.verify = 0
  /\ e.verify < Verify => e.idle = Wait

(* Every disk's countdown is backed by what was observed of it, and a disk *)
(* with an unresolved attempt is flagged sleeping: Update's optimistic     *)
(* flag is never lost before MarkSleepResult.                              *)
CountdownBacked ==
  /\ \A d \in DOMAIN disks : Backed(disks[d], busyAge[d], idleRun[d])
  /\ \A d \in selected : disks[d].sleeping

(* What the policy takes a disk for, in the engine's own terms. *)
Phase == [d \in Device |->
            IF d \in selected THEN "ordered"
            ELSE IF d \in DOMAIN disks /\ disks[d].sleeping THEN "asleep" ELSE "awake"]

Policy == INSTANCE SleepPolicy WITH phase <- Phase, age <- busyAge, run <- idleRun

(* The engine keeps the promise of SleepPolicy: in particular its Sleeping *)
(* flag, once the caller has reported the outcome, is set only for a disk  *)
(* whose standby command succeeded and that has shown no I/O since.        *)
ImplementsPolicy == Policy!PolicySpec
=============================================================================
