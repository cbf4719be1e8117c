---------------------------- MODULE EngineProofs ----------------------------
(***************************************************************************)
(* Proofs about the idle-detection engine, for every set of disks and      *)
(* every setting of Wait, VerifyIdle, TrackWake and Steps.                 *)
(***************************************************************************)
EXTENDS Engine, TLAPS

(* What the constants give every proof below. *)
LEMMA ConstantFacts ==
  /\ Wait \in Nat /\ Verify \in Nat /\ Verify >= 1
  /\ ZeroTime \in Int /\ ZeroTime < 0
  /\ Steps \subseteq Nat
BY EngineAssumption DEF Verify, ZeroTime

(* Saturation keeps a value in range, and keeps order. *)
LEMMA SaturateFacts ==
  ASSUME NEW n \in Nat, NEW bound \in Nat
  PROVE  /\ Saturate(n, bound) \in 0 .. bound
         /\ Saturate(n, bound) <= n
         /\ n >= bound => Saturate(n, bound) = bound
BY DEF Saturate

(* A disk just taken under management is backed by any history. *)
LEMMA FreshDiskBacked ==
  ASSUME NEW age \in 0 .. Wait, NEW run \in 0 .. Verify
  PROVE  /\ FreshDisk \in EngineDisk
         /\ Backed(FreshDisk, age, run)
BY ConstantFacts DEF FreshDisk, EngineDisk, Backed, ZeroTime

(* The step of the idle age: in range, and no larger than the quiet time. *)
LEMMA IdleAfterFacts ==
  ASSUME NEW e \in EngineDisk, NEW dt \in Nat, NEW age \in 0 .. Wait, e.idle <= age
  PROVE  /\ IdleAfter(e, dt) \in 0 .. Wait
         /\ IdleAfter(e, dt) <= Saturate(age + dt, Wait)
         /\ e.idle = Wait => IdleAfter(e, dt) = Wait
BY ConstantFacts DEF IdleAfter, Saturate, EngineDisk, ZeroTime

(* One disk's share of Update keeps the disk's shape and its backing, and  *)
(* flags it for sleep only once the wait and the countdown are served.     *)
LEMMA UpdateDiskFacts ==
  ASSUME NEW e \in EngineDisk, NEW d, NEW active, NEW allowed, NEW dt \in Nat,
         NEW age \in 0 .. Wait, NEW run \in 0 .. Verify, Backed(e, age, run),
         NEW f, f = UpdateDisk(e, d \in active, d \in allowed, dt),
         NEW age1, age1 = IF d \in active THEN 0 ELSE Saturate(age + dt, Wait),
         NEW run1, run1 = IF d \in active THEN 0 ELSE Saturate(run + 1, Verify)
  PROVE  /\ f \in EngineDisk
         /\ age1 \in 0 .. Wait /\ run1 \in 0 .. Verify
         /\ Backed(f, age1, run1)
         /\ d \in active => ~f.sleeping
         /\ d \notin active /\ e.sleeping => f.sleeping
         /\ ~e.sleeping /\ f.sleeping
              => d \notin active /\ d \in allowed /\ age1 >= Wait /\ run1 >= Verify
<1> DEFINE idle   == IdleAfter(e, dt)
           verify == IF e.verify > 0 THEN e.verify - 1 ELSE 0
           age2   == Saturate(age + dt, Wait)
           run2   == Saturate(run + 1, Verify)
<1>1. /\ e.sleeping \in BOOLEAN /\ e.idle \in ZeroTime .. Wait /\ e.verify \in 0 .. Verify
      /\ e.idle <= age /\ Verify - e.verify <= run
      /\ e.sleeping <=> e.verify = 0
      /\ e.verify < Verify => e.idle = Wait
  BY DEF EngineDisk, Backed
<1>2. idle \in 0 .. Wait /\ idle <= age2 /\ (e.idle = Wait => idle = Wait) /\ age2 \in 0 .. Wait
  <2>1. age + dt \in Nat
    BY ConstantFacts
  <2> QED
    BY <1>1, <2>1, IdleAfterFacts, SaturateFacts, ConstantFacts
<1>3. run2 \in 0 .. Verify /\ Verify - e.verify <= run2
  BY <1>1, ConstantFacts DEF Saturate
<1>4. verify \in 0 .. Verify /\ Verify - verify <= run2 /\ (e.verify = 0 => verify = 0)
  BY <1>1, ConstantFacts DEF Saturate
<1> HIDE DEF idle, verify, age2, run2
<1>5. CASE d \in active
  <2>1. f = FreshDisk
    BY <1>5 DEF UpdateDisk
  <2>2. ~FreshDisk.sleeping
    BY DEF FreshDisk
  <2>3. 0 \in 0 .. Wait /\ 0 \in 0 .. Verify
    BY ConstantFacts
  <2> QED
    BY <1>5, <2>1, <2>2, <2>3, FreshDiskBacked
<1>6. CASE d \notin active /\ (d \notin allowed \/ idle < Wait)
  <2>1. f = [e EXCEPT !.idle = idle]
    BY <1>6 DEF UpdateDisk, idle
  <2>2. f \in EngineDisk
    BY <1>2, <2>1, ConstantFacts DEF EngineDisk, ZeroTime
  <2>3. f.sleeping = e.sleeping /\ f.verify = e.verify /\ f.idle = idle
    BY <2>1 DEF EngineDisk
  <2>4. Backed(f, age2, run2)
    BY <1>1, <1>2, <1>3, <2>3 DEF Backed
  <2> QED
    BY <1>2, <1>3, <1>6, <2>1, <2>2, <2>3, <2>4 DEF age2, run2
<1>7. CASE d \notin active /\ d \in allowed /\ idle >= Wait
  <2> DEFINE g == [sleeping |-> e.sleeping \/ verify = 0, idle |-> idle, verify |-> verify]
  <2>1. f = g
    <3>1. ~(idle < Wait)
      BY <1>2, <1>7, ConstantFacts
    <3> QED
      BY <1>7, <3>1 DEF UpdateDisk, idle, verify
  <2>2. g \in EngineDisk
    BY <1>1, <1>2, <1>4, ConstantFacts DEF EngineDisk, ZeroTime
  <2>3. idle = Wait /\ age2 = Wait
    BY <1>2, <1>7, ConstantFacts
  <2>4. (g.sleeping <=> g.verify = 0) /\ (e.sleeping => g.sleeping)
    BY <1>1, <1>4
  <2>5. Backed(g, age2, run2)
    BY <1>2, <1>4, <2>3, <2>4 DEF Backed
  <2>6. g.sleeping => run2 >= Verify
    BY <1>3, <1>4, <2>4, ConstantFacts
  <2> HIDE DEF g
  <2> QED
    BY <1>2, <1>3, <1>7, <2>1, <2>2, <2>3, <2>4, <2>5, <2>6, ConstantFacts DEF age2, run2
<1> QED
  BY <1>2, <1>5, <1>6, <1>7, ConstantFacts

-----------------------------------------------------------------------------
(* The inductive invariant: SleepOnlyWhenIdle alone says nothing of a disk *)
(* before it is selected, so it needs what CountdownBacked says of every   *)
(* disk on the way there.                                                  *)
IInv == EngineTypeOK /\ CountdownBacked /\ SleepOnlyWhenIdle

(* A freshly built engine satisfies the invariant. *)
LEMMA FreshEngine ==
  ASSUME NEW devices \in SUBSET Device, EngineInit(devices)
  PROVE  IInv
<1>1. EngineTypeOK
  BY FreshDiskBacked, ConstantFacts DEF EngineInit, NewEngine, EngineTypeOK
<1>2. CountdownBacked
  BY FreshDiskBacked, ConstantFacts DEF EngineInit, NewEngine, CountdownBacked
<1>3. SleepOnlyWhenIdle
  BY DEF EngineInit, SleepOnlyWhenIdle
<1> QED
  BY <1>1, <1>2, <1>3 DEF IInv

(* What one call of Update does to each tracked disk. *)
LEMMA UpdatePerDisk ==
  ASSUME IInv, NEW active \in SUBSET Device, NEW allowed \in SUBSET Device, NEW dt \in Steps,
         Update(active, allowed, dt)
  PROVE  /\ DOMAIN disks' = DOMAIN disks
         /\ busyAge' \in [Device -> 0 .. Wait]
         /\ idleRun' \in [Device -> 0 .. Verify]
         /\ \A d \in DOMAIN disks :
              /\ disks'[d] \in EngineDisk
              /\ Backed(disks'[d], busyAge'[d], idleRun'[d])
              /\ d \in active => ~disks'[d].sleeping
              /\ d \notin active /\ disks[d].sleeping => disks'[d].sleeping
              /\ ~disks[d].sleeping /\ disks'[d].sleeping
                   => d \notin active /\ d \in allowed /\ busyAge'[d] >= Wait /\ idleRun'[d] >= Verify
<1>1. DOMAIN disks' = DOMAIN disks
  BY DEF Update
<1>2. dt \in Nat
  BY ConstantFacts
<1>3. \A d \in Device : busyAge[d] \in 0 .. Wait /\ idleRun[d] \in 0 .. Verify
  BY DEF IInv, EngineTypeOK
<1>4. \A d \in Device : /\ Saturate(busyAge[d] + dt, Wait) \in 0 .. Wait
                        /\ Saturate(idleRun[d] + 1, Verify) \in 0 .. Verify
  <2> TAKE d \in Device
  <2>1. busyAge[d] + dt \in Nat /\ idleRun[d] + 1 \in Nat
    BY <1>2, <1>3, ConstantFacts
  <2> QED
    BY <2>1, SaturateFacts, ConstantFacts
<1>5. busyAge' \in [Device -> 0 .. Wait]
  BY <1>4, ConstantFacts DEF Update
<1>6. idleRun' \in [Device -> 0 .. Verify]
  BY <1>4, ConstantFacts DEF Update
<1>7. ASSUME NEW d \in DOMAIN disks
      PROVE  /\ disks'[d] \in EngineDisk
             /\ Backed(disks'[d], busyAge'[d], idleRun'[d])
             /\ d \in active => ~disks'[d].sleeping
             /\ d \notin active /\ disks[d].sleeping => disks'[d].sleeping
             /\ ~disks[d].sleeping /\ disks'[d].sleeping
                  => d \notin active /\ d \in allowed /\ busyAge'[d] >= Wait /\ idleRun'[d] >= Verify
  <2>1. d \in Device /\ disks[d] \in EngineDisk /\ Backed(disks[d], busyAge[d], idleRun[d])
    BY DEF IInv, EngineTypeOK, CountdownBacked
  <2>2. /\ disks'[d] = UpdateDisk(disks[d], d \in active, d \in allowed, dt)
        /\ busyAge'[d] = IF d \in active THEN 0 ELSE Saturate(busyAge[d] + dt, Wait)
        /\ idleRun'[d] = IF d \in active THEN 0 ELSE Saturate(idleRun[d] + 1, Verify)
    BY <2>1 DEF Update
  <2>3. busyAge[d] \in 0 .. Wait /\ idleRun[d] \in 0 .. Verify
    BY <1>3, <2>1
  <2> QED
    BY <1>2, <2>1, <2>2, <2>3, UpdateDiskFacts
<1> QED
  BY <1>1, <1>5, <1>6, <1>7

LEMMA UpdateKeepsIInv ==
  ASSUME IInv, NEW active \in SUBSET Device, NEW allowed \in SUBSET Device, NEW dt \in Steps,
         Update(active, allowed, dt)
  PROVE  IInv'
<1>1. selected' = {d \in DOMAIN disks : ~disks[d].sleeping /\ disks'[d].sleeping}
  BY DEF Update
<1>2. EngineTypeOK'
  <2>1. DOMAIN disks \subseteq Device
    BY DEF IInv, EngineTypeOK
  <2>2. disks' \in [DOMAIN disks' -> EngineDisk]
    BY UpdatePerDisk DEF Update
  <2>3. woke' \subseteq Device
    BY <2>1 DEF Update
  <2> QED
    BY <1>1, <2>1, <2>2, <2>3, UpdatePerDisk DEF EngineTypeOK
<1>3. CountdownBacked'
  BY <1>1, UpdatePerDisk DEF CountdownBacked
<1>4. SleepOnlyWhenIdle'
  BY <1>1, UpdatePerDisk DEF SleepOnlyWhenIdle
<1> QED
  BY <1>2, <1>3, <1>4 DEF IInv

(* What MarkSleepResult does to the disk it is about. *)
LEMMA MarkPerDisk ==
  ASSUME IInv, NEW d \in Device, NEW success \in BOOLEAN, MarkSleepResult(d, success)
  PROVE  /\ d \in selected /\ selected' = selected \ {d}
         /\ d \in DOMAIN disks /\ DOMAIN disks' = DOMAIN disks
         /\ success => disks' = disks /\ busyAge' = busyAge /\ idleRun' = idleRun
         /\ ~success => /\ disks'[d] = [sleeping |-> FALSE, idle |-> 0, verify |-> Verify]
                        /\ busyAge' = [busyAge EXCEPT ![d] = 0]
                        /\ idleRun' = [idleRun EXCEPT ![d] = 0]
         /\ \A o \in DOMAIN disks \ {d} : disks'[o] = disks[o]
<1>1. d \in selected /\ d \in DOMAIN disks /\ disks \in [DOMAIN disks -> EngineDisk]
  BY DEF MarkSleepResult, IInv, EngineTypeOK
<1>2. disks' = [disks EXCEPT ![d] = MarkDisk(disks[d], success)]
  BY DEF MarkSleepResult
<1>3. success => disks' = disks
  BY <1>1, <1>2 DEF MarkDisk
<1>4. ~success => disks'[d] = [sleeping |-> FALSE, idle |-> 0, verify |-> Verify]
  BY <1>1, <1>2 DEF MarkDisk
<1> QED
  BY <1>1, <1>2, <1>3, <1>4 DEF MarkSleepResult

LEMMA MarkKeepsIInv ==
  ASSUME IInv, NEW d \in Device, NEW success \in BOOLEAN, MarkSleepResult(d, success)
  PROVE  IInv'
<1> DEFINE awake == [sleeping |-> FALSE, idle |-> 0, verify |-> Verify]
<1>1. awake \in EngineDisk /\ Backed(awake, 0, 0)
  BY ConstantFacts DEF EngineDisk, Backed, ZeroTime
<1>2. woke' = woke
  BY DEF MarkSleepResult
<1>3. CASE success
  BY <1>2, <1>3, MarkPerDisk DEF IInv, EngineTypeOK, CountdownBacked, SleepOnlyWhenIdle
<1>4. CASE ~success
  <2>1. /\ busyAge' \in [Device -> 0 .. Wait] /\ busyAge'[d] = 0
        /\ idleRun' \in [Device -> 0 .. Verify] /\ idleRun'[d] = 0
        /\ \A o \in Device \ {d} : busyAge'[o] = busyAge[o] /\ idleRun'[o] = idleRun[o]
    BY <1>4, MarkPerDisk, ConstantFacts DEF IInv, EngineTypeOK
  <2>2. \A o \in DOMAIN disks : disks'[o] \in EngineDisk /\ Backed(disks'[o], busyAge'[o], idleRun'[o])
    <3>1. disks'[d] \in EngineDisk /\ Backed(disks'[d], busyAge'[d], idleRun'[d])
      BY <1>1, <1>4, <2>1, MarkPerDisk
    <3>2. ASSUME NEW o \in DOMAIN disks \ {d}
          PROVE  disks'[o] \in EngineDisk /\ Backed(disks'[o], busyAge'[o], idleRun'[o])
      <4>1. o \in Device /\ disks'[o] = disks[o] /\ busyAge'[o] = busyAge[o] /\ idleRun'[o] = idleRun[o]
        BY <2>1, MarkPerDisk DEF IInv, EngineTypeOK
      <4> QED
        BY <4>1 DEF IInv, EngineTypeOK, CountdownBacked
    <3> QED
      BY <3>1, <3>2
  <2>3. EngineTypeOK'
    <3>1. disks' \in [DOMAIN disks' -> EngineDisk]
      BY <2>2, MarkPerDisk DEF MarkSleepResult
    <3> QED
      BY <1>2, <2>1, <3>1, MarkPerDisk DEF IInv, EngineTypeOK
  <2>4. CountdownBacked'
    BY <2>2, MarkPerDisk DEF IInv, EngineTypeOK, CountdownBacked
  <2>5. SleepOnlyWhenIdle'
    BY <2>1, MarkPerDisk DEF IInv, EngineTypeOK, SleepOnlyWhenIdle
  <2> QED
    BY <2>3, <2>4, <2>5 DEF IInv
<1> QED
  BY <1>3, <1>4

LEMMA RenewKeepsIInv ==
  ASSUME IInv, NEW devices \in SUBSET Device, Renew(devices)
  PROVE  IInv'
<1>1. EngineTypeOK'
  BY FreshDiskBacked, ConstantFacts DEF Renew, NewEngine, IInv, EngineTypeOK
<1>2. CountdownBacked'
  BY FreshDiskBacked, ConstantFacts DEF Renew, NewEngine, CountdownBacked
<1>3. SleepOnlyWhenIdle'
  BY DEF Renew, SleepOnlyWhenIdle
<1> QED
  BY <1>1, <1>2, <1>3 DEF IInv

LEMMA StepKeepsIInv == IInv /\ [EngineNext]_engineVars => IInv'
<1> SUFFICES ASSUME IInv, [EngineNext]_engineVars
             PROVE  IInv'
  OBVIOUS
<1>1. CASE \E active, allowed \in SUBSET Device, dt \in Steps : Update(active, allowed, dt)
  BY <1>1, UpdateKeepsIInv
<1>2. CASE \E d \in Device, success \in BOOLEAN : MarkSleepResult(d, success)
  BY <1>2, MarkKeepsIInv
<1>3. CASE \E devices \in SUBSET Device : Renew(devices)
  BY <1>3, RenewKeepsIInv
<1>4. CASE UNCHANGED engineVars
  BY <1>4 DEF engineVars, IInv, EngineTypeOK, CountdownBacked, SleepOnlyWhenIdle
<1> QED
  BY <1>1, <1>2, <1>3, <1>4 DEF EngineNext

LEMMA Inductive == EngineSpec => []IInv
<1>1. EngineStart => IInv
  BY FreshEngine DEF EngineStart
<1> QED
  BY <1>1, StepKeepsIInv, PTL DEF EngineSpec

(* The engine's state keeps its shape; the countdown never leaves its range *)
(* however many samples a sleeping disk goes through.                       *)
THEOREM EngineTypeCorrect == EngineSpec => []EngineTypeOK
<1>1. IInv => EngineTypeOK
  BY DEF IInv
<1> QED
  BY <1>1, Inductive, PTL

(* Every flag and countdown in the engine is backed by the samples seen. *)
THEOREM CountdownIsBacked == EngineSpec => []CountdownBacked
<1>1. IInv => CountdownBacked
  BY DEF IInv
<1> QED
  BY <1>1, Inductive, PTL

(* Update never hands out a disk that showed I/O, or failed an attempt,    *)
(* within the last Wait seconds or the last VerifyIdle samples.            *)
THEOREM SleepsOnlyIdleDisks == EngineSpec => []SleepOnlyWhenIdle
<1>1. IInv => SleepOnlyWhenIdle
  BY DEF IInv
<1> QED
  BY <1>1, Inductive, PTL

-----------------------------------------------------------------------------
(* Refinement: every behaviour of the engine is one the policy allows.     *)
LEMMA PhaseFacts ==
  /\ Phase = [d \in Device |-> Phase[d]]
  /\ \A d \in Device :
       /\ Phase[d] = "ordered" <=> d \in selected
       /\ d \notin selected /\ d \in DOMAIN disks /\ disks[d].sleeping => Phase[d] = "asleep"
       /\ d \notin selected /\ (d \in DOMAIN disks => ~disks[d].sleeping) => Phase[d] = "awake"
BY DEF Phase

(* The same of the state after a step. *)
LEMMA PhaseFactsPrime ==
  /\ Phase' = [d \in Device |-> Phase'[d]]
  /\ \A d \in Device :
       /\ Phase'[d] = "ordered" <=> d \in selected'
       /\ d \notin selected' /\ d \in DOMAIN disks' /\ disks'[d].sleeping => Phase'[d] = "asleep"
       /\ d \notin selected' /\ (d \in DOMAIN disks' => ~disks'[d].sleeping) => Phase'[d] = "awake"
BY DEF Phase

LEMMA StartRefines == EngineStart => Policy!PolicyInit
<1> SUFFICES ASSUME NEW devices \in SUBSET Device, EngineInit(devices)
             PROVE  Policy!PolicyInit
  BY DEF EngineStart
<1>1. selected = {} /\ \A d \in DOMAIN disks : ~disks[d].sleeping
  BY DEF EngineInit, NewEngine, FreshDisk
<1>2. Phase = [d \in Device |-> "awake"]
  BY <1>1, PhaseFacts
<1> QED
  BY <1>2 DEF EngineInit, Policy!PolicyInit

(* A sample is one the policy may observe, with the disks Update hands out *)
(* as its choice.                                                          *)
LEMMA UpdateRefines ==
  ASSUME IInv, NEW active \in SUBSET Device, NEW allowed \in SUBSET Device, NEW dt \in Steps,
         Update(active, allowed, dt)
  PROVE  Policy!Observe(active, allowed, dt)
<1>1. selected = {} /\ selected' = {d \in DOMAIN disks : ~disks[d].sleeping /\ disks'[d].sleeping}
  BY DEF Update
<1>2. \A d \in Device : Phase[d] # "ordered"
  BY <1>1, PhaseFacts
<1>3. busyAge' = [d \in Device |-> IF d \in active THEN 0 ELSE Policy!Least(busyAge[d] + dt, Wait)]
  BY DEF Update, Saturate, Policy!Least
<1>4. idleRun' = [d \in Device |-> IF d \in active THEN 0 ELSE Policy!Least(idleRun[d] + 1, Verify)]
  BY DEF Update, Saturate, Policy!Least
<1>5. DOMAIN disks \subseteq Device /\ DOMAIN disks' = DOMAIN disks
  BY UpdatePerDisk DEF IInv, EngineTypeOK
<1>6. selected' \in SUBSET {d \in allowed \ active : Phase[d] = "awake"}
  BY <1>1, <1>5, UpdatePerDisk, PhaseFacts
<1>7. \A d \in selected' : busyAge'[d] >= Wait /\ idleRun'[d] >= Verify
  BY <1>1, UpdatePerDisk
<1>8. Phase' = [d \in Device |-> CASE d \in active    -> "awake"
                                   [] d \in selected' -> "ordered"
                                   [] OTHER           -> Phase[d]]
  <2>1. ASSUME NEW d \in Device
        PROVE  Phase'[d] = CASE d \in active    -> "awake"
                             [] d \in selected' -> "ordered"
                             [] OTHER           -> Phase[d]
    <3>1. CASE d \in active
      <4>1. d \notin selected' /\ (d \in DOMAIN disks' => ~disks'[d].sleeping)
        BY <1>1, <1>5, <3>1, UpdatePerDisk
      <4>2. Phase'[d] = "awake"
        BY <4>1, PhaseFactsPrime
      <4> QED
        BY <1>6, <3>1, <4>1, <4>2
    <3>2. CASE d \notin active /\ d \in selected'
      BY <3>2, PhaseFactsPrime
    <3>3. CASE d \notin active /\ d \notin selected'
      <4>1. d \in DOMAIN disks => (disks'[d].sleeping <=> disks[d].sleeping)
        BY <1>1, <3>3, UpdatePerDisk
      <4>2. Phase'[d] = Phase[d]
        BY <1>1, <1>5, <3>3, <4>1, PhaseFacts, PhaseFactsPrime
      <4> QED
        BY <3>3, <4>2
    <3> QED
      BY <3>1, <3>2, <3>3
  <2> QED
    BY <2>1, PhaseFactsPrime
<1> QED
  BY <1>2, <1>3, <1>4, <1>6, <1>7, <1>8 DEF Policy!Observe

(* Reporting an outcome confirms or refuses the order. *)
LEMMA MarkRefines ==
  ASSUME IInv, NEW d \in Device, NEW success \in BOOLEAN, MarkSleepResult(d, success)
  PROVE  Policy!Confirm(d) \/ Policy!Refuse(d)
<1>1. Phase[d] = "ordered"
  BY MarkPerDisk, PhaseFacts
<1>2. \A o \in Device \ {d} : Phase'[o] = Phase[o]
  BY MarkPerDisk, PhaseFacts, PhaseFactsPrime DEF Phase
<1>3. CASE success
  <2>1. d \in DOMAIN disks' /\ disks'[d].sleeping /\ d \notin selected'
    BY <1>3, MarkPerDisk DEF IInv, CountdownBacked
  <2>2. Phase'[d] = "asleep"
    BY <2>1, PhaseFactsPrime
  <2>3. Phase' = [Phase EXCEPT ![d] = "asleep"]
    BY <1>2, <2>2, PhaseFacts, PhaseFactsPrime
  <2> QED
    BY <1>1, <1>3, <2>3, MarkPerDisk DEF Policy!Confirm
<1>4. CASE ~success
  <2>1. d \in DOMAIN disks' /\ ~disks'[d].sleeping /\ d \notin selected'
    BY <1>4, MarkPerDisk
  <2>2. Phase'[d] = "awake"
    BY <2>1, PhaseFactsPrime
  <2>3. Phase' = [Phase EXCEPT ![d] = "awake"]
    BY <1>2, <2>2, PhaseFacts, PhaseFactsPrime
  <2> QED
    BY <1>1, <1>4, <2>3, MarkPerDisk DEF Policy!Refuse
<1> QED
  BY <1>3, <1>4

(* A new engine has forgotten everything. *)
LEMMA RenewRefines ==
  ASSUME NEW devices \in SUBSET Device, Renew(devices)
  PROVE  Policy!Forget
<1>1. /\ selected = {} /\ selected' = {}
      /\ \A d \in DOMAIN disks' : ~disks'[d].sleeping
  BY DEF Renew, NewEngine, FreshDisk
<1>2. \A d \in Device : Phase[d] # "ordered"
  BY <1>1, PhaseFacts
<1>3. Phase' = [d \in Device |-> "awake"]
  BY <1>1, PhaseFactsPrime
<1> QED
  BY <1>2, <1>3 DEF Renew, Policy!Forget

LEMMA StepRefines == IInv /\ [EngineNext]_engineVars => [Policy!PolicyNext]_(Policy!policyVars)
<1> SUFFICES ASSUME IInv, [EngineNext]_engineVars
             PROVE  [Policy!PolicyNext]_(Policy!policyVars)
  OBVIOUS
<1>1. CASE \E active, allowed \in SUBSET Device, dt \in Steps : Update(active, allowed, dt)
  BY <1>1, UpdateRefines DEF Policy!PolicyNext
<1>2. CASE \E d \in Device, success \in BOOLEAN : MarkSleepResult(d, success)
  BY <1>2, MarkRefines DEF Policy!PolicyNext
<1>3. CASE \E devices \in SUBSET Device : Renew(devices)
  BY <1>3, RenewRefines DEF Policy!PolicyNext
<1>4. CASE UNCHANGED engineVars
  BY <1>4 DEF engineVars, Policy!policyVars, Phase
<1> QED
  BY <1>1, <1>2, <1>3, <1>4 DEF EngineNext

(* The engine implements the sleep policy: a disk counts as asleep only    *)
(* after a successful order that idleness justified, and a failed order is *)
(* followed by a whole cycle before the next.                              *)
THEOREM EngineImplementsPolicy == EngineSpec => ImplementsPolicy
BY Inductive, StartRefines, StepRefines, PTL DEF EngineSpec, ImplementsPolicy, Policy!PolicySpec

=============================================================================
