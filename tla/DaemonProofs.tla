---------------------------- MODULE DaemonProofs ----------------------------
(***************************************************************************)
(* Proofs about the daemon's loop, for every host: any number of disks and *)
(* pools, any windows and any of the faults.                               *)
(***************************************************************************)
EXTENDS Daemon, EngineProofs

LEMMA ManagedAreDevices ==
  ASSUME NEW bootKnown, NEW answered
  PROVE  managedDevices(bootKnown, answered) \in SUBSET Device
BY DaemonAssumption DEF managedDevices

-----------------------------------------------------------------------------
(* The loop drives its engine only through the engine's own operations.    *)
LEMMA DaemonStartsEngine == DaemonInit => EngineStart
BY ManagedAreDevices DEF DaemonInit, EngineStart

(* Nothing in the world touches the engine. *)
LEMMA WorldLeavesLoop == World => UNCHANGED loopVars
BY DEF World, DiskIO, SpinDown, SpinUp, Replication, WindowChanges, MoveDisk

(* The engine tracks managed devices only. *)
Tracked == DOMAIN disks \subseteq Device

LEMMA LoopDrivesEngine == Tracked /\ Loop => EngineNext \/ UNCHANGED engineVars
<1> SUFFICES ASSUME Tracked, Loop
             PROVE  EngineNext \/ UNCHANGED engineVars
  OBVIOUS
<1>1. CASE BeginSample
  BY <1>1 DEF BeginSample
<1>2. ASSUME NEW present, EndSample(present)
      PROVE  UNCHANGED engineVars
  BY <1>2 DEF EndSample
<1>3. CASE SkipRescan
  BY <1>3 DEF SkipRescan
<1>4. ASSUME NEW bootKnown, NEW answered, NEW reached, NEW present,
             Rescan(bootKnown, answered, reached, present)
      PROVE  EngineNext \/ UNCHANGED engineVars
  BY <1>4, ManagedAreDevices DEF Rescan, EngineNext
<1>5. ASSUME NEW dt \in Steps, CheckAndUpdate(dt)
      PROVE  EngineNext
  <2>1. activeSet \in SUBSET Device /\ {d \in Device : AllowSleep(d)} \in SUBSET Device
    BY DEF Tracked, activeSet
  <2> QED
    BY <1>5, <2>1 DEF CheckAndUpdate, EngineNext
<1>6. ASSUME NEW d \in Device, Attempt(d)
      PROVE  EngineNext
  BY <1>6 DEF Attempt, Withhold, SleepSucceeds, SleepFails, EngineNext
<1>7. CASE Publish
  BY <1>7 DEF Publish
<1> QED
  BY <1>1, <1>2, <1>3, <1>4, <1>5, <1>6, <1>7 DEF Loop

LEMMA DaemonStepsEngine == Tracked /\ [DaemonNext]_daemonVars => [EngineNext]_engineVars
BY LoopDrivesEngine, WorldLeavesLoop DEF DaemonNext, daemonVars, loopVars

LEMMA EngineKeepsTracked == Tracked /\ [EngineNext]_engineVars => Tracked'
BY DEF Tracked, EngineNext, Update, MarkSleepResult, Renew, NewEngine, engineVars

LEMMA AlwaysTracked == DaemonSpec => []Tracked
<1>1. EngineStart => Tracked
  BY DEF EngineStart, EngineInit, NewEngine, Tracked
<1> QED
  BY <1>1, DaemonStartsEngine, DaemonStepsEngine, EngineKeepsTracked, PTL DEF DaemonSpec

(* The daemon's engine behaves as Engine says: whatever the world does and *)
(* whatever fails, the loop never resolves an attempt twice, updates with  *)
(* one open, or replaces the engine under one.                             *)
THEOREM DaemonRefinesEngine == DaemonSpec => EngineSpec
BY AlwaysTracked, DaemonStartsEngine, DaemonStepsEngine, PTL DEF DaemonSpec, EngineSpec

(* So what is proved of the engine holds in the daemon. *)
LEMMA DaemonIInv == DaemonSpec => []IInv
BY DaemonRefinesEngine, Inductive, PTL

-----------------------------------------------------------------------------
(* What is true of the samples between any two steps of the loop: a total  *)
(* counts all I/O since it was read, and between ticks the previous sample *)
(* is the current one.                                                     *)
SamplesOK ==
  /\ pc \in {"sample", "sampling", "rescan", "gate", "sleep"}
  /\ pc # "sleep" => selected = {}
  /\ pc \in {"sample", "sampling"} => prev = cur
  /\ resampled => pc \in {"gate", "sleep"}
  /\ Cumulative => windowIO = io
  /\ Cumulative /\ pc \in {"rescan", "gate"} => moved = lastIO
  /\ resampled /\ pc = "gate" => \A d \in DOMAIN disks : disks[d] = FreshDisk

LEMMA SamplesStart == DaemonInit => SamplesOK
BY DEF DaemonInit, SamplesOK, EngineInit

LEMMA SamplesStep == SamplesOK /\ [DaemonNext]_daemonVars => SamplesOK'
<1> SUFFICES ASSUME SamplesOK, [DaemonNext]_daemonVars
             PROVE  SamplesOK'
  OBVIOUS
<1>1. CASE BeginSample
  BY <1>1 DEF BeginSample, SamplesOK, sampleVars, historyVars, engineVars
<1>2. ASSUME NEW present, EndSample(present)
      PROVE  SamplesOK'
  BY <1>2 DEF EndSample, SamplesOK, engineVars
<1>3. CASE SkipRescan
  BY <1>3 DEF SkipRescan, SamplesOK, sampleVars, historyVars, diskVars, engineVars
<1>4. ASSUME NEW bootKnown, NEW answered, NEW reached, NEW present,
             Rescan(bootKnown, answered, reached, present)
      PROVE  SamplesOK'
  <2>1. CASE managedDevices(bootKnown, answered) = DOMAIN disks
    BY <1>4, <2>1 DEF Rescan, SamplesOK, diskVars, engineVars
  <2>2. CASE managedDevices(bootKnown, answered) # DOMAIN disks
    <3>1. disks' = NewEngine(managedDevices(bootKnown, answered)) /\ selected' = selected
      BY <1>4, <2>2 DEF Rescan, Renew
    <3>2. \A d \in DOMAIN disks' : disks'[d] = FreshDisk
      BY <3>1 DEF NewEngine
    <3> QED
      BY <1>4, <3>1, <3>2 DEF Rescan, SamplesOK, diskVars
  <2> QED
    BY <2>1, <2>2
<1>5. ASSUME NEW dt \in Steps, CheckAndUpdate(dt)
      PROVE  SamplesOK'
  BY <1>5 DEF CheckAndUpdate, SamplesOK, sampleVars, diskVars
<1>6. ASSUME NEW d \in Device, Attempt(d)
      PROVE  SamplesOK'
  BY <1>6 DEF Attempt, Withhold, SleepSucceeds, SleepFails, SamplesOK, sampleVars, diskVars
<1>7. CASE Publish
  BY <1>7 DEF Publish, SamplesOK, diskVars, engineVars
<1>8. CASE World
  <2>1. UNCHANGED loopVars
    BY <1>8, WorldLeavesLoop
  <2>2. Cumulative => windowIO' = io'
    BY <1>8 DEF World, DiskIO, SpinDown, SpinUp, Replication, WindowChanges, MoveDisk,
                SamplesOK, diskVars
  <2> QED
    BY <2>1, <2>2 DEF SamplesOK, loopVars, engineVars, sampleVars
<1>9. CASE UNCHANGED daemonVars
  BY <1>9 DEF daemonVars, SamplesOK, engineVars, sampleVars, diskVars, historyVars
<1> QED
  BY <1>1, <1>2, <1>3, <1>4, <1>5, <1>6, <1>7, <1>8, <1>9 DEF DaemonNext, Loop

LEMMA AlwaysSamplesOK == DaemonSpec => []SamplesOK
BY SamplesStart, SamplesStep, PTL DEF DaemonSpec

-----------------------------------------------------------------------------
(* Why a disk the engine has flagged, with its attempt resolved, need not  *)
(* be in standby: the loop holds evidence it has yet to compare.           *)
Explained ==
  down \cup woken \cup io \cup (Device \ cur)
    \cup (IF pc \in {"rescan", "gate"} THEN moved \cup (Device \ prev) ELSE {})

(* The engine's flag is as good as the state file has to be. *)
FlagsExplained == \A d \in DOMAIN disks \ selected : disks[d].sleeping => d \in Explained

(* Whatever the state file still reports is explained by what the loop     *)
(* holds at the moment.                                                    *)
ReportInv == FlagsExplained /\ ReportedAsleepIsDown /\ published \subseteq Device

LEMMA ReportStart == DaemonInit => ReportInv
BY DEF DaemonInit, EngineInit, NewEngine, FreshDisk, ReportInv, FlagsExplained, ReportedAsleepIsDown

(* A sample moves the evidence from io to moved, and loses none. *)
LEMMA EndSampleKeepsReport ==
  ASSUME Cumulative, SamplesOK, ReportInv, Tracked, NEW present, EndSample(present)
  PROVE  ReportInv'
<1>1. /\ prev = cur /\ resampled = FALSE /\ windowIO = io
      /\ pc = "sampling" /\ pc' = "rescan" /\ cur' = present /\ moved' = io /\ io' = {}
      /\ UNCHANGED <<disks, selected, prev, resampled, published, down, woken>>
  BY DEF EndSample, SamplesOK, engineVars
<1>2. down \cup woken \cup io \cup (Device \ cur) \subseteq Explained' \cap (down \cup woken \cup Unseen)'
  BY <1>1 DEF Explained, Unseen
<1>3. FlagsExplained'
  BY <1>1, <1>2 DEF ReportInv, FlagsExplained, Explained
<1>4. ReportedAsleepIsDown'
  BY <1>1, <1>2 DEF ReportInv, ReportedAsleepIsDown, Unseen
<1> QED
  BY <1>1, <1>3, <1>4 DEF ReportInv

(* A rescan that changes nothing, or forgets everything. *)
LEMMA RescanKeepsReport ==
  ASSUME SamplesOK, ReportInv, NEW bootKnown, NEW answered, NEW reached, NEW present,
         Rescan(bootKnown, answered, reached, present)
  PROVE  ReportInv'
<1>1. /\ pc = "rescan" /\ pc' = "gate"
      /\ UNCHANGED <<cur, moved, published, io, down, woken>>
  BY DEF Rescan, diskVars
<1>2. CASE managedDevices(bootKnown, answered) = DOMAIN disks
  BY <1>1, <1>2 DEF Rescan, engineVars, ReportInv, FlagsExplained, ReportedAsleepIsDown,
                    Explained, Unseen
<1>3. CASE managedDevices(bootKnown, answered) # DOMAIN disks
  <2>1. disks' = NewEngine(managedDevices(bootKnown, answered)) /\ resampled' = TRUE
    BY <1>3 DEF Rescan, Renew
  <2>2. FlagsExplained'
    BY <2>1 DEF NewEngine, FreshDisk, FlagsExplained
  <2>3. ReportedAsleepIsDown'
    BY <1>1, <2>1 DEF ReportInv, ReportedAsleepIsDown, Unseen
  <2> QED
    BY <1>1, <2>2, <2>3 DEF ReportInv
<1> QED
  BY <1>2, <1>3

(* Update clears the flag of every disk whose evidence it compares. *)
LEMMA UpdateKeepsReport ==
  ASSUME Cumulative, IInv, SamplesOK, ReportInv, Tracked, NEW dt \in Steps, CheckAndUpdate(dt)
  PROVE  ReportInv'
<1> DEFINE allowed == {d \in Device : AllowSleep(d)}
<1>1. /\ pc = "gate" /\ pc' = "sleep" /\ selected = {}
      /\ UNCHANGED <<prev, cur, moved, resampled, published, io, down, woken>>
  BY DEF CheckAndUpdate, Update, sampleVars, diskVars
<1>2. activeSet \in SUBSET Device /\ allowed \in SUBSET Device /\ Update(activeSet, allowed, dt)
  BY DEF CheckAndUpdate, Tracked, activeSet
<1>3. selected' = {d \in DOMAIN disks : ~disks[d].sleeping /\ disks'[d].sleeping}
  BY <1>2 DEF Update
<1>4. /\ DOMAIN disks' = DOMAIN disks
      /\ \A d \in DOMAIN disks : d \in activeSet => ~disks'[d].sleeping
  BY <1>2, UpdatePerDisk
<1>5. ASSUME NEW d \in DOMAIN disks', d \notin selected', disks'[d].sleeping
      PROVE  d \in Explained'
  <2>1. d \in DOMAIN disks /\ disks[d].sleeping /\ d \notin activeSet
    BY <1>3, <1>4, <1>5
  <2>2. ~resampled
    BY <1>1, <2>1 DEF SamplesOK, FreshDisk
  <2>3. d \in cur => d \in prev /\ d \notin moved
    BY <2>1, <2>2 DEF activeSet
  <2>4. d \in down \cup woken \cup io \cup (Device \ cur) \cup moved \cup (Device \ prev)
    BY <1>1, <2>1 DEF ReportInv, FlagsExplained, Explained
  <2> QED
    BY <1>1, <2>1, <2>3, <2>4 DEF Explained, Tracked
<1>6. FlagsExplained'
  BY <1>5 DEF FlagsExplained
<1>7. ReportedAsleepIsDown'
  BY <1>1 DEF ReportInv, ReportedAsleepIsDown, Unseen
<1> QED
  BY <1>1, <1>6, <1>7 DEF ReportInv

(* A resolved attempt leaves the disk down, or its flag cleared. *)
LEMMA AttemptKeepsReport ==
  ASSUME IInv, ReportInv, NEW d \in Device, Attempt(d)
  PROVE  ReportInv'
<1>1. /\ pc = "sleep" /\ pc' = pc
      /\ UNCHANGED <<prev, cur, moved, resampled, published, io>>
      /\ down \cup woken \subseteq down' \cup woken'
  BY DEF Attempt, Withhold, SleepSucceeds, SleepFails, sampleVars, diskVars
<1>2. PICK success \in BOOLEAN : MarkSleepResult(d, success) /\ (success => d \in down')
  BY DEF Attempt, Withhold, SleepSucceeds, SleepFails
<1>3. DOMAIN disks' = DOMAIN disks /\ selected' = selected \ {d} /\ d \in selected
  BY <1>2, MarkPerDisk
<1>4. \A o \in DOMAIN disks \ {d} : disks'[o] = disks[o]
  BY <1>2, MarkPerDisk
<1>5. disks'[d].sleeping => d \in down'
  <2>1. CASE success
    BY <1>2, <2>1
  <2>2. CASE ~success
    BY <1>2, <2>2, MarkPerDisk
  <2> QED
    BY <2>1, <2>2
<1>6. Explained \subseteq Explained'
  BY <1>1 DEF Explained
<1>7. FlagsExplained'
  <2>1. ASSUME NEW o \in DOMAIN disks', o \notin selected', disks'[o].sleeping
        PROVE  o \in Explained'
    <3>1. CASE o = d
      BY <1>5, <2>1, <3>1 DEF Explained
    <3>2. CASE o # d
      BY <1>3, <1>4, <1>6, <2>1, <3>2 DEF ReportInv, FlagsExplained
    <3> QED
      BY <3>1, <3>2
  <2> QED
    BY <2>1 DEF FlagsExplained
<1>8. ReportedAsleepIsDown'
  BY <1>1 DEF ReportInv, ReportedAsleepIsDown, Unseen
<1> QED
  BY <1>1, <1>7, <1>8 DEF ReportInv

(* What is published is explained, and stays so in the next tick. *)
LEMMA PublishKeepsReport ==
  ASSUME ReportInv, Tracked, Publish
  PROVE  ReportInv'
<1>1. /\ pc = "sleep" /\ pc' = "sample" /\ selected = {} /\ selected' = {}
      /\ prev' = cur /\ resampled' = FALSE
      /\ published' = {d \in DOMAIN disks : disks[d].sleeping}
      /\ UNCHANGED <<disks, cur, io, down, woken>>
  BY DEF Publish, engineVars, diskVars
<1>2. Explained = down \cup woken \cup io \cup (Device \ cur) /\ Explained' = Explained
  BY <1>1 DEF Explained
<1>3. FlagsExplained'
  BY <1>1, <1>2 DEF ReportInv, FlagsExplained
<1>4. ReportedAsleepIsDown'
  BY <1>1, <1>2 DEF ReportInv, FlagsExplained, ReportedAsleepIsDown, Unseen
<1> QED
  BY <1>1, <1>3, <1>4 DEF ReportInv, Tracked

(* The world can wake a disk only in ways the loop will see, or by hand. *)
LEMMA WorldKeepsReport ==
  ASSUME ReportInv, World
  PROVE  ReportInv'
<1>1. UNCHANGED loopVars
  BY WorldLeavesLoop
<1>2. /\ io \subseteq io' /\ down \cup woken \subseteq down' \cup woken' \cup io'
  BY DEF World, DiskIO, SpinDown, SpinUp, Replication, WindowChanges, MoveDisk, diskVars
<1>3. /\ UNCHANGED <<disks, selected, pc, prev, cur, moved, resampled, published>>
  BY <1>1 DEF loopVars, engineVars, sampleVars
<1>4. Explained \subseteq Explained' /\ Unseen \subseteq Unseen'
  BY <1>2, <1>3 DEF Explained, Unseen
<1>5. io' \subseteq Unseen' \/ resampled
  BY <1>3 DEF Unseen
<1>6. FlagsExplained'
  BY <1>3, <1>4 DEF ReportInv, FlagsExplained
<1>7. ReportedAsleepIsDown'
  BY <1>2, <1>3, <1>4, <1>5 DEF ReportInv, ReportedAsleepIsDown, Unseen
<1> QED
  BY <1>3, <1>6, <1>7 DEF ReportInv

LEMMA ReportStep ==
  ASSUME Cumulative
  PROVE  IInv /\ Tracked /\ SamplesOK /\ ReportInv /\ [DaemonNext]_daemonVars => ReportInv'
<1> SUFFICES ASSUME IInv, Tracked, SamplesOK, ReportInv, [DaemonNext]_daemonVars
             PROVE  ReportInv'
  OBVIOUS
<1>1. CASE BeginSample
  <2>1. /\ pc = "sample" /\ pc' = "sampling"
        /\ UNCHANGED <<disks, selected, prev, cur, moved, resampled, published, io, down, woken>>
    BY <1>1 DEF BeginSample, engineVars, sampleVars
  <2> QED
    BY <2>1 DEF ReportInv, FlagsExplained, Explained, ReportedAsleepIsDown, Unseen
<1>2. CASE SkipRescan
  <2>1. /\ pc = "rescan" /\ pc' = "gate"
        /\ UNCHANGED <<disks, selected, prev, cur, moved, resampled, published, io, down, woken>>
    BY <1>2 DEF SkipRescan, engineVars, sampleVars, diskVars
  <2> QED
    BY <2>1 DEF ReportInv, FlagsExplained, Explained, ReportedAsleepIsDown, Unseen
<1>3. CASE UNCHANGED daemonVars
  BY <1>3 DEF daemonVars, engineVars, sampleVars, diskVars,
              ReportInv, FlagsExplained, Explained, ReportedAsleepIsDown, Unseen
<1> QED
  BY <1>1, <1>2, <1>3, EndSampleKeepsReport, RescanKeepsReport, UpdateKeepsReport,
     AttemptKeepsReport, PublishKeepsReport, WorldKeepsReport DEF DaemonNext, Loop

(* With a reader that delivers totals, the state file never reports a disk *)
(* as sleeping that is not, but for a spin-up by hand or I/O the loop is   *)
(* bound to see: on every host, with samples lost, commands failing or     *)
(* timing out, zpool not answering and pools changing under the daemon.    *)
THEOREM ReportIsHonest ==
  ASSUME Cumulative
  PROVE  DaemonSpec => []ReportedAsleepIsDown
<1>1. ReportInv => ReportedAsleepIsDown
  BY DEF ReportInv
<1>2. DaemonSpec => []ReportInv
  BY DaemonIInv, AlwaysTracked, AlwaysSamplesOK, ReportStart, ReportStep, PTL DEF DaemonSpec
<1> QED
  BY <1>1, <1>2, PTL

-----------------------------------------------------------------------------
(* The engine's idle age is real: it never exceeds the time the disk has   *)
(* really been quiet.                                                      *)
QuietInv ==
  /\ prev = Device /\ cur = Device
  /\ quiet \in [Device -> 0 .. Wait]
  /\ \A d \in DOMAIN disks : disks[d].idle <= quiet[d]

LEMMA QuietStart ==
  ASSUME "sample" \notin Faults
  PROVE  DaemonInit => QuietInv
BY ManagedAreDevices, ConstantFacts
   DEF DaemonInit, EngineInit, NewEngine, FreshDisk, Answers, QuietInv, ZeroTime

(* A disk the comparison misses because the previous sample was read anew  *)
(* belongs to an engine that knows nothing of it yet.                      *)
LEMMA UpdateKeepsQuiet ==
  ASSUME Cumulative, IInv, SamplesOK, QuietInv, Tracked, NEW dt \in Steps, CheckAndUpdate(dt)
  PROVE  QuietInv'
<1>1. /\ pc = "gate" /\ UNCHANGED <<prev, cur>>
      /\ quiet' = [d \in Device |-> IF d \in lastIO THEN 0 ELSE Saturate(quiet[d] + dt, Wait)]
      /\ disks' = [d \in DOMAIN disks |->
                     UpdateDisk(disks[d], d \in activeSet, d \in {o \in Device : AllowSleep(o)}, dt)]
  BY DEF CheckAndUpdate, Update, sampleVars
<1>2. dt \in Nat
  BY ConstantFacts
<1>3. quiet' \in [Device -> 0 .. Wait]
  <2>1. \A d \in Device : Saturate(quiet[d] + dt, Wait) \in 0 .. Wait
    <3> TAKE d \in Device
    <3>1. quiet[d] + dt \in Nat
      BY <1>2, ConstantFacts DEF QuietInv
    <3> QED
      BY <3>1, SaturateFacts, ConstantFacts
  <2> QED
    BY <1>1, <2>1, ConstantFacts
<1>4. ASSUME NEW d \in DOMAIN disks
      PROVE  disks'[d].idle <= quiet'[d]
  <2>1. /\ d \in Device /\ disks[d] \in EngineDisk
        /\ disks[d].idle <= quiet[d] /\ quiet[d] \in 0 .. Wait
    BY DEF IInv, EngineTypeOK, QuietInv
  <2>2. IdleAfter(disks[d], dt) \in 0 .. Wait
        /\ IdleAfter(disks[d], dt) <= Saturate(quiet[d] + dt, Wait)
    BY <1>2, <2>1, IdleAfterFacts
  <2>3. quiet'[d] \in 0 .. Wait
    BY <1>3, <2>1
  <2>4. disks'[d].idle \in {ZeroTime, IdleAfter(disks[d], dt)}
    <3>1. disks'[d] = UpdateDisk(disks[d], d \in activeSet, d \in {o \in Device : AllowSleep(o)}, dt)
      BY <1>1
    <3>2. disks[d] = [sleeping |-> disks[d].sleeping, idle |-> disks[d].idle, verify |-> disks[d].verify]
      BY <2>1 DEF EngineDisk
    <3> QED
      BY <3>1, <3>2 DEF UpdateDisk, FreshDisk
  <2>5. CASE d \in activeSet
    <3>1. disks'[d] = FreshDisk
      BY <1>1, <2>5 DEF UpdateDisk
    <3> QED
      BY <2>3, <3>1, ConstantFacts DEF FreshDisk
  <2>6. CASE d \notin activeSet /\ d \notin lastIO
    <3>1. quiet'[d] = Saturate(quiet[d] + dt, Wait)
      BY <1>1, <2>1, <2>6
    <3> QED
      BY <2>2, <2>3, <2>4, <3>1, ConstantFacts
  <2>7. CASE d \notin activeSet /\ d \in lastIO
    <3>1. resampled
      BY <1>1, <2>1, <2>7 DEF activeSet, QuietInv, SamplesOK
    <3>2. disks[d] = FreshDisk
      BY <1>1, <3>1 DEF SamplesOK
    <3>3. IdleAfter(disks[d], dt) = 0
      BY <3>2 DEF IdleAfter, FreshDisk
    <3> QED
      BY <2>3, <2>4, <3>3, ConstantFacts
  <2> QED
    BY <2>5, <2>6, <2>7
<1> QED
  BY <1>1, <1>3, <1>4 DEF QuietInv

LEMMA AttemptKeepsQuiet ==
  ASSUME IInv, QuietInv, NEW d \in Device, Attempt(d)
  PROVE  QuietInv'
<1>1. UNCHANGED <<prev, cur, quiet>>
  BY DEF Attempt, Withhold, SleepSucceeds, SleepFails, sampleVars, historyVars
<1>2. PICK success \in BOOLEAN : MarkSleepResult(d, success)
  BY DEF Attempt, Withhold, SleepSucceeds, SleepFails
<1>3. DOMAIN disks' = DOMAIN disks /\ \A o \in DOMAIN disks \ {d} : disks'[o] = disks[o]
  BY <1>2, MarkPerDisk
<1>4. disks'[d].idle <= quiet[d]
  <2>1. d \in DOMAIN disks /\ quiet[d] \in 0 .. Wait
    BY <1>2, MarkPerDisk DEF QuietInv
  <2>2. CASE success
    BY <1>2, <2>1, <2>2, MarkPerDisk DEF QuietInv
  <2>3. CASE ~success
    BY <1>2, <2>1, <2>3, MarkPerDisk, ConstantFacts
  <2> QED
    BY <2>2, <2>3
<1> QED
  BY <1>1, <1>3, <1>4 DEF QuietInv

LEMMA QuietStep ==
  ASSUME Cumulative, "sample" \notin Faults
  PROVE  IInv /\ Tracked /\ SamplesOK /\ QuietInv /\ [DaemonNext]_daemonVars => QuietInv'
<1> SUFFICES ASSUME IInv, Tracked, SamplesOK, QuietInv, [DaemonNext]_daemonVars
             PROVE  QuietInv'
  OBVIOUS
<1>1. Answers(Device, "sample") = {Device}
  BY DEF Answers
<1>2. CASE BeginSample
  BY <1>2 DEF BeginSample, QuietInv, engineVars, sampleVars, historyVars
<1>3. CASE EndSample(Device)
  BY <1>3 DEF EndSample, QuietInv, engineVars
<1>4. CASE SkipRescan
  BY <1>4 DEF SkipRescan, QuietInv, engineVars, sampleVars, historyVars
<1>5. ASSUME NEW bootKnown, NEW answered, NEW reached,
             Rescan(bootKnown, answered, reached, Device)
      PROVE  QuietInv'
  <2>1. UNCHANGED <<cur, quiet>> /\ prev' = Device
    BY <1>5 DEF Rescan, QuietInv
  <2>2. CASE managedDevices(bootKnown, answered) = DOMAIN disks
    BY <1>5, <2>1, <2>2 DEF Rescan, QuietInv, engineVars
  <2>3. CASE managedDevices(bootKnown, answered) # DOMAIN disks
    <3>1. disks' = NewEngine(managedDevices(bootKnown, answered))
      BY <1>5, <2>3 DEF Rescan, Renew
    <3>2. \A d \in DOMAIN disks' : d \in Device /\ disks'[d].idle = ZeroTime
      BY <3>1, ManagedAreDevices DEF NewEngine, FreshDisk
    <3>3. \A d \in Device : ZeroTime <= quiet[d]
      BY ConstantFacts DEF QuietInv, ZeroTime
    <3> QED
      BY <2>1, <3>2, <3>3 DEF QuietInv
  <2> QED
    BY <2>2, <2>3
<1>6. CASE Publish
  BY <1>6 DEF Publish, QuietInv, engineVars, historyVars
<1>7. CASE World
  BY <1>7, WorldLeavesLoop DEF loopVars, engineVars, sampleVars, QuietInv
<1>8. CASE UNCHANGED daemonVars
  BY <1>8 DEF daemonVars, engineVars, sampleVars, historyVars, QuietInv
<1> QED
  BY <1>1, <1>2, <1>3, <1>4, <1>5, <1>6, <1>7, <1>8, UpdateKeepsQuiet, AttemptKeepsQuiet
     DEF DaemonNext, Loop

(* A selected disk has served its whole wait. *)
LEMMA QuietSuffices ==
  ASSUME IInv, QuietInv
  PROVE  SleepOnlyTrulyIdle
<1> SUFFICES ASSUME NEW d \in selected
             PROVE  quiet[d] >= Wait
  BY DEF SleepOnlyTrulyIdle
<1>1. d \in DOMAIN disks /\ d \in Device /\ disks[d] \in EngineDisk
  BY DEF IInv, EngineTypeOK
<1>2. disks[d].idle = Wait
  BY <1>1, ConstantFacts DEF IInv, CountdownBacked, Backed
<1> QED
  BY <1>1, <1>2, ConstantFacts DEF QuietInv

(* With a reader that delivers totals and does not fail, the daemon only   *)
(* ever spins down a disk that has really been without I/O for Wait        *)
(* seconds, through rescans, engine replacements and lost comparisons.     *)
THEOREM SleepsOnlyTrulyIdle ==
  ASSUME Cumulative, "sample" \notin Faults
  PROVE  DaemonSpec => []SleepOnlyTrulyIdle
<1>1. DaemonSpec => []QuietInv
  BY DaemonIInv, AlwaysTracked, AlwaysSamplesOK, QuietStart, QuietStep, PTL DEF DaemonSpec
<1>2. IInv /\ QuietInv => SleepOnlyTrulyIdle
  BY QuietSuffices
<1> QED
  BY <1>1, <1>2, DaemonIInv, PTL

-----------------------------------------------------------------------------
(* The shape of everything the loop, the world and the history hold. *)
DaemonShape ==
  /\ prev \subseteq Device /\ cur \subseteq Device /\ moved \subseteq Device
  /\ windowNow \subseteq Windowed \cup {Global} /\ open \subseteq Windowed \cup {Global}
  /\ resampled \in BOOLEAN /\ rep \in BOOLEAN /\ replicating \in BOOLEAN
  /\ devicePool \in [Device -> ManagedPool \cup {NoPool}]
  /\ published \subseteq Device
  /\ windowIO \subseteq io /\ io \subseteq Device /\ down \subseteq Device
  /\ woken \subseteq Device \ down
  /\ poolOf \in [Device -> PoolOrNone]
  /\ quiet \in [Device -> 0 .. Wait]

LEMMA OwnersAreManaged ==
  ASSUME NEW answered
  PROVE  devicePoolMap(answered) \in [Device -> ManagedPool \cup {NoPool}]
BY DEF devicePoolMap

LEMMA AnswersAreSubsets ==
  ASSUME NEW S, NEW fault, NEW X \in Answers(S, fault)
  PROVE  X \subseteq S
BY DEF Answers

LEMMA ShapeStart == DaemonInit => DaemonShape
<1> SUFFICES ASSUME DaemonInit PROVE DaemonShape
  OBVIOUS
<1>1. prev \in Answers(Device, "sample") /\ quiet = [d \in Device |-> 0]
  BY DEF DaemonInit
<1>2. prev \subseteq Device
  BY <1>1, AnswersAreSubsets
<1>3. quiet \in [Device -> 0 .. Wait]
  BY <1>1, ConstantFacts
<1>4. devicePool \in [Device -> ManagedPool \cup {NoPool}]
  BY OwnersAreManaged DEF DaemonInit
<1>5. poolOf \in [Device -> PoolOrNone]
  BY DaemonAssumption DEF DaemonInit, PoolOrNone
<1> QED
  BY <1>2, <1>3, <1>4, <1>5 DEF DaemonInit, DaemonShape

LEMMA ShapeStep ==
  IInv /\ Tracked /\ DaemonShape /\ [DaemonNext]_daemonVars => DaemonShape'
<1> SUFFICES ASSUME IInv, Tracked, DaemonShape, [DaemonNext]_daemonVars
             PROVE  DaemonShape'
  OBVIOUS
<1>1. CASE BeginSample
  BY <1>1 DEF BeginSample, DaemonShape, sampleVars, hostVars, historyVars
<1>2. ASSUME NEW present \in Answers(Device, "sample"), EndSample(present)
      PROVE  DaemonShape'
  <2>1. present \subseteq Device
    BY AnswersAreSubsets
  <2> QED
    BY <1>2, <2>1 DEF EndSample, DaemonShape, hostVars
<1>3. CASE SkipRescan
  BY <1>3 DEF SkipRescan, DaemonShape, sampleVars, diskVars, hostVars, historyVars
<1>4. ASSUME NEW bootKnown, NEW answered, NEW reached, NEW present \in Answers(Device, "sample"),
             Rescan(bootKnown, answered, reached, present)
      PROVE  DaemonShape'
  <2>1. present \subseteq Device
    BY AnswersAreSubsets
  <2> QED
    BY <1>4, <2>1, OwnersAreManaged DEF Rescan, DaemonShape, diskVars, hostVars
<1>5. ASSUME NEW dt \in Steps, CheckAndUpdate(dt)
      PROVE  DaemonShape'
  <2>1. quiet' \in [Device -> 0 .. Wait]
    <3>1. ASSUME NEW d \in Device
          PROVE  Saturate(quiet[d] + dt, Wait) \in 0 .. Wait
      <4>1. quiet[d] + dt \in Nat
        BY ConstantFacts DEF DaemonShape
      <4> QED
        BY <4>1, SaturateFacts, ConstantFacts
    <3>2. quiet' = [d \in Device |-> IF d \in lastIO THEN 0 ELSE Saturate(quiet[d] + dt, Wait)]
      BY <1>5 DEF CheckAndUpdate
    <3> QED
      BY <3>1, <3>2, ConstantFacts
  <2>2. rep' \in BOOLEAN
    BY <1>5 DEF CheckAndUpdate, CheckResult, DaemonShape
  <2> QED
    BY <1>5, <2>1, <2>2 DEF CheckAndUpdate, DaemonShape, sampleVars, diskVars, hostVars
<1>6. ASSUME NEW d \in Device, Attempt(d)
      PROVE  DaemonShape'
  BY <1>6 DEF Attempt, Withhold, SleepSucceeds, SleepFails, DaemonShape,
              sampleVars, diskVars, hostVars, historyVars
<1>7. CASE Publish
  BY <1>7 DEF Publish, DaemonShape, Tracked, diskVars, hostVars, historyVars
<1>8. CASE World
  <2>1. UNCHANGED loopVars
    BY <1>8, WorldLeavesLoop
  <2>2. ASSUME NEW d \in Device, DiskIO(d) \/ SpinDown(d) \/ SpinUp(d)
        PROVE  DaemonShape'
    BY <2>1, <2>2 DEF DiskIO, SpinDown, SpinUp, DaemonShape, loopVars, sampleVars, hostVars
  <2>3. CASE Replication
    BY <2>1, <2>3 DEF Replication, DaemonShape, loopVars, sampleVars, diskVars
  <2>4. ASSUME NEW w \in Windowed \cup {Global}, WindowChanges(w)
        PROVE  DaemonShape'
    BY <2>1, <2>4 DEF WindowChanges, DaemonShape, loopVars, sampleVars, diskVars
  <2>5. ASSUME NEW d \in Device, NEW p \in MayJoin[d], MoveDisk(d, p)
        PROVE  DaemonShape'
    <3>1. p \in PoolOrNone
      BY DaemonAssumption DEF PoolOrNone
    <3> QED
      BY <2>1, <2>5, <3>1 DEF MoveDisk, DaemonShape, loopVars, sampleVars, diskVars
  <2> QED
    BY <1>8, <2>2, <2>3, <2>4, <2>5 DEF World
<1>9. CASE UNCHANGED daemonVars
  BY <1>9 DEF daemonVars, DaemonShape, sampleVars, diskVars, hostVars, historyVars
<1> QED
  BY <1>1, <1>2, <1>3, <1>4, <1>5, <1>6, <1>7, <1>8, <1>9 DEF DaemonNext, Loop

(* The loop's state keeps its shape, an attempt is open only between       *)
(* Update and Publish, and only disks of the host are reported.            *)
THEOREM DaemonTypeCorrect == DaemonSpec => []DaemonTypeOK
<1>1. DaemonSpec => []DaemonShape
  BY ShapeStart, ShapeStep, DaemonIInv, AlwaysTracked, PTL DEF DaemonSpec
<1>2. IInv /\ SamplesOK /\ DaemonShape => DaemonTypeOK
  BY DEF IInv, SamplesOK, DaemonShape, DaemonTypeOK
<1> QED
  BY <1>1, <1>2, DaemonIInv, AlwaysSamplesOK, PTL

-----------------------------------------------------------------------------
(* A rescan that finds everything leaves no disk of the boot pool managed. *)
BootInv == settled => \A d \in DOMAIN disks : poolOf[d] # BootPool

LEMMA ManagedAreOutsideBootPool ==
  ASSUME BootPool \in Pool, NEW answered, NEW d \in managedDevices(TRUE, answered)
  PROVE  poolOf[d] # BootPool
<1>1. d \in Device
  BY ManagedAreDevices
<1> QED
  BY <1>1 DEF managedDevices, neverSleepSet

LEMMA BootStep ==
  ASSUME BootPool \in Pool, "zpool" \notin Faults
  PROVE  Tracked /\ BootInv /\ [DaemonNext]_daemonVars => BootInv'
<1> SUFFICES ASSUME Tracked, BootInv, [DaemonNext]_daemonVars
             PROVE  BootInv'
  OBVIOUS
<1>1. CASE UNCHANGED <<DOMAIN disks, poolOf, settled>>
  BY <1>1 DEF BootInv
<1>2. CASE BeginSample \/ SkipRescan \/ Publish
            \/ \E present \in Answers(Device, "sample") : EndSample(present)
  <2>1. UNCHANGED <<disks, poolOf, settled>>
    BY <1>2 DEF BeginSample, EndSample, SkipRescan, Publish, engineVars, hostVars, historyVars
  <2> QED
    BY <1>1, <2>1
<1>3. ASSUME NEW dt \in Steps, CheckAndUpdate(dt)
      PROVE  BootInv'
  BY <1>1, <1>3 DEF CheckAndUpdate, Update, hostVars
<1>4. ASSUME NEW d \in Device, Attempt(d)
      PROVE  BootInv'
  <2>1. UNCHANGED <<DOMAIN disks, poolOf, settled>>
    BY <1>4 DEF Attempt, Withhold, SleepSucceeds, SleepFails, MarkSleepResult, hostVars, historyVars
  <2> QED
    BY <1>1, <2>1
<1>5. ASSUME NEW reached, NEW present, Rescan(TRUE, Pool, reached, present)
      PROVE  BootInv'
  <2>1. DOMAIN disks' = managedDevices(TRUE, Pool) /\ poolOf' = poolOf
    BY <1>5 DEF Rescan, Renew, NewEngine, engineVars, hostVars
  <2> QED
    BY <2>1, ManagedAreOutsideBootPool DEF BootInv
<1>6. CASE World
  <2>1. ASSUME NEW d \in Device, NEW p \in MayJoin[d], MoveDisk(d, p)
        PROVE  BootInv'
    BY <2>1 DEF MoveDisk, BootInv
  <2>2. CASE ~(\E d \in Device : \E p \in MayJoin[d] : MoveDisk(d, p))
    <3>1. UNCHANGED <<disks, poolOf, settled>>
      BY <1>6, <2>2 DEF World, DiskIO, SpinDown, SpinUp, Replication, WindowChanges,
                        loopVars, engineVars, hostVars
    <3> QED
      BY <1>1, <3>1
  <2> QED
    BY <2>1, <2>2
<1>7. CASE UNCHANGED daemonVars
  BY <1>1, <1>7 DEF daemonVars, engineVars, hostVars, historyVars
<1>8. BootAnswers = {TRUE} /\ Answers(Pool, "zpool") = {Pool}
  BY DEF BootAnswers, Answers
<1> QED
  BY <1>2, <1>3, <1>4, <1>5, <1>6, <1>7, <1>8 DEF DaemonNext, Loop

(* README, safety model 6: where queries of zpool do not fail, no disk of  *)
(* the boot pool is spun down by the loop, once a rescan has seen that it  *)
(* belongs to it, whichever pools disks are moved to.                      *)
THEOREM BootPoolIsLeftAlone ==
  ASSUME BootPool \in Pool, "zpool" \notin Faults
  PROVE  DaemonSpec => []BootPoolNeverSlept
<1>1. DaemonInit => BootInv
  <2> SUFFICES ASSUME DaemonInit PROVE BootInv
    OBVIOUS
  <2>1. DOMAIN disks = managedDevices(TRUE, Pool)
    BY DEF DaemonInit, BootAnswers, Answers, EngineInit, NewEngine
  <2> QED
    BY <2>1, ManagedAreOutsideBootPool DEF BootInv
<1>2. DaemonSpec => []BootInv
  BY <1>1, BootStep, AlwaysTracked, PTL DEF DaemonSpec
<1>3. IInv /\ BootInv => BootPoolNeverSlept
  BY DEF IInv, EngineTypeOK, BootInv, BootPoolNeverSlept
<1> QED
  BY <1>2, <1>3, DaemonIInv, PTL

-----------------------------------------------------------------------------
(* The pools a disk can be found in, and whether the daemon manages the    *)
(* disk there.                                                             *)
Possible(d) == {InitialPool[d]} \cup MayJoin[d]

ManagedIn(d, p) ==
  /\ d \notin Protected
  /\ ~(BootPool \in Pool /\ p = BootPool)
  /\ d \in FreeDisk \/ p \in ManagedPool

(* Wherever a disk can be managed, it goes by the same window: disks do    *)
(* not change hands between pools of different windows, or only to and     *)
(* from pools that the daemon leaves alone.                                *)
OneWindowPerDisk ==
  \A d \in Device : \A p, q \in Possible(d) :
    ManagedIn(d, p) /\ ManagedIn(d, q) => WindowOf(p) = WindowOf(q)

(* The window the daemon lets a disk go by is that of some pool it can be  *)
(* managed in; after a full rescan it is managed in the pool it is in; and *)
(* what this tick selected was allowed by the windows of this tick.        *)
WindowInv ==
  /\ \A d \in Device : poolOf[d] \in Possible(d)
  /\ \A d \in DOMAIN disks : \E p \in Possible(d) :
       ManagedIn(d, p) /\ WindowOf(devicePool[d]) = WindowOf(p)
  /\ settled => \A d \in DOMAIN disks : ManagedIn(d, poolOf[d])
  /\ pc = "sleep" => \A d \in selected : AllowSleep(d)

(* Resolving disks and owners with every pool answering. *)
LEMMA ResolvedGoByTheirWindow ==
  ASSUME Windowed \subseteq ManagedPool, NEW d \in managedDevices(TRUE, Pool)
  PROVE  /\ ManagedIn(d, poolOf[d])
         /\ WindowOf(devicePoolMap(Pool)[d]) = WindowOf(poolOf[d])
<1>1. d \in Device
  BY ManagedAreDevices
<1>2. ManagedIn(d, poolOf[d])
  BY <1>1 DEF managedDevices, neverSleepSet, ManagedIn
<1>3. devicePoolMap(Pool)[d] = IF poolOf[d] \in ManagedPool THEN poolOf[d] ELSE NoPool
  BY <1>1, DaemonAssumption DEF devicePoolMap
<1> QED
  BY <1>2, <1>3, DaemonAssumption DEF WindowOf

LEMMA WindowStart ==
  ASSUME "zpool" \notin Faults, Windowed \subseteq ManagedPool
  PROVE  DaemonInit => WindowInv
<1> SUFFICES ASSUME DaemonInit PROVE WindowInv
  OBVIOUS
<1>1. /\ DOMAIN disks = managedDevices(TRUE, Pool) /\ devicePool = devicePoolMap(Pool)
      /\ poolOf = InitialPool /\ selected = {}
  BY DEF DaemonInit, BootAnswers, Answers, EngineInit, NewEngine
<1>2. \A d \in Device : poolOf[d] \in Possible(d)
  BY <1>1 DEF Possible
<1> QED
  BY <1>1, <1>2, ResolvedGoByTheirWindow, ManagedAreDevices DEF WindowInv

LEMMA WindowStep ==
  ASSUME "zpool" \notin Faults, Windowed \subseteq ManagedPool
  PROVE  Tracked /\ SamplesOK /\ WindowInv /\ [DaemonNext]_daemonVars => WindowInv'
<1> SUFFICES ASSUME Tracked, SamplesOK, WindowInv, [DaemonNext]_daemonVars
             PROVE  WindowInv'
  OBVIOUS
<1>1. CASE /\ UNCHANGED <<DOMAIN disks, devicePool, poolOf, settled>>
           /\ pc' = "sleep" => \A d \in selected' : AllowSleep(d)'
  BY <1>1 DEF WindowInv
<1>2. CASE BeginSample \/ SkipRescan \/ Publish
            \/ \E present \in Answers(Device, "sample") : EndSample(present)
  <2>1. UNCHANGED <<disks, devicePool, poolOf, settled>> /\ pc' # "sleep"
    BY <1>2 DEF BeginSample, EndSample, SkipRescan, Publish, engineVars, hostVars, historyVars
  <2> QED
    BY <1>1, <2>1
<1>3. ASSUME NEW present, Rescan(TRUE, Pool, Pool, present)
      PROVE  WindowInv'
  <2>1. poolOf' = poolOf /\ pc' # "sleep" /\ DOMAIN disks' = managedDevices(TRUE, Pool)
    BY <1>3 DEF Rescan, Renew, NewEngine, engineVars, hostVars
  <2>2. (devicePool' = devicePool /\ DOMAIN disks' = DOMAIN disks) \/ devicePool' = devicePoolMap(Pool)
    BY <1>3 DEF Rescan, engineVars
  <2>3. \A d \in DOMAIN disks' : \E p \in Possible(d) :
          ManagedIn(d, p) /\ WindowOf(devicePool'[d]) = WindowOf(p)
    BY <2>1, <2>2, ResolvedGoByTheirWindow, ManagedAreDevices DEF WindowInv
  <2>4. \A d \in DOMAIN disks' : ManagedIn(d, poolOf'[d])
    BY <2>1, ResolvedGoByTheirWindow
  <2> QED
    BY <2>1, <2>3, <2>4 DEF WindowInv
<1>4. ASSUME NEW dt \in Steps, CheckAndUpdate(dt)
      PROVE  WindowInv'
  <2>1. /\ selected' = {d \in DOMAIN disks : ~disks[d].sleeping /\ disks'[d].sleeping}
        /\ disks' = [d \in DOMAIN disks |->
              UpdateDisk(disks[d], d \in activeSet, d \in {e \in Device : AllowSleep(e)}, dt)]
        /\ UNCHANGED <<devicePool, poolOf, settled, windowNow>>
    BY <1>4 DEF CheckAndUpdate, Update, sampleVars, hostVars
  <2>2. ASSUME NEW d \in selected' PROVE AllowSleep(d)
    <3>1. d \in Device /\ ~disks[d].sleeping /\ disks'[d].sleeping /\ d \in DOMAIN disks
      BY <2>1 DEF Tracked
    <3>2. disks'[d] = UpdateDisk(disks[d], d \in activeSet, d \in {e \in Device : AllowSleep(e)}, dt)
      BY <2>1, <3>1
    <3>3. CASE d \notin {e \in Device : AllowSleep(e)}
      BY <3>1, <3>2, <3>3 DEF UpdateDisk, FreshDisk
    <3> QED
      BY <3>1, <3>3
  <2> QED
    BY <1>1, <2>1, <2>2 DEF AllowSleep
<1>5. ASSUME NEW d \in Device, Attempt(d)
      PROVE  WindowInv'
  <2>1. /\ UNCHANGED <<DOMAIN disks, devicePool, poolOf, settled, windowNow, pc>>
        /\ selected' \subseteq selected
    BY <1>5 DEF Attempt, Withhold, SleepSucceeds, SleepFails, MarkSleepResult,
                sampleVars, hostVars, historyVars
  <2> QED
    BY <1>1, <2>1 DEF AllowSleep, WindowInv
<1>6. CASE World
  <2>1. UNCHANGED <<disks, selected, devicePool, pc, windowNow>>
    BY <1>6, WorldLeavesLoop DEF loopVars, engineVars, sampleVars
  <2>2. pc' = "sleep" => \A d \in selected' : AllowSleep(d)'
    BY <2>1 DEF AllowSleep, WindowInv
  <2>3. ASSUME NEW d \in Device, NEW p \in MayJoin[d], MoveDisk(d, p)
        PROVE  WindowInv'
    <3>1. poolOf' = [poolOf EXCEPT ![d] = p] /\ ~settled'
      BY <2>3 DEF MoveDisk
    <3>2. \A e \in Device : poolOf'[e] \in Possible(e)
      BY <3>1 DEF WindowInv, Possible
    <3> QED
      BY <2>1, <2>2, <3>1, <3>2 DEF WindowInv
  <2>4. CASE ~(\E d \in Device : \E p \in MayJoin[d] : MoveDisk(d, p))
    <3>1. UNCHANGED <<poolOf, settled>>
      BY <1>6, <2>4 DEF World, DiskIO, SpinDown, SpinUp, Replication, WindowChanges, hostVars
    <3> QED
      BY <1>1, <2>1, <2>2, <3>1
  <2> QED
    BY <2>3, <2>4
<1>7. CASE UNCHANGED daemonVars
  <2>1. UNCHANGED <<disks, selected, devicePool, poolOf, settled, windowNow, pc>>
    BY <1>7 DEF daemonVars, engineVars, sampleVars, hostVars, historyVars
  <2> QED
    BY <1>1, <2>1 DEF AllowSleep, WindowInv
<1>8. BootAnswers = {TRUE} /\ Answers(Pool, "zpool") = {Pool}
  BY DEF BootAnswers, Answers
<1> QED
  BY <1>2, <1>3, <1>4, <1>5, <1>6, <1>7, <1>8 DEF DaemonNext, Loop

(* README, safety model 3: where queries of zpool do not fail, only pools  *)
(* that are managed have a window of their own (validateConfig), and no *)
(* disk changes between managed pools of different windows, no disk is     *)
(* slept inside the window its pool goes by, once a rescan has seen which  *)
(* pool that is.                                                           *)
THEOREM WindowIsRespected ==
  ASSUME "zpool" \notin Faults, Windowed \subseteq ManagedPool, OneWindowPerDisk
  PROVE  DaemonSpec => []NoSleepInsideWindow
<1>1. DaemonSpec => []WindowInv
  BY WindowStart, WindowStep, AlwaysTracked, AlwaysSamplesOK, PTL DEF DaemonSpec
<1>2. IInv /\ SamplesOK /\ WindowInv => NoSleepInsideWindow
  <2> SUFFICES ASSUME IInv, SamplesOK, WindowInv, NEW d \in selected, settled
               PROVE  WindowOf(poolOf[d]) \notin windowNow
    BY DEF NoSleepInsideWindow
  <2>1. d \in DOMAIN disks /\ d \in Device /\ AllowSleep(d)
    BY DEF IInv, EngineTypeOK, SamplesOK, WindowInv
  <2>2. PICK p \in Possible(d) : ManagedIn(d, p) /\ WindowOf(devicePool[d]) = WindowOf(p)
    BY <2>1 DEF WindowInv
  <2>3. poolOf[d] \in Possible(d) /\ ManagedIn(d, poolOf[d])
    BY <2>1 DEF WindowInv
  <2>4. WindowOf(poolOf[d]) = WindowOf(devicePool[d])
    BY <2>1, <2>2, <2>3 DEF OneWindowPerDisk
  <2> QED
    BY <2>1, <2>4 DEF AllowSleep
<1> QED
  BY <1>1, <1>2, DaemonIInv, AlwaysSamplesOK, PTL

-----------------------------------------------------------------------------
(* What one check per tick can know of a replication. *)
GateInv == (replHeld => replicating) /\ (pc = "sleep" /\ replHeld => rep)

LEMMA GateStep ==
  ASSUME "pgrep" \notin Faults
  PROVE  GateInv /\ [DaemonNext]_daemonVars => GateInv'
<1> SUFFICES ASSUME GateInv, [DaemonNext]_daemonVars PROVE GateInv'
  OBVIOUS
<1>1. CASE BeginSample \/ SkipRescan \/ Publish
            \/ \E present \in Answers(Device, "sample") : EndSample(present)
  BY <1>1 DEF BeginSample, EndSample, SkipRescan, Publish, hostVars, historyVars, GateInv
<1>2. ASSUME NEW bootKnown, NEW answered, NEW reached, NEW present,
             Rescan(bootKnown, answered, reached, present)
      PROVE  GateInv'
  BY <1>2 DEF Rescan, hostVars, GateInv
<1>3. ASSUME NEW dt \in Steps, CheckAndUpdate(dt)
      PROVE  GateInv'
  BY <1>3 DEF CheckAndUpdate, CheckResult, hostVars, GateInv
<1>4. ASSUME NEW d \in Device, Attempt(d)
      PROVE  GateInv'
  <2>1. UNCHANGED <<pc, rep, replicating, replHeld>>
    BY <1>4 DEF Attempt, Withhold, SleepSucceeds, SleepFails, hostVars, historyVars
  <2> QED
    BY <2>1 DEF GateInv
<1>5. CASE World
  <2>1. pc' = pc /\ rep' = rep
    BY <1>5, WorldLeavesLoop DEF loopVars
  <2>2. CASE Replication
    BY <2>1, <2>2, Zenon DEF Replication, GateInv
  <2>3. CASE ~Replication
    <3>1. UNCHANGED <<replicating, replHeld>>
      BY <1>5, <2>3 DEF World, DiskIO, SpinDown, SpinUp, WindowChanges, MoveDisk, hostVars
    <3> QED
      BY <2>1, <3>1 DEF GateInv
  <2> QED
    BY <2>2, <2>3
<1>6. CASE UNCHANGED daemonVars
  BY <1>6 DEF daemonVars, hostVars, historyVars, GateInv
<1> QED
  BY <1>1, <1>2, <1>3, <1>4, <1>5, <1>6 DEF DaemonNext, Loop

(* The replication gate: where pgrep answers, no standby command disturbs  *)
(* a zfs send or receive that has run since the tick's sample ended.       *)
THEOREM ReplicationIsNotDisturbed ==
  ASSUME "pgrep" \notin Faults
  PROVE  DaemonSpec => RunningReplicationIsSafe
<1>1. DaemonInit => GateInv
  BY DEF DaemonInit, GateInv
<1>2. DaemonSpec => []GateInv
  BY <1>1, GateStep, PTL DEF DaemonSpec
<1>3. GateInv => \A d \in Device : Commanded(d) => ~replHeld
  BY DEF GateInv, Commanded
<1> QED
  BY <1>2, <1>3, PTL DEF RunningReplicationIsSafe
=============================================================================
