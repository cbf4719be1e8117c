--------------------------- MODULE SpinAllProofs ----------------------------
(***************************************************************************)
(* Proofs about spinAll, for a list of devices of any length and any       *)
(* bound on the commands in flight.                                        *)
(***************************************************************************)
EXTENDS SpinAll, FiniteSetTheorems, TLAPS

(* The types, without the bounds that follow from the counts below. *)
Shape ==
  /\ returned \in BOOLEAN
  /\ next \in 1 .. Count + 1
  /\ pc \in [Position -> Places]
  /\ mu \in 0 .. Count
  /\ errs \subseteq Position /\ failed \subseteq Position
  /\ slice \in [Position -> SUBSET Position]

(* Who holds a token: valid devices from Acquire to Release. *)
Holding == {i \in Position \ Invalid :
              pc[i] \in {"running", "lock", "append", "store", "release"}}

Tokens ==
  /\ sem = Cardinality(Holding) /\ sem <= Slots
  /\ \A i \in Invalid : pc[i] \notin {"running", "release"}

(* Whom the group waits for. *)
Alive == {i \in Position : pc[i] \notin {"unborn", "gone"}}

Group ==
  /\ wg = Cardinality(Alive)
  /\ \A i \in Position : pc[i] = "unborn" <=> i >= next
  /\ returned => next = Count + 1 /\ wg = 0

(* The mutex, and what a goroutine has read under it. *)
Mutex == \A i \in Position : (pc[i] \in {"append", "store"}) <=> mu = i

Slices == \A i \in Position : pc[i] = "store" => slice[i] = errs \cup {i}

(* A failure is in the slice or on its way there. *)
Failures == failed = errs \cup {i \in Position : pc[i] \in {"lock", "append", "store"}}

SpinInv == Shape /\ Tokens /\ Group /\ Mutex /\ Slices /\ Failures

-----------------------------------------------------------------------------
LEMMA SlotsArePositive == Slots \in Nat \ {0}
BY SpinAssumption DEF Slots

LEMMA FinitePositions == IsFiniteSet(Position) /\ Cardinality(Position) = Count
BY SpinAssumption, FS_Interval DEF Position

LEMMA FiniteParts ==
  /\ IsFiniteSet(Holding) /\ IsFiniteSet(Holding')
  /\ IsFiniteSet(Alive) /\ IsFiniteSet(Alive')
<1>1. /\ Holding \in SUBSET Position /\ Holding' \in SUBSET Position
      /\ Alive \in SUBSET Position /\ Alive' \in SUBSET Position
  BY DEF Holding, Alive
<1> QED
  BY <1>1, FinitePositions, FS_Subset

LEMMA CountOneMore ==
  ASSUME NEW S, IsFiniteSet(S), NEW x, x \notin S
  PROVE  Cardinality(S \cup {x}) = Cardinality(S) + 1
BY FS_AddElement

LEMMA CountOneLess ==
  ASSUME NEW S, IsFiniteSet(S), NEW x, x \in S
  PROVE  Cardinality(S \ {x}) = Cardinality(S) - 1
BY FS_RemoveElement

-----------------------------------------------------------------------------
LEMMA SpinStarts == SpinInit => SpinInv
<1> SUFFICES ASSUME SpinInit PROVE SpinInv
  OBVIOUS
<1>1. Holding = {} /\ Alive = {}
  BY DEF SpinInit, Holding, Alive
<1>2. Shape
  <2>1. pc \in [Position -> Places]
    BY DEF SpinInit, Places
  <2>2. slice \in [Position -> SUBSET Position]
    BY DEF SpinInit
  <2>3. returned \in BOOLEAN /\ errs \subseteq Position /\ failed \subseteq Position
    BY DEF SpinInit
  <2>4. next \in 1 .. Count + 1 /\ mu \in 0 .. Count
    BY SpinAssumption DEF SpinInit
  <2> QED
    BY <2>1, <2>2, <2>3, <2>4 DEF Shape
<1>4. Tokens
  BY <1>1, SpinAssumption, SlotsArePositive, FS_EmptySet
  DEF SpinInit, Tokens, Position
<1>3. Group /\ Mutex /\ Slices /\ Failures
  BY <1>1, SpinAssumption, FS_EmptySet
  DEF SpinInit, Group, Mutex, Slices, Failures, Position
<1> QED
  BY <1>2, <1>3, <1>4 DEF SpinInv

(* The steps of a goroutine keep the shape, the mutex and the failures. *)
LEMMA StepKeepsErrors ==
  ASSUME Shape, Mutex, Slices, Failures, NEW i \in Position, Goroutine(i)
  PROVE  Shape' /\ Mutex' /\ Slices' /\ Failures'
<1> USE SpinAssumption DEF Shape, Mutex, Slices, Failures, Position, Places, Goto
<1>1. CASE Reject(i)
  BY <1>1 DEF Reject
<1>2. CASE Acquire(i) \/ Succeed(i)
  BY <1>2 DEF Acquire, Succeed
<1>3. CASE Fail(i)
  BY <1>3 DEF Fail
<1>4. CASE Lock(i)
  BY <1>4 DEF Lock
<1>5. CASE Append(i)
  BY <1>5 DEF Append
<1>6. CASE Store(i)
  BY <1>6 DEF Store
<1>7. CASE Release(i) \/ Exit(i)
  BY <1>7 DEF Release, Exit
<1> QED
  BY <1>1, <1>2, <1>3, <1>4, <1>5, <1>6, <1>7 DEF Goroutine

(* They give and take tokens one at a time. *)
LEMMA StepKeepsTokens ==
  ASSUME Shape, Tokens, NEW i \in Position, Goroutine(i)
  PROVE  Tokens'
<1> USE SlotsArePositive DEF Slots
<1>a. Cardinality(Holding) \in Nat
  BY FiniteParts, FS_CardinalityType
<1>1. CASE Reject(i) \/ Succeed(i) \/ Fail(i) \/ Lock(i) \/ Append(i) \/ Store(i) \/ Exit(i)
  <2>1. Holding' = Holding /\ sem' = sem
    BY <1>1 DEF Shape, Tokens, Holding, Goto, Reject, Succeed, Fail, Lock, Append, Store, Exit
  <2>2. \A j \in Invalid : pc'[j] \notin {"running", "release"}
    BY <1>1, SpinAssumption
    DEF Shape, Tokens, Position, Goto, Reject, Succeed, Fail, Lock, Append, Store, Exit
  <2> QED
    BY <2>1, <2>2 DEF Tokens
<1>2. CASE Acquire(i)
  <2>1. i \notin Holding /\ Holding' = Holding \cup {i}
    BY <1>2 DEF Shape, Holding, Goto, Acquire
  <2>2. Cardinality(Holding') = Cardinality(Holding) + 1
    BY <2>1, FiniteParts, CountOneMore
  <2>3. \A j \in Invalid : pc'[j] \notin {"running", "release"}
    BY <1>2, SpinAssumption DEF Shape, Tokens, Position, Goto, Acquire
  <2> QED
    BY <1>2, <1>a, <2>2, <2>3 DEF Tokens, Acquire
<1>3. CASE Release(i)
  <2>1. i \in Holding /\ Holding' = Holding \ {i}
    BY <1>3 DEF Shape, Tokens, Holding, Goto, Release
  <2>2. Cardinality(Holding') = Cardinality(Holding) - 1
    BY <2>1, FiniteParts, CountOneLess
  <2>3. \A j \in Invalid : pc'[j] \notin {"running", "release"}
    BY <1>3, SpinAssumption DEF Shape, Tokens, Position, Goto, Release
  <2> QED
    BY <1>3, <1>a, <2>2, <2>3 DEF Tokens, Release
<1> QED
  BY <1>1, <1>2, <1>3 DEF Goroutine

(* They leave the group one at a time, and none before its turn. *)
LEMMA StepKeepsGroup ==
  ASSUME Shape, Group, NEW i \in Position, Goroutine(i)
  PROVE  Group'
<1>a. Cardinality(Alive) \in Nat
  BY FiniteParts, FS_CardinalityType
<1>b. i \in Alive /\ pc[i] # "unborn"
  BY DEF Alive, Goroutine, Reject, Acquire, Succeed, Fail, Lock, Append, Store, Release, Exit
<1>c. ~returned
  BY <1>b, FiniteParts, FS_EmptySet DEF Group
<1>1. CASE Exit(i)
  <2>1. Alive' = Alive \ {i}
    BY <1>1, <1>b DEF Shape, Alive, Goto, Exit
  <2>2. Cardinality(Alive') = Cardinality(Alive) - 1
    BY <2>1, <1>b, FiniteParts, CountOneLess
  <2>3. \A j \in Position : pc'[j] = "unborn" <=> j >= next'
    BY <1>1, <1>b DEF Shape, Group, Goto, Exit
  <2> QED
    BY <1>1, <1>c, <2>2, <2>3 DEF Group, Exit
<1>2. CASE ~Exit(i)
  <2>1. Alive' = Alive
    BY <1>2, <1>b
    DEF Shape, Alive, Goto, Goroutine, Reject, Acquire, Succeed, Fail, Lock, Append, Store, Release
  <2>2. \A j \in Position : pc'[j] = "unborn" <=> j >= next'
    BY <1>2, <1>b
    DEF Shape, Group, Goto, Goroutine, Reject, Acquire, Succeed, Fail, Lock, Append, Store, Release
  <2>3. wg' = wg /\ returned' = returned
    BY <1>2 DEF Goroutine, Reject, Acquire, Succeed, Fail, Lock, Append, Store, Release
  <2> QED
    BY <1>c, <2>1, <2>2, <2>3 DEF Group
<1> QED
  BY <1>1, <1>2

LEMMA SpawnKeeps == SpinInv /\ Spawn => SpinInv'
<1> SUFFICES ASSUME SpinInv, Spawn PROVE SpinInv'
  OBVIOUS
<1>a. Shape /\ Tokens /\ Group /\ Mutex /\ Slices /\ Failures
  BY DEF SpinInv
<1>b. next \in Position /\ pc[next] = "unborn"
  BY <1>a, SpinAssumption DEF Shape, Group, Position, Spawn
<1>1. Shape' /\ Mutex' /\ Slices' /\ Failures'
  BY <1>a, <1>b, SpinAssumption
  DEF Shape, Mutex, Slices, Failures, Position, Places, Spawn, Goto
<1>2. Tokens'
  <2>1. Holding' = Holding
    BY <1>a, <1>b DEF Shape, Holding, Spawn, Goto
  <2> QED
    BY <1>a, <1>b, <2>1, SpinAssumption DEF Shape, Tokens, Position, Spawn, Goto, Slots
<1>3. Group'
  <2>1. next \notin Alive /\ Alive' = Alive \cup {next}
    BY <1>a, <1>b DEF Shape, Alive, Spawn, Goto
  <2>2. Cardinality(Alive') = Cardinality(Alive) + 1
    BY <2>1, FiniteParts, CountOneMore
  <2>3. \A j \in Position : pc'[j] = "unborn" <=> j >= next'
    BY <1>a, <1>b, SpinAssumption DEF Shape, Group, Position, Spawn, Goto
  <2>4. ~returned'
    BY <1>a, SpinAssumption DEF Group, Spawn, Shape
  <2> QED
    BY <1>a, <2>2, <2>3, <2>4 DEF Group, Spawn
<1> QED
  BY <1>1, <1>2, <1>3 DEF SpinInv

LEMMA ReturnKeeps == SpinInv /\ (Return \/ UNCHANGED spinVars) => SpinInv'
<1> SUFFICES ASSUME SpinInv, Return \/ UNCHANGED spinVars PROVE SpinInv'
  OBVIOUS
<1>1. pc' = pc /\ UNCHANGED <<next, wg, sem, mu, errs, slice, failed>>
  BY DEF Return, spinVars
<1>2. Holding' = Holding /\ Alive' = Alive
  BY <1>1 DEF Holding, Alive
<1>3. Tokens' /\ Mutex' /\ Slices' /\ Failures'
  BY <1>1, <1>2 DEF SpinInv, Tokens, Mutex, Slices, Failures
<1>4. Shape'
  BY <1>1 DEF SpinInv, Shape, Return, spinVars
<1>5. returned' => next = Count + 1 /\ wg = 0
  <2>1. CASE Return
    BY <2>1, SpinAssumption DEF SpinInv, Shape, Return
  <2>2. CASE UNCHANGED spinVars
    BY <2>2 DEF SpinInv, Group, spinVars
  <2> QED
    BY <2>1, <2>2
<1>6. Group'
  BY <1>1, <1>2, <1>5 DEF SpinInv, Group
<1> QED
  BY <1>3, <1>4, <1>6 DEF SpinInv

LEMMA SpinInductive == SpinSpec => []SpinInv
<1>1. SpinInit => SpinInv
  BY SpinStarts
<1>2. SpinInv /\ [SpinNext]_spinVars => SpinInv'
  BY SpawnKeeps, ReturnKeeps, StepKeepsErrors, StepKeepsTokens, StepKeepsGroup
  DEF SpinNext, SpinInv
<1> QED
  BY <1>1, <1>2, PTL DEF SpinSpec

-----------------------------------------------------------------------------
(* Every variable of the call keeps its type, and the counters of the      *)
(* channel and of the group their bounds.                                  *)
THEOREM SpinTypeCorrect == SpinSpec => []SpinTypeOK
<1>1. SpinInv => SpinTypeOK
  <2> SUFFICES ASSUME SpinInv PROVE SpinTypeOK
    OBVIOUS
  <2>1. Alive \in SUBSET Position
    BY DEF Alive
  <2>2. Cardinality(Alive) \in Nat /\ Cardinality(Alive) <= Count
    BY <2>1, FinitePositions, FiniteParts, FS_Subset, FS_CardinalityType
  <2>3. Cardinality(Holding) \in Nat
    BY FiniteParts, FS_CardinalityType
  <2> QED
    BY <2>2, <2>3, SpinAssumption, SlotsArePositive DEF SpinInv, Shape, Tokens, Group, SpinTypeOK
<1> QED
  BY <1>1, SpinInductive, PTL

(* Never more commands in flight than configured, for any number of        *)
(* devices and whatever fails: a token covers a whole command.             *)
THEOREM InFlightIsBounded == SpinSpec => []InFlightBounded
<1>1. SpinInv => InFlightBounded
  <2> SUFFICES ASSUME SpinInv, Parallel > 0
               PROVE  Cardinality(Running) <= Parallel
    BY DEF InFlightBounded
  <2>1. Running \in SUBSET Holding
    BY DEF SpinInv, Tokens, Running, Holding
  <2>2. Cardinality(Running) <= Cardinality(Holding)
    BY <2>1, FiniteParts, FS_Subset
  <2>3. Cardinality(Running) \in Nat /\ Cardinality(Holding) \in Nat
    BY <2>1, FiniteParts, FS_Subset, FS_CardinalityType
  <2> QED
    BY <2>2, <2>3, SpinAssumption DEF SpinInv, Tokens, Slots
<1> QED
  BY <1>1, SpinInductive, PTL

(* Without a bound the channel has room for everybody. *)
THEOREM NobodyWaitsUnlimited == SpinSpec => []UnlimitedNeverWaits
<1>1. SpinInv => UnlimitedNeverWaits
  <2> SUFFICES ASSUME SpinInv, Parallel <= 0, NEW i \in Position, pc[i] = "born"
               PROVE  sem < Slots
    BY DEF UnlimitedNeverWaits
  <2>1. Holding \in SUBSET (Position \ {i})
    BY DEF Holding
  <2>2. IsFiniteSet(Position \ {i}) /\ Cardinality(Position \ {i}) = Count - 1
    BY FinitePositions, FS_RemoveElement
  <2>3. Cardinality(Holding) <= Count - 1
    BY <2>1, <2>2, FS_Subset
  <2>4. Cardinality(Holding) \in Nat
    BY FiniteParts, FS_CardinalityType
  <2> QED
    BY <2>3, <2>4, SpinAssumption DEF SpinInv, Tokens, Slots, Position
<1> QED
  BY <1>1, SpinInductive, PTL

(* The call returns after every device, with exactly the errors of those   *)
(* that failed: no append is lost, whatever the interleaving.              *)
THEOREM EveryErrorReturned == SpinSpec => []ReturnsEveryError
<1>1. SpinInv => ReturnsEveryError
  <2> SUFFICES ASSUME SpinInv, returned
               PROVE  (\A i \in Position : pc[i] = "gone") /\ errs = failed
    BY DEF ReturnsEveryError
  <2>1. Alive = {}
    BY FiniteParts, FS_EmptySet DEF SpinInv, Group
  <2>2. \A i \in Position : pc[i] # "unborn"
    BY SpinAssumption DEF SpinInv, Group, Position
  <2>3. \A i \in Position : pc[i] = "gone"
    BY <2>1, <2>2 DEF Alive
  <2> QED
    BY <2>3 DEF SpinInv, Failures
<1> QED
  BY <1>1, SpinInductive, PTL
=============================================================================
