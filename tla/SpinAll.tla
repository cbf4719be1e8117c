------------------------------ MODULE SpinAll -------------------------------
(***************************************************************************)
(* SleepAll and WakeAll (internal/sleeper/sleep.go): one goroutine for     *)
(* each device of a pool runs smartctl, at most `parallel` of them at a    *)
(* time, and appends what failed to a slice all of them share.  A device   *)
(* is its position in the list of the call.                                *)
(***************************************************************************)
EXTENDS Integers, FiniteSets

CONSTANTS
  Count,      \* len(devices)
  Parallel,   \* the configured bound; zero or less means no bound
  Invalid     \* positions whose name sysio.Valid refuses

ASSUME SpinAssumption ==
  /\ Count \in Nat /\ Parallel \in Int
  /\ Invalid \subseteq 1 .. Count

VARIABLES
  returned,   \* spinAll is past wg.Wait
  next,       \* the device the loop comes to next
  wg,         \* the WaitGroup's counter
  pc,         \* where each goroutine stands
  sem,        \* tokens in the channel
  mu,         \* the goroutine that holds the mutex, 0 for none
  errs,       \* the shared slice
  slice,      \* what each goroutine read of errs
  failed      \* history: the devices whose command or name failed

spinVars == <<returned, next, wg, pc, sem, mu, errs, slice, failed>>

Position == 1 .. Count

(* The capacity of the channel. *)
Slots == IF Parallel > 0 THEN Parallel ELSE IF Count < 1 THEN 1 ELSE Count

Goto(i, where) == pc' = [pc EXCEPT ![i] = where]

-----------------------------------------------------------------------------
SpinInit ==
  /\ returned = FALSE
  /\ next = 1 /\ wg = 0
  /\ pc = [i \in Position |-> "unborn"]
  /\ sem = 0 /\ mu = 0
  /\ errs = {} /\ slice = [i \in Position |-> {}]
  /\ failed = {}

(* One round of the loop: wg.Add(1), go func. *)
Spawn ==
  /\ next <= Count
  /\ Goto(next, "born")
  /\ next' = next + 1 /\ wg' = wg + 1
  /\ UNCHANGED <<returned, sem, mu, errs, slice, failed>>

(* wg.Wait after the loop, return errs. *)
Return ==
  /\ ~returned /\ next > Count /\ wg = 0
  /\ returned' = TRUE
  /\ UNCHANGED <<next, wg, pc, sem, mu, errs, slice, failed>>

(* An invalid name is an error without a token. *)
Reject(i) ==
  /\ pc[i] = "born" /\ i \in Invalid
  /\ Goto(i, "lock") /\ failed' = failed \cup {i}
  /\ UNCHANGED <<returned, next, wg, sem, mu, errs, slice>>

(* Wrong: a goroutine starts its command without waiting for a token. *)
AcquireAtOnce(i) ==
  /\ pc[i] = "born" /\ i \notin Invalid
  /\ Goto(i, "running") /\ sem' = IF sem < Slots THEN sem + 1 ELSE sem
  /\ UNCHANGED <<returned, next, wg, mu, errs, slice, failed>>

(* sem <- struct{}{}, and the command starts. *)
Acquire(i) ==
  /\ pc[i] = "born" /\ i \notin Invalid
  /\ sem < Slots
  /\ Goto(i, "running") /\ sem' = sem + 1
  /\ UNCHANGED <<returned, next, wg, mu, errs, slice, failed>>

Succeed(i) ==
  /\ pc[i] = "running" /\ Goto(i, "release")
  /\ UNCHANGED <<returned, next, wg, sem, mu, errs, slice, failed>>

(* A failed exit or the end of cmdTimeout. *)
Fail(i) ==
  /\ pc[i] = "running" /\ Goto(i, "lock")
  /\ failed' = failed \cup {i}
  /\ UNCHANGED <<returned, next, wg, sem, mu, errs, slice>>

(* Wrong: the mutex is not awaited. *)
LockAnyway(i) ==
  /\ pc[i] = "lock" /\ Goto(i, "append")
  /\ mu' = i
  /\ UNCHANGED <<returned, next, wg, sem, errs, slice, failed>>

Lock(i) ==
  /\ pc[i] = "lock" /\ mu = 0 /\ Goto(i, "append")
  /\ mu' = i
  /\ UNCHANGED <<returned, next, wg, sem, errs, slice, failed>>

(* append reads the slice ... *)
Append(i) ==
  /\ pc[i] = "append" /\ Goto(i, "store")
  /\ slice' = [slice EXCEPT ![i] = errs \cup {i}]
  /\ UNCHANGED <<returned, next, wg, sem, mu, errs, failed>>

(* Wrong: the token of a failed command is never given back. *)
StoreKeepingToken(i) ==
  /\ pc[i] = "store" /\ Goto(i, "exit")
  /\ errs' = slice[i] /\ mu' = 0
  /\ UNCHANGED <<returned, next, wg, sem, slice, failed>>

(* ... the assignment writes it back, and the mutex is unlocked. *)
Store(i) ==
  /\ pc[i] = "store"
  /\ Goto(i, IF i \in Invalid THEN "exit" ELSE "release")
  /\ errs' = slice[i] /\ mu' = 0
  /\ UNCHANGED <<returned, next, wg, sem, slice, failed>>

(* The deferred calls, last one first: the token, then wg.Done.  To take   *)
(* one more out of the channel than was put in would block.                *)
Release(i) ==
  /\ pc[i] = "release" /\ Goto(i, "exit")
  /\ sem > 0 /\ sem' = sem - 1
  /\ UNCHANGED <<returned, next, wg, mu, errs, slice, failed>>

Exit(i) ==
  /\ pc[i] = "exit" /\ Goto(i, "gone")
  /\ wg' = wg - 1
  /\ UNCHANGED <<returned, next, sem, mu, errs, slice, failed>>

Goroutine(i) ==
  \/ Reject(i) \/ Acquire(i) \/ Succeed(i) \/ Fail(i)
  \/ Lock(i) \/ Append(i) \/ Store(i) \/ Release(i) \/ Exit(i)

SpinNext == Spawn \/ Return \/ \E i \in Position : Goroutine(i)

SpinSpec == SpinInit /\ [][SpinNext]_spinVars

(* The scheduler runs every goroutine, a channel and a mutex serve those   *)
(* who wait in their order, and a command ends within cmdTimeout.          *)
SpinFairness ==
  /\ WF_spinVars(Spawn) /\ WF_spinVars(Return)
  /\ \A i \in Position : SF_spinVars(Goroutine(i))

FairSpin == SpinSpec /\ SpinFairness

-----------------------------------------------------------------------------
Places == {"unborn", "born", "running", "lock", "append", "store", "release",
           "exit", "gone"}

SpinTypeOK ==
  /\ returned \in BOOLEAN
  /\ next \in 1 .. Count + 1
  /\ wg \in 0 .. Count
  /\ pc \in [Position -> Places]
  /\ sem \in 0 .. Slots
  /\ mu \in 0 .. Count
  /\ errs \subseteq Position /\ failed \subseteq Position
  /\ slice \in [Position -> SUBSET Position]

Running == {i \in Position : pc[i] = "running"}

(* sleep.go:76 "running at most `parallel` smartctl invocations            *)
(* concurrently": whatever fails and however slow the others are.          *)
InFlightBounded == Parallel > 0 => Cardinality(Running) <= Parallel

(* "(0 = unlimited)": without a bound no device ever waits for another.    *)
UnlimitedNeverWaits ==
  Parallel <= 0 => \A i \in Position : pc[i] = "born" => sem < Slots

(* sleep.go:77 "returns one error per failed device": when the call        *)
(* returns every device has been dealt with, and the errors are exactly    *)
(* those of the devices that failed.                                       *)
ReturnsEveryError ==
  returned => /\ \A i \in Position : pc[i] = "gone"
              /\ errs = failed

(* The call comes back, whatever fails. *)
CallReturns == <>returned
=============================================================================
