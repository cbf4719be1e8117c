--------------------------- MODULE ControlProofs ---------------------------
(***************************************************************************)
(* Proofs about starting and stopping the daemon, for any number of        *)
(* terminals, daemons and deaths, on a Unix or on Windows.                 *)
(***************************************************************************)
EXTENDS Control, FiniteSetTheorems, TLAPS

(* A daemon on its way in or out, and one that has passed the lock. *)
Moving == {"start", "lock", "write", "fill", "locked", "idle", "stopping", "removed"}
PastLock == Moving \ {"start", "lock"}

Busy(c) == ctl[c].at # "done"

(* Unless a command has read the file while another had truncated it, the  *)
(* file is whole but for the one command that is about to write it back.   *)
FileInv == ~raced =>
  /\ short = {}
  /\ config = Empty \/ config.settings
  /\ config = Empty => \E c \in Ctl : ctl[c].at = "write"
  /\ \A c \in Ctl : ctl[c].at = "write" => config = Empty
  /\ \A c, d \in Ctl : ctl[c].at = "write" /\ ctl[d].at = "write" => c = d

(* One thing happens at a time: a command is at work, or a daemon is on    *)
(* its way, or the command that stops it waits for neither.                *)
Turns ==
  /\ ~raced /\ bare = {}
  /\ \A c, d \in Ctl : Busy(c) /\ Busy(d) => c = d
  /\ \A p, q \in Pid : daemon[p] \in Moving /\ daemon[q] \in Moving => p = q
  /\ \A c \in Ctl, p \in Pid : Busy(c) /\ daemon[p] \in Moving =>
       ctl[c].at = "remove" /\ daemon[p] \in {"stopping", "removed"}

(* The pid file is the lock: it names whoever has passed it. *)
Lock ==
  /\ \A p \in Pid : daemon[p] \in {"locked", "running"} => pidfile = p
  /\ \A p \in Pid : daemon[p] = "fill" => p \in linked
  /\ \A p, q \in Pid : daemon[p] \in PastLock => daemon[q] # "running"
  /\ \A c \in Ctl, p \in Pid : ctl[c].at = "remove" => daemon[p] # "running"

(* A daemon that runs on a file that says no is about to be stopped. *)
Obeyed == ~config.enabled =>
  /\ \A p \in Pid : daemon[p] \in {"none", "dead", "start", "stopping", "removed", "running"}
  /\ \A p \in Pid : daemon[p] = "running" =>
       \E c \in Ctl : ctl[c].op = "disable" /\ ctl[c].at \in {"check", "stop"}

ControlInv ==
  /\ ControlTypeOK
  /\ FileInv
  /\ ~overlapped => Turns /\ Lock /\ Obeyed

-----------------------------------------------------------------------------
CtlStates ==
  [op : {"enable"}, at : {"read", "write", "check", "spawn"}]
    \cup [op : {"disable"}, at : {"read", "write", "check", "stop", "remove"}]
    \cup [op : {"daemon"}, at : {"spawn"}] \cup [op : {"none"}, at : {"done"}]

LEMMA TextFacts ==
  /\ \A t \in Texts : t.settings \in BOOLEAN /\ t.enabled \in BOOLEAN
  /\ \A e, s \in BOOLEAN : /\ Whole(e, s) \in Texts /\ Whole(e, s) # Empty /\ Whole(e, s).text = "whole"
                           /\ Whole(e, s).enabled = e /\ Whole(e, s).settings = s
  /\ Empty \in Texts /\ Empty.enabled /\ ~Empty.settings
  /\ Garbled \in Texts /\ ~Garbled.settings /\ Garbled # Empty
<1>1. \A e, s \in BOOLEAN : /\ Whole(e, s).text = "whole" /\ Whole(e, s).enabled = e
                             /\ Whole(e, s).settings = s
  BY DEF Whole
<1>2. \A e, s \in BOOLEAN : Whole(e, s) \in Texts
  BY DEF Texts
<1>3. /\ Empty.text = "empty" /\ Empty.enabled = TRUE /\ Empty.settings = FALSE
      /\ Garbled.text = "garbled" /\ Garbled.enabled = FALSE /\ Garbled.settings = FALSE
  BY DEF Empty, Garbled
<1>4. Empty \in Texts /\ Garbled \in Texts
  BY DEF Texts
<1>5. \A t \in Texts : (\E e, s \in BOOLEAN : t = Whole(e, s)) \/ t = Empty \/ t = Garbled
  BY DEF Texts
<1>6. \A t \in Texts : t.settings \in BOOLEAN /\ t.enabled \in BOOLEAN
  <2> SUFFICES ASSUME NEW t \in Texts PROVE t.settings \in BOOLEAN /\ t.enabled \in BOOLEAN
    OBVIOUS
  <2>1. CASE \E e, s \in BOOLEAN : t = Whole(e, s)
    <3>1. PICK e \in BOOLEAN, s \in BOOLEAN : t = Whole(e, s)
      BY <2>1
    <3>2. t.enabled = e /\ t.settings = s
      BY <1>1, <3>1
    <3> QED
      BY <3>2
  <2>2. CASE t = Empty \/ t = Garbled
    BY <1>3, <2>2
  <2> QED
    BY <1>5, <2>1, <2>2
<1> QED
  BY <1>1, <1>2, <1>3, <1>4, <1>6

(* What a step of a daemon leaves alone. *)
LEMMA DaemonMoves ==
  ASSUME ControlTypeOK, NEW p \in Pid, NEW stage \in Stage, Go(p, stage)
  PROVE  /\ daemon' \in [Pid -> Stage] /\ daemon'[p] = stage
         /\ \A q \in Pid \ {p} : daemon'[q] = daemon[q]
BY DEF ControlTypeOK, Go

LEMMA CommandMoves ==
  ASSUME ControlTypeOK, NEW c \in Ctl, NEW at, Step(c, at),
         at = "done" \/ [op |-> ctl[c].op, at |-> at] \in CtlStates
  PROVE  /\ ctl' \in [Ctl -> CtlStates] /\ ctl'[c].at = at
         /\ at # "done" => ctl'[c].op = ctl[c].op
         /\ \A d \in Ctl \ {c} : ctl'[d] = ctl[d]
<1>1. CASE at = "done"
  <2>1. AtPrompt \in CtlStates /\ AtPrompt.at = "done"
    BY DEF AtPrompt, CtlStates
  <2> QED
    BY <1>1, <2>1 DEF ControlTypeOK, Step, CtlStates
<1>2. CASE at # "done"
  BY <1>2 DEF ControlTypeOK, Step, CtlStates
<1> QED
  BY <1>1, <1>2

-----------------------------------------------------------------------------
LEMMA ControlStarts == ControlInit => ControlInv
<1> SUFFICES ASSUME ControlInit PROVE ControlInv
  OBVIOUS
<1>1. config \in Texts /\ config # Empty /\ config.settings
  <2>1. PICK e \in BOOLEAN : config = Whole(e, TRUE)
    BY DEF ControlInit
  <2>2. TRUE \in BOOLEAN
    OBVIOUS
  <2> QED
    BY <2>1, <2>2, TextFacts
<1>2. ControlTypeOK
  <2>1. ctl \in [Ctl -> CtlStates]
    BY DEF ControlInit, CtlStates
  <2>2. daemon \in [Pid -> Stage] /\ deaths \in 0 .. MaxDeaths
    BY ControlAssumption DEF ControlInit, Stage
  <2> QED
    BY <1>1, <2>1, <2>2 DEF ControlInit, ControlTypeOK, CtlStates
<1>3. FileInv
  BY <1>1 DEF ControlInit, FileInv
<1>4. Turns /\ Lock /\ Obeyed
  BY <1>1 DEF ControlInit, Turns, Lock, Obeyed, Busy, Moving, PastLock
<1> QED
  BY <1>2, <1>3, <1>4 DEF ControlInv

-----------------------------------------------------------------------------
LEMMA LoadConfigKeeps ==
  ASSUME ControlInv, NEW p \in Pid, LoadConfig(p)
  PROVE  ControlInv'
<1>1. /\ ControlTypeOK /\ daemon[p] = "start" /\ Go(p, IF config.enabled THEN "lock" ELSE "dead")
      /\ UNCHANGED <<pidfile, linked, config, short, raced, windows, deaths, overlapped, ctl>>
  BY DEF ControlInv, LoadConfig, files, settings, world
<1>2. /\ daemon' \in [Pid -> Stage] /\ daemon'[p] = IF config.enabled THEN "lock" ELSE "dead"
      /\ \A q \in Pid \ {p} : daemon'[q] = daemon[q]
  BY <1>1, DaemonMoves DEF Stage
<1>3. ControlTypeOK'
  BY <1>1, <1>2 DEF LoadConfig, ControlTypeOK
<1>4. FileInv'
  BY <1>1 DEF ControlInv, FileInv
<1>5. ASSUME ~overlapped PROVE Turns' /\ Lock' /\ Obeyed'
  <2>1. Turns /\ Lock /\ Obeyed /\ FileInv
    BY <1>5 DEF ControlInv
  <2>2. config.settings
    BY <1>1, <2>1 DEF Turns, FileInv, Busy, Moving
  <2>3. Turns'
    BY <1>1, <1>2, <2>1, <2>2 DEF LoadConfig, Turns, Busy, Moving
  <2>4. Lock'
    BY <1>1, <1>2, <2>1 DEF Lock, PastLock, Moving
  <2>5. Obeyed'
    BY <1>1, <1>2, <2>1 DEF Obeyed
  <2> QED
    BY <2>3, <2>4, <2>5
<1> QED
  BY <1>1, <1>3, <1>4, <1>5 DEF ControlInv

(* The read of the pid file and its write are two steps, but nobody comes  *)
(* between them.                                                           *)
LEMMA ReadLockKeeps ==
  ASSUME ControlInv, NEW p \in Pid, ReadLock(p)
  PROVE  ControlInv'
<1>1. /\ ControlTypeOK /\ daemon[p] = "lock" /\ Go(p, IF daemonRunning THEN "dead" ELSE "write")
      /\ UNCHANGED <<pidfile, linked, config, short, raced, windows, deaths, overlapped, bare, ctl>>
  BY DEF ControlInv, ReadLock, files, settings, world
<1>2. /\ daemon' \in [Pid -> Stage] /\ daemon'[p] = IF daemonRunning THEN "dead" ELSE "write"
      /\ \A q \in Pid \ {p} : daemon'[q] = daemon[q]
  BY <1>1, DaemonMoves DEF Stage
<1>3. ControlTypeOK'
  BY <1>1, <1>2 DEF ControlTypeOK
<1>4. FileInv'
  BY <1>1 DEF ControlInv, FileInv
<1>5. ASSUME ~overlapped PROVE Turns' /\ Lock' /\ Obeyed'
  <2>1. Turns /\ Lock /\ Obeyed
    BY <1>5 DEF ControlInv
  <2>2. Turns'
    BY <1>1, <1>2, <2>1 DEF Turns, Busy, Moving
  <2>3. Lock'
    BY <1>1, <1>2, <2>1 DEF Turns, Lock, PastLock, Moving, Busy, daemonRunning, Alive
  <2>4. Obeyed'
    BY <1>1, <1>2, <2>1 DEF Obeyed
  <2> QED
    BY <2>2, <2>3, <2>4
<1> QED
  BY <1>1, <1>3, <1>4, <1>5 DEF ControlInv

LEMMA OpenLockKeeps ==
  ASSUME ControlInv, NEW p \in Pid, OpenLock(p)
  PROVE  ControlInv'
<1>1. /\ ControlTypeOK /\ daemon[p] = "write" /\ Go(p, "fill") /\ pidfile' = Torn /\ linked' = linked \cup {p}
      /\ UNCHANGED <<config, short, raced, windows, deaths, overlapped, bare, ctl>>
  BY DEF ControlInv, OpenLock, files, settings, world
<1>2. /\ daemon' \in [Pid -> Stage] /\ daemon'[p] = "fill"
      /\ \A q \in Pid \ {p} : daemon'[q] = daemon[q]
  BY <1>1, DaemonMoves DEF Stage
<1>3. ControlTypeOK'
  BY <1>1, <1>2 DEF ControlTypeOK
<1>4. FileInv'
  BY <1>1 DEF ControlInv, FileInv
<1>5. ASSUME ~overlapped PROVE Turns' /\ Lock' /\ Obeyed'
  <2>1. Turns /\ Lock /\ Obeyed
    BY <1>5 DEF ControlInv
  <2>2. Turns'
    BY <1>1, <1>2, <2>1 DEF Turns, Busy, Moving
  <2>3. Lock'
    BY <1>1, <1>2, <2>1 DEF Turns, Lock, PastLock, Moving, Busy
  <2>4. Obeyed'
    BY <1>1, <1>2, <2>1 DEF Obeyed
  <2> QED
    BY <2>2, <2>3, <2>4
<1> QED
  BY <1>1, <1>3, <1>4, <1>5 DEF ControlInv

LEMMA WriteLockKeeps ==
  ASSUME ControlInv, NEW p \in Pid, WriteLock(p)
  PROVE  ControlInv'
<1>1. /\ ControlTypeOK /\ daemon[p] = "fill" /\ Go(p, "locked")
      /\ pidfile' = IF p \in linked THEN p ELSE pidfile
      /\ UNCHANGED <<linked, config, short, raced, windows, deaths, overlapped, bare, ctl>>
  BY DEF ControlInv, WriteLock, files, settings, world
<1>2. /\ daemon' \in [Pid -> Stage] /\ daemon'[p] = "locked"
      /\ \A q \in Pid \ {p} : daemon'[q] = daemon[q]
  BY <1>1, DaemonMoves DEF Stage
<1>3. ControlTypeOK'
  BY <1>1, <1>2 DEF ControlTypeOK
<1>4. FileInv'
  BY <1>1 DEF ControlInv, FileInv
<1>5. ASSUME ~overlapped PROVE Turns' /\ Lock' /\ Obeyed'
  <2>1. Turns /\ Lock /\ Obeyed
    BY <1>5 DEF ControlInv
  <2>2. Turns'
    BY <1>1, <1>2, <2>1 DEF Turns, Busy, Moving
  <2>3. Lock'
    BY <1>1, <1>2, <2>1 DEF Turns, Lock, PastLock, Moving, Busy
  <2>4. Obeyed'
    BY <1>1, <1>2, <2>1 DEF Obeyed
  <2> QED
    BY <2>2, <2>3, <2>4
<1> QED
  BY <1>1, <1>3, <1>4, <1>5 DEF ControlInv

LEMMA NotifyKeeps ==
  ASSUME ControlInv, NEW p \in Pid, Notify(p)
  PROVE  ControlInv'
<1>1. /\ ControlTypeOK /\ daemon[p] = "locked" /\ Go(p, IF p \in bare THEN "idle" ELSE "running")
      /\ UNCHANGED <<pidfile, linked, config, short, raced, windows, deaths, overlapped, bare, ctl>>
  BY DEF ControlInv, Notify, files, settings, world
<1>2. /\ daemon' \in [Pid -> Stage] /\ daemon'[p] = IF p \in bare THEN "idle" ELSE "running"
      /\ \A q \in Pid \ {p} : daemon'[q] = daemon[q]
  BY <1>1, DaemonMoves DEF Stage
<1>3. ControlTypeOK'
  BY <1>1, <1>2 DEF ControlTypeOK
<1>4. FileInv'
  BY <1>1 DEF ControlInv, FileInv
<1>5. ASSUME ~overlapped PROVE Turns' /\ Lock' /\ Obeyed'
  <2>1. Turns /\ Lock /\ Obeyed
    BY <1>5 DEF ControlInv
  <2>2. Turns'
    BY <1>1, <1>2, <2>1 DEF Turns, Busy, Moving
  <2>3. Lock'
    BY <1>1, <1>2, <2>1 DEF Turns, Lock, PastLock, Moving, Busy
  <2>4. Obeyed'
    BY <1>1, <1>2, <2>1 DEF Obeyed
  <2> QED
    BY <2>2, <2>3, <2>4
<1> QED
  BY <1>1, <1>3, <1>4, <1>5 DEF ControlInv

LEMMA ExitIdleKeeps ==
  ASSUME ControlInv, NEW p \in Pid, ExitIdle(p)
  PROVE  ControlInv'
<1>1. /\ ControlTypeOK /\ daemon[p] = "idle" /\ Go(p, "dead")
      /\ UNCHANGED <<pidfile, linked, config, short, raced, windows, deaths, overlapped, bare, ctl>>
  BY DEF ControlInv, ExitIdle, files, settings, world
<1>2. /\ daemon' \in [Pid -> Stage] /\ daemon'[p] = "dead"
      /\ \A q \in Pid \ {p} : daemon'[q] = daemon[q]
  BY <1>1, DaemonMoves DEF Stage
<1>3. ControlTypeOK'
  BY <1>1, <1>2 DEF ControlTypeOK
<1>4. FileInv'
  BY <1>1 DEF ControlInv, FileInv
<1>5. ASSUME ~overlapped PROVE Turns' /\ Lock' /\ Obeyed'
  <2>1. Turns /\ Lock /\ Obeyed
    BY <1>5 DEF ControlInv
  <2>2. Turns'
    BY <1>1, <1>2, <2>1 DEF Turns, Busy, Moving
  <2>3. Lock'
    BY <1>1, <1>2, <2>1 DEF Turns, Lock, PastLock, Moving, Busy
  <2>4. Obeyed'
    BY <1>1, <1>2, <2>1 DEF Obeyed
  <2> QED
    BY <2>2, <2>3, <2>4
<1> QED
  BY <1>1, <1>3, <1>4, <1>5 DEF ControlInv

LEMMA HandlerRemovesKeeps ==
  ASSUME ControlInv, NEW p \in Pid, HandlerRemoves(p)
  PROVE  ControlInv'
<1>1. /\ ControlTypeOK /\ daemon[p] = "stopping" /\ Go(p, "removed")
      /\ UNCHANGED <<pidfile, linked>> \/ (pidfile' = NoFile /\ linked' = {})
      /\ UNCHANGED <<config, short, raced, windows, deaths, overlapped, bare, ctl>>
  BY DEF ControlInv, HandlerRemoves, files, settings, world, Remove
<1>2. /\ daemon' \in [Pid -> Stage] /\ daemon'[p] = "removed"
      /\ \A q \in Pid \ {p} : daemon'[q] = daemon[q]
  BY <1>1, DaemonMoves DEF Stage
<1>3. ControlTypeOK'
  BY <1>1, <1>2 DEF ControlTypeOK
<1>4. FileInv'
  BY <1>1 DEF ControlInv, FileInv
<1>5. ASSUME ~overlapped PROVE Turns' /\ Lock' /\ Obeyed'
  <2>1. Turns /\ Lock /\ Obeyed
    BY <1>5 DEF ControlInv
  <2>2. Turns'
    BY <1>1, <1>2, <2>1 DEF Turns, Busy, Moving
  <2>3. Lock'
    BY <1>1, <1>2, <2>1 DEF Turns, Lock, PastLock, Moving, Busy
  <2>4. Obeyed'
    BY <1>1, <1>2, <2>1 DEF Obeyed
  <2> QED
    BY <2>2, <2>3, <2>4
<1> QED
  BY <1>1, <1>3, <1>4, <1>5 DEF ControlInv

LEMMA HandlerExitsKeeps ==
  ASSUME ControlInv, NEW p \in Pid, HandlerExits(p)
  PROVE  ControlInv'
<1>1. /\ ControlTypeOK /\ daemon[p] = "removed" /\ Go(p, "dead")
      /\ UNCHANGED <<pidfile, linked, config, short, raced, windows, deaths, overlapped, bare, ctl>>
  BY DEF ControlInv, HandlerExits, files, settings, world
<1>2. /\ daemon' \in [Pid -> Stage] /\ daemon'[p] = "dead"
      /\ \A q \in Pid \ {p} : daemon'[q] = daemon[q]
  BY <1>1, DaemonMoves DEF Stage
<1>3. ControlTypeOK'
  BY <1>1, <1>2 DEF ControlTypeOK
<1>4. FileInv'
  BY <1>1 DEF ControlInv, FileInv
<1>5. ASSUME ~overlapped PROVE Turns' /\ Lock' /\ Obeyed'
  <2>1. Turns /\ Lock /\ Obeyed
    BY <1>5 DEF ControlInv
  <2>2. Turns'
    BY <1>1, <1>2, <2>1 DEF Turns, Busy, Moving
  <2>3. Lock'
    BY <1>1, <1>2, <2>1 DEF Turns, Lock, PastLock, Moving, Busy
  <2>4. Obeyed'
    BY <1>1, <1>2, <2>1 DEF Obeyed
  <2> QED
    BY <2>2, <2>3, <2>4
<1> QED
  BY <1>1, <1>3, <1>4, <1>5 DEF ControlInv

LEMMA DieKeeps ==
  ASSUME ControlInv, NEW p \in Pid, Die(p)
  PROVE  ControlInv'
<1>1. /\ ControlTypeOK /\ Go(p, "dead") /\ deaths < MaxDeaths /\ deaths' = deaths + 1
      /\ UNCHANGED <<pidfile, linked, config, short, raced, windows, overlapped, bare, ctl>>
  BY DEF ControlInv, Die, files, settings, world
<1>2. /\ daemon' \in [Pid -> Stage] /\ daemon'[p] = "dead"
      /\ \A q \in Pid \ {p} : daemon'[q] = daemon[q]
  BY <1>1, DaemonMoves DEF Stage
<1>3. ControlTypeOK'
  BY <1>1, <1>2, ControlAssumption DEF ControlTypeOK
<1>4. FileInv'
  BY <1>1 DEF ControlInv, FileInv
<1>5. ASSUME ~overlapped PROVE Turns' /\ Lock' /\ Obeyed'
  <2>1. Turns /\ Lock /\ Obeyed
    BY <1>5 DEF ControlInv
  <2>2. Turns'
    BY <1>1, <1>2, <2>1 DEF Turns, Busy, Moving
  <2>3. Lock'
    BY <1>1, <1>2, <2>1 DEF Turns, Lock, PastLock, Moving, Busy
  <2>4. Obeyed'
    BY <1>1, <1>2, <2>1 DEF Obeyed
  <2> QED
    BY <2>2, <2>3, <2>4
<1> QED
  BY <1>1, <1>3, <1>4, <1>5 DEF ControlInv

-----------------------------------------------------------------------------
(* A command that is typed while all is settled finds nobody on its way.   *)
LEMMA BeginKeeps ==
  ASSUME ControlInv, NEW c \in Ctl, NEW op \in {"enable", "disable", "daemon"}, Begin(c, op)
  PROVE  ControlInv'
<1> DEFINE at == IF op = "daemon" THEN "spawn" ELSE "read"
<1>1. /\ ControlTypeOK /\ ctl[c].at = "done" /\ ctl' = [ctl EXCEPT ![c] = [op |-> op, at |-> at]]
      /\ overlapped' = (overlapped \/ ~Settled)
      /\ UNCHANGED <<pidfile, linked, config, short, raced, windows, deaths, daemon, bare>>
  BY DEF ControlInv, Begin, files, settings
<1>2. [op |-> op, at |-> at] \in CtlStates /\ at \in {"spawn", "read"}
  BY DEF CtlStates
<1> HIDE DEF at
<1>3. /\ ctl' \in [Ctl -> CtlStates] /\ ctl'[c].at = at
      /\ \A d \in Ctl \ {c} : ctl'[d] = ctl[d]
  BY <1>1, <1>2 DEF ControlTypeOK, CtlStates
<1>4. ControlTypeOK'
  BY <1>1, <1>3 DEF ControlTypeOK, CtlStates
<1>5. FileInv'
  BY <1>1, <1>2, <1>3 DEF ControlInv, FileInv
<1>6. ASSUME ~overlapped' PROVE Turns' /\ Lock' /\ Obeyed'
  <2>1. Turns /\ Lock /\ Obeyed
    BY <1>1, <1>6 DEF ControlInv
  <2>2. /\ \A d \in Ctl : ctl[d].at = "done"
        /\ \A p \in Pid : daemon[p] \in {"none", "running", "dead"}
    BY <1>1, <1>6 DEF Settled
  <2>3. Turns'
    BY <1>1, <1>3, <2>1, <2>2 DEF Turns, Busy, Moving
  <2>4. Lock'
    BY <1>1, <1>2, <1>3, <2>1, <2>2 DEF Lock
  <2>5. Obeyed'
    BY <1>1, <1>3, <2>1, <2>2 DEF Obeyed
  <2> QED
    BY <2>3, <2>4, <2>5
<1> QED
  BY <1>1, <1>4, <1>5, <1>6 DEF ControlInv

(* The file is truncated by the one command that will write it back. *)
LEMMA RewriteConfigKeeps ==
  ASSUME ControlInv, NEW c \in Ctl, RewriteConfig(c)
  PROVE  ControlInv'
<1> DEFINE at == IF config = Garbled THEN "done" ELSE "write"
<1>1. /\ ControlTypeOK /\ ctl[c].at = "read" /\ Step(c, at)
      /\ config' = IF config = Garbled THEN config ELSE Empty
      /\ short' = IF config.settings \/ config = Garbled THEN short ELSE short \cup {c}
      /\ raced' = (raced \/ config = Empty)
      /\ UNCHANGED <<pidfile, linked, windows, deaths, overlapped, daemon, bare>>
  BY DEF ControlInv, RewriteConfig, files, world
<1>2. at = "done" \/ [op |-> ctl[c].op, at |-> at] \in CtlStates
  BY <1>1 DEF ControlTypeOK, CtlStates
<1>3. /\ ctl' \in [Ctl -> CtlStates] /\ ctl'[c].at = at /\ (at # "done" => ctl'[c].op = ctl[c].op)
      /\ \A d \in Ctl \ {c} : ctl'[d] = ctl[d]
  BY <1>1, <1>2, CommandMoves
<1>4. ControlTypeOK'
  BY <1>1, <1>3, TextFacts DEF ControlTypeOK, CtlStates
<1>5. ASSUME ~raced'
      PROVE  /\ config' = Empty /\ short' = {} /\ ctl'[c].at = "write"
             /\ \A d \in Ctl \ {c} : ctl'[d].at # "write"
  <2>1. ~raced /\ config # Empty
    BY <1>1, <1>5
  <2>2. config.settings /\ short = {} /\ config # Garbled /\ \A d \in Ctl : ctl[d].at # "write"
    BY <2>1, TextFacts DEF ControlInv, FileInv
  <2> QED
    BY <1>1, <1>3, <2>2
<1>6. FileInv'
  BY <1>5 DEF FileInv
<1>7. ASSUME ~overlapped PROVE Turns' /\ Lock' /\ Obeyed'
  <2>1. Turns /\ Lock /\ Obeyed /\ FileInv
    BY <1>7 DEF ControlInv
  <2>2. ~raced'
    BY <1>1, <2>1 DEF Turns, FileInv, Busy
  <2>3. Turns'
    BY <1>1, <1>3, <2>1, <2>2 DEF Turns, Busy, Moving
  <2>4. Lock'
    BY <1>1, <1>3, <1>5, <2>1, <2>2 DEF Lock
  <2>5. Obeyed'
    BY <1>5, <2>2, TextFacts DEF Obeyed
  <2> QED
    BY <2>3, <2>4, <2>5
<1> QED
  BY <1>1, <1>4, <1>6, <1>7 DEF ControlInv

LEMMA WriteConfigKeeps ==
  ASSUME ControlInv, NEW c \in Ctl, WriteConfig(c)
  PROVE  ControlInv'
<1>1. /\ ControlTypeOK /\ ctl[c].at = "write" /\ Step(c, "check") /\ short' = short \ {c}
      /\ config' = IF c \in short /\ (config = Garbled \/ config.settings)
                     THEN Garbled ELSE Whole(ctl[c].op = "enable", c \notin short)
      /\ UNCHANGED <<pidfile, linked, raced, windows, deaths, overlapped, daemon, bare>>
  BY DEF ControlInv, WriteConfig, files, world
<1>2. /\ [op |-> ctl[c].op, at |-> "check"] \in CtlStates /\ ctl[c].op \in {"enable", "disable"}
  BY <1>1 DEF ControlTypeOK, CtlStates
<1>3. /\ ctl' \in [Ctl -> CtlStates] /\ ctl'[c].at = "check" /\ ctl'[c].op = ctl[c].op
      /\ \A d \in Ctl \ {c} : ctl'[d] = ctl[d]
  BY <1>1, <1>2, CommandMoves
<1>4. ControlTypeOK'
  <2>1. config' \in Texts
    BY <1>1, TextFacts
  <2> QED
    BY <1>1, <1>3, <2>1 DEF ControlTypeOK, CtlStates
<1>5. ASSUME ~raced
      PROVE  /\ short' = {} /\ config' = Whole(ctl[c].op = "enable", TRUE)
             /\ \A d \in Ctl : ctl'[d].at # "write"
  <2>1. short = {} /\ \A d \in Ctl \ {c} : ctl[d].at # "write"
    BY <1>1, <1>5 DEF ControlInv, FileInv
  <2> QED
    BY <1>1, <1>3, <2>1
<1>6. ASSUME ~raced
      PROVE  /\ config'.settings /\ config' # Empty
             /\ config'.enabled = (ctl[c].op = "enable")
  <2>1. (ctl[c].op = "enable") \in BOOLEAN /\ TRUE \in BOOLEAN
    OBVIOUS
  <2> QED
    BY <1>5, <1>6, <2>1, TextFacts
<1>7. FileInv'
  BY <1>1, <1>5, <1>6 DEF FileInv
<1>8. ASSUME ~overlapped PROVE Turns' /\ Lock' /\ Obeyed'
  <2>1. Turns /\ Lock /\ Obeyed
    BY <1>8 DEF ControlInv
  <2>2. Turns'
    BY <1>1, <1>3, <2>1 DEF Turns, Busy, Moving
  <2>3. Lock'
    BY <1>1, <1>3, <2>1 DEF Lock
  <2>4. Obeyed'
    <3>1. \A p \in Pid : daemon[p] \in {"none", "dead", "running"}
      BY <1>1, <2>1 DEF Turns, Busy, Moving, ControlTypeOK, Stage
    <3>2. ~config'.enabled => ctl'[c].op = "disable" /\ ctl'[c].at = "check"
      BY <1>2, <1>3, <1>6, <2>1 DEF Turns
    <3> QED
      BY <1>1, <3>1, <3>2 DEF Obeyed
  <2> QED
    BY <2>2, <2>3, <2>4
<1> QED
  BY <1>1, <1>4, <1>7, <1>8 DEF ControlInv

(* `disable` goes on to stop whom it finds, and finds whoever runs. *)
LEMMA CheckKeeps ==
  ASSUME ControlInv, NEW c \in Ctl, Check(c)
  PROVE  ControlInv'
<1> DEFINE at == IF config = Garbled THEN "done"
                 ELSE IF ctl[c].op = "enable" THEN (IF daemonRunning THEN "done" ELSE "spawn")
                 ELSE IF daemonRunning THEN "stop" ELSE "done"
<1>1. /\ ControlTypeOK /\ ctl[c].at = "check" /\ Step(c, at)
      /\ UNCHANGED <<pidfile, linked, config, short, raced, windows, deaths, overlapped, daemon, bare>>
  BY DEF ControlInv, Check, files, settings, world
<1>2. /\ (at = "done" \/ [op |-> ctl[c].op, at |-> at] \in CtlStates) /\ at \in {"done", "spawn", "stop"}
      /\ ctl[c].op \in {"enable", "disable"}
      /\ config # Garbled /\ ctl[c].op = "disable" /\ daemonRunning => at = "stop"
  BY <1>1 DEF ControlTypeOK, CtlStates
<1> HIDE DEF at
<1>3. /\ ctl' \in [Ctl -> CtlStates] /\ ctl'[c].at = at /\ (at # "done" => ctl'[c].op = ctl[c].op)
      /\ \A d \in Ctl \ {c} : ctl'[d] = ctl[d]
  BY <1>1, <1>2, CommandMoves
<1>4. ControlTypeOK'
  BY <1>1, <1>3 DEF ControlTypeOK, CtlStates
<1>5. FileInv'
  BY <1>1, <1>2, <1>3 DEF ControlInv, FileInv
<1>6. ASSUME ~overlapped PROVE Turns' /\ Lock' /\ Obeyed'
  <2>1. Turns /\ Lock /\ Obeyed /\ FileInv
    BY <1>6 DEF ControlInv
  <2>2. Turns'
    BY <1>1, <1>2, <1>3, <2>1 DEF Turns, Busy, Moving
  <2>3. Lock'
    BY <1>1, <1>2, <1>3, <2>1 DEF Lock
  <2>4. config # Garbled
    BY <2>1, TextFacts DEF Turns, FileInv
  <2>5. \A p \in Pid : daemon[p] = "running" => daemonRunning
    BY <2>1 DEF Lock, daemonRunning, Alive
  <2>6. Obeyed'
    <3> SUFFICES ASSUME ~config.enabled, NEW p \in Pid, daemon[p] = "running"
                 PROVE  \E d \in Ctl : ctl'[d].op = "disable" /\ ctl'[d].at \in {"check", "stop"}
      BY <1>1, <2>1 DEF Obeyed
    <3>1. PICK d \in Ctl : ctl[d].op = "disable" /\ ctl[d].at \in {"check", "stop"}
      BY <2>1 DEF Obeyed
    <3> QED
      BY <1>2, <1>3, <2>4, <2>5, <3>1
  <2> QED
    BY <2>2, <2>3, <2>6
<1> QED
  BY <1>1, <1>4, <1>5, <1>6 DEF ControlInv

LEMMA StartDaemonKeeps ==
  ASSUME ControlInv, NEW c \in Ctl, StartDaemon(c)
  PROVE  ControlInv'
<1>1. /\ ControlTypeOK /\ ctl[c].at = "spawn" /\ Step(c, "done")
      /\ UNCHANGED <<pidfile, linked, config, short, raced, windows, deaths, overlapped, bare>>
  BY DEF ControlInv, StartDaemon, files, settings, world
<1>2. PICK p \in Pid : daemon[p] = "none" /\ Go(p, "start")
  BY DEF StartDaemon, Unused
<1>3. /\ daemon' \in [Pid -> Stage] /\ daemon'[p] = "start"
      /\ \A q \in Pid \ {p} : daemon'[q] = daemon[q]
  BY <1>1, <1>2, DaemonMoves DEF Stage
<1>5. /\ ctl' \in [Ctl -> CtlStates] /\ ctl'[c].at = "done"
      /\ \A d \in Ctl \ {c} : ctl'[d] = ctl[d]
  BY <1>1, CommandMoves
<1>6. ControlTypeOK'
  BY <1>1, <1>3, <1>5 DEF ControlTypeOK, CtlStates
<1>7. FileInv'
  BY <1>1, <1>5 DEF ControlInv, FileInv
<1>8. ASSUME ~overlapped PROVE Turns' /\ Lock' /\ Obeyed'
  <2>1. Turns /\ Lock /\ Obeyed
    BY <1>8 DEF ControlInv
  <2>2. \A q \in Pid : daemon[q] \notin Moving
    BY <1>1, <2>1 DEF Turns, Busy
  <2>3. Turns'
    BY <1>1, <1>3, <1>5, <2>1, <2>2 DEF Turns, Busy
  <2>4. Lock'
    BY <1>1, <1>3, <1>5, <2>1 DEF Lock, PastLock, Moving
  <2>5. Obeyed'
    BY <1>1, <1>3, <1>5, <2>1 DEF Obeyed
  <2> QED
    BY <2>3, <2>4, <2>5
<1> QED
  BY <1>1, <1>6, <1>7, <1>8 DEF ControlInv

(* Of the daemons, a stop changes only the one the pid file names. *)
LEMMA StopFacts ==
  ASSUME ControlTypeOK, NEW c \in Ctl, StopDaemon(c)
  PROVE  /\ daemon' \in [Pid -> Stage]
         /\ \A p \in Pid : \/ daemon'[p] = daemon[p]
                           \/ daemon'[p] \in {"dead", "stopping", "removed"}
         /\ \A p \in Pid : daemon'[p] # daemon[p] => pidfile = p /\ daemon[p] # "none"
         /\ \A p \in Pid : pidfile = p => daemon'[p] # "running"
<1>1. CASE UNCHANGED daemon /\ pidfile \notin Pid
  BY <1>1 DEF ControlTypeOK
<1>2. CASE UNCHANGED daemon /\ pidfile \in Pid /\ ~daemonRunning
  BY <1>2 DEF ControlTypeOK, daemonRunning, Alive
<1>3. CASE daemonRunning /\ Terminate(pidfile)
  <2>1. pidfile \in Pid /\ Alive(pidfile)
    BY <1>3 DEF daemonRunning
  <2>2. PICK stage \in {"dead", "stopping", "removed"} : Go(pidfile, stage)
    BY <1>3 DEF Terminate
  <2>3. /\ daemon' \in [Pid -> Stage] /\ daemon'[pidfile] = stage
        /\ \A q \in Pid \ {pidfile} : daemon'[q] = daemon[q]
    BY <2>1, <2>2, DaemonMoves DEF Stage
  <2> QED
    BY <2>1, <2>2, <2>3 DEF Alive
<1> QED
  BY <1>1, <1>2, <1>3, ControlAssumption DEF StopDaemon, NoFile, Torn

(* Whoever runs is named by the pid file, so `disable` signals it. *)
LEMMA StopDaemonKeeps ==
  ASSUME ControlInv, NEW c \in Ctl, StopDaemon(c)
  PROVE  ControlInv'
<1>1. /\ ControlTypeOK /\ ctl[c].at = "stop"
      /\ UNCHANGED <<pidfile, linked, config, short, raced, windows, deaths, overlapped, bare>>
  BY DEF ControlInv, StopDaemon, files, settings, world
<1>2. PICK at \in {"done", "remove"} : Step(c, at)
  BY DEF StopDaemon
<1>3. (at = "done" \/ [op |-> ctl[c].op, at |-> at] \in CtlStates) /\ ctl[c].op = "disable"
  BY <1>1, <1>2 DEF ControlTypeOK, CtlStates
<1>4. /\ ctl' \in [Ctl -> CtlStates] /\ ctl'[c].at = at /\ (at # "done" => ctl'[c].op = ctl[c].op)
      /\ \A d \in Ctl \ {c} : ctl'[d] = ctl[d]
  BY <1>1, <1>2, <1>3, CommandMoves
<1>5. /\ daemon' \in [Pid -> Stage]
      /\ \A p \in Pid : \/ daemon'[p] = daemon[p]
                        \/ daemon'[p] \in {"dead", "stopping", "removed"}
      /\ \A p \in Pid : daemon'[p] # daemon[p] => pidfile = p /\ daemon[p] # "none"
      /\ \A p \in Pid : pidfile = p => daemon'[p] # "running"
  BY <1>1, StopFacts
<1>6. ControlTypeOK'
  BY <1>1, <1>4, <1>5 DEF ControlTypeOK, CtlStates
<1>7. FileInv'
  BY <1>1, <1>2, <1>4 DEF ControlInv, FileInv
<1>8. ASSUME ~overlapped PROVE Turns' /\ Lock' /\ Obeyed'
  <2>1. Turns /\ Lock /\ Obeyed
    BY <1>8 DEF ControlInv
  <2>2. \A p \in Pid : daemon[p] \notin Moving
    BY <1>1, <2>1 DEF Turns, Busy
  <2>3. \A p \in Pid : daemon'[p] # "running"
    BY <1>5, <2>1 DEF Lock
  <2>4. \A p \in Pid : daemon'[p] \in Moving => pidfile = p /\ daemon'[p] \in {"stopping", "removed"}
    BY <1>5, <2>2 DEF Moving
  <2>5. \A p, q \in Pid : daemon'[p] \in Moving /\ daemon'[q] \in Moving => p = q
    BY <2>4
  <2>6. (\E p \in Pid : daemon'[p] \in Moving) => at = "remove"
    <3> SUFFICES ASSUME NEW p \in Pid, daemon'[p] # daemon[p] PROVE at = "remove"
      BY <2>2
    <3>1. pidfile \in Pid
      BY <1>5
    <3>2. Step(c, "remove")
      BY <3>1, ControlAssumption DEF StopDaemon, NoFile, Torn
    <3>3. ctl'[c].at = "remove"
      BY <1>1, <1>3, <3>2 DEF ControlTypeOK, Step
    <3> QED
      BY <1>4, <3>3
  <2>7. Turns'
    BY <1>1, <1>2, <1>4, <2>1, <2>4, <2>5, <2>6 DEF Turns, Busy
  <2>8. Lock'
    BY <2>3, <2>4 DEF Lock, Moving, PastLock
  <2>9. Obeyed'
    BY <1>1, <1>5, <2>1, <2>3 DEF Obeyed
  <2> QED
    BY <2>7, <2>8, <2>9
<1> QED
  BY <1>1, <1>6, <1>7, <1>8 DEF ControlInv

LEMMA DisableRemovesKeeps ==
  ASSUME ControlInv, NEW c \in Ctl, DisableRemoves(c)
  PROVE  ControlInv'
<1>1. /\ ControlTypeOK /\ ctl[c].at = "remove" /\ Step(c, "done")
      /\ UNCHANGED <<pidfile, linked>> \/ (pidfile' = NoFile /\ linked' = {})
      /\ UNCHANGED <<config, short, raced, windows, deaths, overlapped, daemon, bare>>
  BY DEF ControlInv, DisableRemoves, Remove, files, settings, world
<1>3. /\ ctl' \in [Ctl -> CtlStates] /\ ctl'[c].at = "done"
      /\ \A d \in Ctl \ {c} : ctl'[d] = ctl[d]
  BY <1>1, CommandMoves
<1>4. ControlTypeOK'
  BY <1>1, <1>3 DEF ControlTypeOK, CtlStates
<1>5. FileInv'
  BY <1>1, <1>3 DEF ControlInv, FileInv
<1>6. ASSUME ~overlapped PROVE Turns' /\ Lock' /\ Obeyed'
  <2>1. Turns /\ Lock /\ Obeyed
    BY <1>6 DEF ControlInv
  <2>2. \A p \in Pid : daemon[p] # "running" /\ (daemon[p] \in Moving => daemon[p] \in {"stopping", "removed"})
    BY <1>1, <2>1 DEF Turns, Lock, Busy
  <2>3. Turns'
    BY <1>1, <1>3, <2>1 DEF Turns, Busy
  <2>4. Lock'
    BY <1>1, <2>2 DEF Lock, Moving
  <2>5. Obeyed'
    BY <1>1, <2>1, <2>2 DEF Obeyed
  <2> QED
    BY <2>3, <2>4, <2>5
<1> QED
  BY <1>1, <1>4, <1>5, <1>6 DEF ControlInv

LEMMA KillCommandKeeps ==
  ASSUME ControlInv, NEW c \in Ctl, KillCommand(c)
  PROVE  ControlInv'
<1>1. /\ ControlTypeOK /\ ctl[c].at # "done" /\ Step(c, "done") /\ short' = short \ {c}
      /\ deaths < MaxDeaths /\ deaths' = deaths + 1 /\ overlapped' = TRUE
      /\ raced' = (raced \/ config = Empty)
      /\ UNCHANGED <<pidfile, linked, config, windows, daemon, bare>>
  BY DEF ControlInv, KillCommand, files
<1>3. /\ ctl' \in [Ctl -> CtlStates] /\ ctl'[c].at = "done"
      /\ \A d \in Ctl \ {c} : ctl'[d] = ctl[d]
  BY <1>1, CommandMoves
<1>4. ControlTypeOK'
  BY <1>1, <1>3, ControlAssumption DEF ControlTypeOK, CtlStates
<1>5. FileInv'
  BY <1>1, <1>3 DEF ControlInv, FileInv
<1> QED
  BY <1>1, <1>4, <1>5 DEF ControlInv

LEMMA StutterKeeps ==
  ASSUME ControlInv, UNCHANGED vars
  PROVE  ControlInv'
<1>1. UNCHANGED <<pidfile, linked, config, short, raced, windows, deaths, overlapped, daemon, bare, ctl>>
  BY DEF vars, files, settings, world
<1> QED
  BY <1>1 DEF ControlInv, ControlTypeOK, FileInv, Turns, Lock, Obeyed, Busy

-----------------------------------------------------------------------------
LEMMA ControlStep == ControlInv /\ [ControlNext]_vars => ControlInv'
<1> SUFFICES ASSUME ControlInv, [ControlNext]_vars PROVE ControlInv'
  OBVIOUS
<1>1. CASE \E p \in Pid : DaemonStep(p) \/ Die(p)
  BY <1>1, LoadConfigKeeps, ReadLockKeeps, OpenLockKeeps, WriteLockKeeps, NotifyKeeps,
     ExitIdleKeeps, HandlerRemovesKeeps, HandlerExitsKeeps, DieKeeps DEF DaemonStep
<1>2. CASE \E c \in Ctl : CommandStep(c) \/ KillCommand(c)
  BY <1>2, RewriteConfigKeeps, WriteConfigKeeps, CheckKeeps, StartDaemonKeeps,
     StopDaemonKeeps, DisableRemovesKeeps, KillCommandKeeps DEF CommandStep
<1>3. CASE \E c \in Ctl, op \in {"enable", "disable", "daemon"} : Begin(c, op)
  BY <1>3, BeginKeeps
<1>4. CASE UNCHANGED vars
  BY <1>4, StutterKeeps
<1> QED
  BY <1>1, <1>2, <1>3, <1>4 DEF ControlNext

LEMMA ControlInvariant == ControlSpec => []ControlInv
BY ControlStarts, ControlStep, PTL DEF ControlSpec

(* A pid file is there because a daemon is about to write it, because the  *)
(* daemon it names is in its loop or near, or while a command removes it.  *)
Explained ==
  \/ \E q \in linked : daemon[q] = "fill"
  \/ /\ pidfile \in Pid
     /\ \/ daemon[pidfile] \in {"locked", "running", "stopping"}
        \/ \E c \in Ctl : ctl[c].at = "remove"

StaleInv ==
  /\ \A p \in Pid : daemon[p] = "idle" => p \in bare
  /\ deaths = 0 /\ bare = {} /\ pidfile # NoFile => Explained

LEMMA DaemonKeepsExplained ==
  ASSUME ControlTypeOK, StaleInv, NEW p \in Pid, DaemonStep(p)
  PROVE  StaleInv'
<1>0. /\ linked \subseteq Pid /\ UNCHANGED <<deaths, ctl>>
      /\ p # NoFile
  BY ControlAssumption DEF ControlTypeOK, DaemonStep, LoadConfig, ReadLock, OpenLock, WriteLock, Notify, ExitIdle,
     HandlerRemoves, HandlerExits, world, NoFile
<1>1. CASE LoadConfig(p) \/ ReadLock(p) \/ HandlerExits(p) \/ Notify(p) \/ ExitIdle(p)
  <2>1. /\ UNCHANGED <<pidfile, linked>> /\ bare \subseteq bare'
        /\ daemon[p] \in {"start", "lock", "removed", "locked", "idle"}
    BY <1>1 DEF LoadConfig, ReadLock, HandlerExits, Notify, ExitIdle, files
  <2>2. PICK stage \in {"lock", "dead", "write", "running", "idle"} :
          /\ Go(p, stage)
          /\ stage = "idle" => p \in bare
          /\ daemon[p] = "locked" => stage \in {"running", "idle"}
    BY <1>1 DEF LoadConfig, ReadLock, HandlerExits, Notify, ExitIdle
  <2>3. /\ daemon'[p] = stage
        /\ \A q \in Pid \ {p} : daemon'[q] = daemon[q]
    BY <2>2, DaemonMoves DEF Stage
  <2> QED
    BY <1>0, <2>1, <2>2, <2>3 DEF StaleInv, Explained
<1>2. CASE OpenLock(p)
  <2>1. daemon'[p] = "fill" /\ p \in linked' /\ bare' = bare
        /\ \A q \in Pid \ {p} : daemon'[q] = daemon[q]
    BY <1>2, DaemonMoves DEF OpenLock, Stage
  <2> QED
    BY <2>1 DEF StaleInv, Explained
<1>3. CASE WriteLock(p)
  <2>1. daemon[p] = "fill" /\ linked' = linked /\ bare' = bare
        /\ pidfile' = IF p \in linked THEN p ELSE pidfile
    BY <1>3 DEF WriteLock
  <2>2. daemon'[p] = "locked" /\ \A q \in Pid \ {p} : daemon'[q] = daemon[q]
    BY <1>3, DaemonMoves DEF WriteLock, Stage
  <2> QED
    BY <1>0, <2>1, <2>2 DEF StaleInv, Explained
<1>4. CASE HandlerRemoves(p)
  <2>1. /\ daemon[p] = "stopping" /\ bare' = bare
        /\ \/ UNCHANGED <<pidfile, linked>> /\ \E q \in linked : daemon[q] = "fill"
           \/ pidfile' = NoFile /\ linked' = {}
    BY <1>4 DEF HandlerRemoves, Remove, files
  <2>2. daemon'[p] = "removed" /\ \A q \in Pid \ {p} : daemon'[q] = daemon[q]
    BY <1>4, DaemonMoves DEF HandlerRemoves, Stage
  <2> QED
    BY <1>0, <2>1, <2>2 DEF StaleInv, Explained
<1> QED
  BY <1>1, <1>2, <1>3, <1>4 DEF DaemonStep

LEMMA CommandKeepsExplained ==
  ASSUME ControlTypeOK, StaleInv, NEW c \in Ctl, CommandStep(c)
  PROVE  StaleInv'
<1>0. ctl \in [Ctl -> CtlStates] /\ linked \subseteq Pid /\ UNCHANGED <<deaths, bare>>
  BY DEF ControlTypeOK, CtlStates, CommandStep, RewriteConfig, WriteConfig, Check, StartDaemon,
     StopDaemon, DisableRemoves, world
<1>1. CASE RewriteConfig(c) \/ WriteConfig(c) \/ Check(c)
  <2>1. UNCHANGED <<pidfile, linked, daemon>> /\ ctl[c].at # "remove" /\ \E at : Step(c, at)
    BY <1>1 DEF RewriteConfig, WriteConfig, Check, files
  <2>2. \A d \in Ctl : ctl[d].at = "remove" => ctl'[d].at = "remove"
    BY <1>0, <2>1 DEF Step
  <2> QED
    BY <1>0, <2>1, <2>2 DEF StaleInv, Explained
<1>2. CASE StartDaemon(c)
  <2>1. PICK p \in Pid : daemon[p] = "none" /\ Go(p, "start")
    BY <1>2 DEF StartDaemon, Unused
  <2>2. daemon'[p] = "start" /\ \A q \in Pid \ {p} : daemon'[q] = daemon[q]
    BY <2>1, DaemonMoves DEF Stage
  <2>3. UNCHANGED <<pidfile, linked>> /\ ctl[c].at # "remove" /\ Step(c, "done")
    BY <1>2 DEF StartDaemon, files
  <2>4. \A d \in Ctl : ctl[d].at = "remove" => ctl'[d].at = "remove"
    BY <1>0, <2>3 DEF Step
  <2> QED
    BY <1>0, <2>1, <2>2, <2>3, <2>4 DEF StaleInv, Explained
<1>3. CASE StopDaemon(c)
  <2>1. /\ \A p \in Pid : daemon'[p] = "idle" => daemon[p] = "idle"
        /\ \A p \in Pid : daemon'[p] # daemon[p] => pidfile = p
    BY <1>3, StopFacts
  <2>2. UNCHANGED <<pidfile, linked>>
    BY <1>3 DEF StopDaemon, files
  <2>3. CASE pidfile \in Pid
    <3>1. Step(c, "remove")
      BY <1>3, <2>3, ControlAssumption DEF StopDaemon, NoFile, Torn
    <3>2. ctl'[c].at = "remove"
      BY <1>0, <3>1 DEF Step, CtlStates
    <3> QED
      BY <1>0, <2>1, <2>2, <2>3, <3>2 DEF StaleInv, Explained
  <2>4. CASE pidfile \notin Pid
    BY <1>0, <2>1, <2>2, <2>4 DEF StaleInv, Explained
  <2> QED
    BY <2>3, <2>4
<1>4. CASE DisableRemoves(c)
  <2>1. /\ daemon' = daemon
        /\ \/ UNCHANGED <<pidfile, linked>> /\ \E q \in linked : daemon[q] = "fill"
           \/ pidfile' = NoFile /\ linked' = {}
    BY <1>4 DEF DisableRemoves, Remove, files
  <2> QED
    BY <1>0, <2>1 DEF StaleInv, Explained
<1> QED
  BY <1>1, <1>2, <1>3, <1>4 DEF CommandStep

LEMMA ExplainedStep == ControlTypeOK /\ StaleInv /\ [ControlNext]_vars => StaleInv'
<1> SUFFICES ASSUME ControlTypeOK, StaleInv, [ControlNext]_vars PROVE StaleInv'
  OBVIOUS
<1>1. CASE \E p \in Pid : DaemonStep(p)
  BY <1>1, DaemonKeepsExplained
<1>2. ASSUME NEW p \in Pid, Die(p) PROVE StaleInv'
  <2>1. deaths' # 0 /\ bare' = bare
    BY <1>2 DEF Die, ControlTypeOK
  <2>2. daemon'[p] = "dead" /\ \A q \in Pid \ {p} : daemon'[q] = daemon[q]
    BY <1>2, DaemonMoves DEF Die, Stage
  <2> QED
    BY <2>1, <2>2 DEF StaleInv
<1>3. CASE \E c \in Ctl : CommandStep(c)
  BY <1>3, CommandKeepsExplained
<1>4. CASE \E c \in Ctl : KillCommand(c)
  <2>1. deaths' # 0 /\ bare' = bare /\ daemon' = daemon
    BY <1>4 DEF KillCommand, ControlTypeOK
  <2> QED
    BY <2>1 DEF StaleInv
<1>5. ASSUME NEW c \in Ctl, NEW op \in {"enable", "disable", "daemon"}, Begin(c, op)
      PROVE  StaleInv'
  <2>1. /\ UNCHANGED <<pidfile, linked, daemon, bare, deaths>> /\ ctl[c].at = "done"
        /\ \A d \in Ctl \ {c} : ctl'[d] = ctl[d]
    BY <1>5 DEF Begin, files, ControlTypeOK
  <2> QED
    BY <2>1 DEF StaleInv, Explained
<1>6. CASE UNCHANGED vars
  BY <1>6 DEF vars, files, settings, world, StaleInv, Explained
<1> QED
  BY <1>1, <1>2, <1>3, <1>4, <1>5, <1>6 DEF ControlNext

(* The files and the processes keep their shape, and a command is only     *)
(* ever at a step of its own.                                              *)
THEOREM ControlTypeCorrect == ControlSpec => []ControlTypeOK
<1>1. ControlInv => ControlTypeOK
  BY DEF ControlInv
<1> QED
  BY <1>1, ControlInvariant, PTL

(* acquireLock: at most one daemon is in its loop, where no command was    *)
(* typed before the one before had taken effect, whatever dies meanwhile.  *)
THEOREM OneDaemonAtMost == ControlSpec => []OneDaemon
<1>1. ControlInv => OneDaemon
  <2> SUFFICES ASSUME ControlInv, ~overlapped
               PROVE  Cardinality({p \in Pid : daemon[p] = "running"}) <= 1
    BY DEF OneDaemon
  <2>1. {p \in Pid : daemon[p] = "running"} \subseteq {pidfile}
    BY DEF ControlInv, Lock
  <2>2. IsFiniteSet({pidfile}) /\ Cardinality({pidfile}) = 1
    BY FS_Singleton
  <2> QED
    BY <2>1, <2>2, FS_Subset
<1> QED
  BY <1>1, ControlInvariant, PTL

(* The pid file names the daemon that runs, so `disable` and `status` find it. *)
THEOREM PidFileIsTrue == ControlSpec => []PidFileNamesDaemon
<1>1. ControlInv => PidFileNamesDaemon
  BY DEF ControlInv, Lock, PidFileNamesDaemon
<1> QED
  BY <1>1, ControlInvariant, PTL

(* However commands and daemons overlap, where nothing crashes and there   *)
(* are devices no pid file is left behind without its daemon: the handler  *)
(* and `disable` remove it between them, and an unfinished one is written. *)
THEOREM PidFileIsNeverStale == ControlSpec => []NoStalePidFile
<1>1. ControlInit => StaleInv
  BY DEF ControlInit, StaleInv
<1>2. ControlSpec => []StaleInv
  BY <1>1, ExplainedStep, ControlTypeCorrect, PTL DEF ControlSpec
<1>3. ControlTypeOK /\ StaleInv => NoStalePidFile
  BY DEF ControlTypeOK, StaleInv, Explained, Settled, NoStalePidFile
<1> QED
  BY <1>2, <1>3, ControlTypeCorrect, PTL

(* `disable` (enable.go:41): when all has come to rest on a file that says *)
(* no, no daemon is left in its loop.                                      *)
THEOREM DisableStops == ControlSpec => []DisabledIsStopped
<1>1. ControlInv => DisabledIsStopped
  BY DEF ControlInv, Obeyed, Settled, DisabledIsStopped
<1> QED
  BY <1>1, ControlInvariant, PTL

(* setEnabledInFile: the owner's settings outlast any number of commands   *)
(* that overlap, but for one that reads the file while another has it      *)
(* truncated, or that is killed then.                                      *)
THEOREM SettingsOutlast == ControlSpec => []SettingsSurvive
<1>1. ControlInv => SettingsSurvive
  BY DEF ControlInv, FileInv, Turns, SettingsSurvive
<1> QED
  BY <1>1, ControlInvariant, PTL
=============================================================================
