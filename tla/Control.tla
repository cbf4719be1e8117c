------------------------------ MODULE Control ------------------------------
(***************************************************************************)
(* Starting and stopping the daemon: `enable`, `disable` and `daemon`      *)
(* (enable.go, daemonctl_*.go), the config file they rewrite in place, the *)
(* pid file that stands between them (util.go acquireLock) and the         *)
(* daemon's start and stop (daemon.go), on Unix or on Windows.             *)
(*                                                                         *)
(* A command and a daemon are processes: between any two of their system   *)
(* calls the others may move.  The pid file is opened with O_TRUNC and     *)
(* then written, so it is read empty in between; `linked' are the daemons  *)
(* whose open descriptor still is the file the path names.  The config     *)
(* file is truncated and written likewise; read empty, it is taken for one *)
(* that says nothing, hence for the defaults: enabled, and no devices.     *)
(*                                                                         *)
(* Bounds: Pid are the processes the system can start, in their order and  *)
(* never reused; a command that may need one begins only while one is      *)
(* left.  MaxDeaths bounds kill -9 and crashes, of commands too.           *)
(***************************************************************************)
EXTENDS Integers, FiniteSets

CONSTANTS Pid,          \* daemon processes, 1 .. the last
          Ctl,          \* terminals a command is typed at
          MaxDeaths

ASSUME ControlAssumption == /\ IsFiniteSet(Pid) /\ Pid \subseteq Nat \ {0}
                            /\ MaxDeaths \in Nat

NoFile == 0             \* os.ReadFile fails
Torn == -1              \* opened with O_TRUNC, not yet written

\* What the config file is loaded as: its `enabled` key, and whether with the
\* owner's settings.
Whole(enabled, settings) == [text |-> "whole", enabled |-> enabled, settings |-> settings]
Empty == [text |-> "empty", enabled |-> TRUE, settings |-> FALSE]
Garbled == [text |-> "garbled", enabled |-> FALSE, settings |-> FALSE]
Texts == {Whole(e, s) : e, s \in BOOLEAN} \cup {Empty, Garbled}

VARIABLES config,       \* the config file
          bare,         \* daemons that loaded a file without settings
          pidfile,      \* what cfg.PidFile holds
          linked,       \* daemons whose descriptor is the file at that path
          daemon,       \* [Pid -> Stage]
          ctl,          \* [Ctl -> [op, at]]: the command run at a terminal
          short,        \* the commands that have read it without settings
          windows,      \* the build: Windows, or a Unix
          deaths,
          overlapped,   \* history: a command was typed before the last had
                        \* taken effect, or was killed
          raced         \* history: a command was killed while the config file
                        \* was Empty, or read it then

files == <<pidfile, linked>>
settings == <<config, short, raced>>
world == <<windows, deaths, overlapped>>
vars == <<files, settings, world, daemon, bare, ctl>>

Stage == {"none", "start", "lock", "write", "fill", "locked", "running", "idle",
          "stopping", "removed", "dead"}

ControlTypeOK ==
  /\ config \in Texts /\ short \subseteq Ctl
  /\ pidfile \in Pid \cup {NoFile, Torn}
  /\ linked \subseteq Pid /\ bare \subseteq Pid
  /\ daemon \in [Pid -> Stage]
  /\ ctl \in [Ctl ->
       [op : {"enable"}, at : {"read", "write", "check", "spawn"}]
         \cup [op : {"disable"}, at : {"read", "write", "check", "stop", "remove"}]
         \cup [op : {"daemon"}, at : {"spawn"}] \cup [op : {"none"}, at : {"done"}]]
  /\ deaths \in 0..MaxDeaths
  /\ windows \in BOOLEAN /\ overlapped \in BOOLEAN /\ raced \in BOOLEAN

ControlInit == /\ config \in {Whole(e, TRUE) : e \in BOOLEAN}
               /\ short = {}
               /\ pidfile = NoFile
               /\ linked = {} /\ bare = {}
               /\ daemon = [p \in Pid |-> "none"]
               /\ ctl = [c \in Ctl |-> [op |-> "none", at |-> "done"]]
               /\ windows \in BOOLEAN
               /\ deaths = 0
               /\ overlapped = FALSE /\ raced = FALSE

----------------------------------------------------------------------------
Alive(p) == daemon[p] \notin {"none", "dead"}

\* What a read of the pid file and kill(pid, 0), or tasklist, tell: a daemon
\* is running.
daemonRunning == \E p \in Pid : pidfile = p /\ Alive(p)

Go(p, stage) == daemon' = [daemon EXCEPT ![p] = stage]

\* Windows does not remove a file that is open.
Remove ==
  IF windows /\ \E p \in linked : daemon[p] = "fill"
    THEN UNCHANGED files
    ELSE pidfile' = NoFile /\ linked' = {}

(* The daemon up to its loop: loadConfig and the `enabled` check, then     *)
(* acquireLock -- read the file, open it, write it -- then signal.Notify,  *)
(* and out again if there are no devices.                                  *)
LoadConfig(p) ==
  /\ daemon[p] = "start"
  /\ Go(p, IF config.enabled THEN "lock" ELSE "dead")
  /\ bare' = IF config.enabled /\ ~config.settings THEN bare \cup {p} ELSE bare
  /\ UNCHANGED <<files, settings, world, ctl>>

\* A daemon that never asks whether another one runs.
ReadLockIgnoringIt(p) ==
  /\ daemon[p] = "lock"
  /\ Go(p, "write")
  /\ UNCHANGED <<files, settings, world, bare, ctl>>

ReadLock(p) ==
  /\ daemon[p] = "lock"
  /\ Go(p, IF daemonRunning THEN "dead" ELSE "write")
  /\ UNCHANGED <<files, settings, world, bare, ctl>>

OpenLock(p) ==
  /\ daemon[p] = "write"
  /\ pidfile' = Torn
  /\ linked' = linked \cup {p}
  /\ Go(p, "fill")
  /\ UNCHANGED <<settings, world, bare, ctl>>

WriteLock(p) ==
  /\ daemon[p] = "fill"
  /\ pidfile' = IF p \in linked THEN p ELSE pidfile
  /\ Go(p, "locked")
  /\ UNCHANGED <<linked, settings, world, bare, ctl>>

Notify(p) ==
  /\ daemon[p] = "locked"
  /\ Go(p, IF p \in bare THEN "idle" ELSE "running")
  /\ UNCHANGED <<files, settings, world, bare, ctl>>

\* os.Exit for want of devices, which skips the deferred Remove: the pid
\* file stays.
ExitIdle(p) ==
  /\ daemon[p] = "idle"
  /\ Go(p, "dead")
  /\ UNCHANGED <<files, settings, world, bare, ctl>>

(* The goroutine that waits for the signal: remove the pid file, exit.     *)
HandlerRemoves(p) ==
  /\ daemon[p] = "stopping"
  /\ Remove
  /\ Go(p, "removed")
  /\ UNCHANGED <<settings, world, bare, ctl>>

HandlerExits(p) ==
  /\ daemon[p] = "removed"
  /\ Go(p, "dead")
  /\ UNCHANGED <<files, settings, world, bare, ctl>>

\* A crash or kill -9.
Die(p) ==
  /\ Alive(p) /\ deaths < MaxDeaths
  /\ deaths' = deaths + 1
  /\ Go(p, "dead")
  /\ UNCHANGED <<files, settings, windows, overlapped, bare, ctl>>

\* SIGTERM before signal.Notify ends the process at once; later it is the
\* handler's, once.  taskkill /F asks no handler.
Terminate(p) ==
  Go(p, CASE windows                                -> "dead"
          [] daemon[p] \in {"running", "idle"}      -> "stopping"
          [] daemon[p] \in {"stopping", "removed"}  -> daemon[p]
          [] OTHER                                  -> "dead")

----------------------------------------------------------------------------
Settled == /\ \A c \in Ctl : ctl[c].at = "done"
           /\ \A p \in Pid : daemon[p] \in {"none", "running", "dead"}

Unused == {p \in Pid : daemon[p] = "none"}

Starting == {c \in Ctl : ctl[c].at # "done" /\ ctl[c].op # "disable"}

(* A command that has returned leaves nothing behind at its terminal.      *)
AtPrompt == [op |-> "none", at |-> "done"]

At(c, op, at) == ctl[c] = [op |-> op, at |-> at]

Step(c, at) == ctl' = [ctl EXCEPT ![c] = IF at = "done" THEN AtPrompt
                                         ELSE [op |-> @.op, at |-> at]]

Begin(c, op) ==
  /\ ctl[c].at = "done"
  /\ op # "disable" => Cardinality(Starting) < Cardinality(Unused)
  /\ ctl' = [ctl EXCEPT ![c] = [op |-> op,
                                at |-> IF op = "daemon" THEN "spawn" ELSE "read"]]
  /\ overlapped' = (overlapped \/ ~Settled)
  /\ UNCHANGED <<files, settings, windows, deaths, daemon, bare>>

\* The file is truncated before it is read.
RewriteConfigOpenedFirst(c) ==
  /\ ctl[c].at = "read"
  /\ Step(c, IF config = Garbled THEN "done" ELSE "write")
  /\ config' = IF config = Garbled THEN config ELSE Empty
  /\ short' = IF config = Garbled THEN short ELSE short \cup {c}
  /\ raced' = (raced \/ config = Empty)
  /\ UNCHANGED <<files, world, daemon, bare>>

\* loadConfig refuses a file that does not load; otherwise setEnabledInFile
\* reads it and opens it to write.  That another command moves in between
\* makes no difference to what is read and written.
RewriteConfig(c) ==
  /\ ctl[c].at = "read"
  /\ Step(c, IF config = Garbled THEN "done" ELSE "write")
  /\ config' = IF config = Garbled THEN config ELSE Empty
  /\ short' = IF config.settings \/ config = Garbled THEN short ELSE short \cup {c}
  /\ raced' = (raced \/ config = Empty)
  /\ UNCHANGED <<files, world, daemon, bare>>

\* A text of the `enabled` line alone covers only the start of a longer one
\* that another command has written meanwhile.
WriteConfig(c) ==
  /\ ctl[c].at = "write"
  /\ config' = IF c \in short /\ (config = Garbled \/ config.settings)
                 THEN Garbled ELSE Whole(ctl[c].op = "enable", c \notin short)
  /\ short' = short \ {c}
  /\ Step(c, "check")
  /\ UNCHANGED <<files, raced, world, daemon, bare>>

\* `enable` stops what runs first, as `disable` does.
CheckRestarting(c) ==
  /\ ctl[c].at = "check"
  /\ Step(c, IF daemonRunning THEN "stop"
             ELSE IF ctl[c].op = "enable" THEN "spawn" ELSE "done")
  /\ UNCHANGED <<files, settings, world, daemon, bare>>

\* `enable` takes any pid file for a running daemon's.
CheckTrustingTheFile(c) ==
  LET running == pidfile \in Pid
  IN  /\ ctl[c].at = "check"
      /\ Step(c, CASE ctl[c].op = "enable"  -> IF running THEN "done" ELSE "spawn"
                   [] ctl[c].op = "disable" -> IF running THEN "stop" ELSE "done")
      /\ UNCHANGED <<files, settings, world, daemon, bare>>

\* The second loadConfig fails on a garbled file; its error is not looked at
\* and the command panics.
Check(c) ==
  /\ ctl[c].at = "check"
  /\ Step(c, IF config = Garbled THEN "done"
             ELSE IF ctl[c].op = "enable" THEN (IF daemonRunning THEN "done" ELSE "spawn")
             ELSE IF daemonRunning THEN "stop" ELSE "done")
  /\ UNCHANGED <<files, settings, world, daemon, bare>>

\* exec of `cs-sleeper daemon`, by `enable` or by hand.
StartDaemon(c) ==
  /\ ctl[c].at = "spawn"
  /\ \E p \in Unused : (\A q \in Unused : p <= q) /\ Go(p, "start")
  /\ Step(c, "done")
  /\ UNCHANGED <<files, settings, world, bare>>

\* The pid file is removed and nobody was signalled.
StopDaemonUnsignalled(c) ==
  /\ ctl[c].at = "stop"
  /\ Step(c, "remove")
  /\ UNCHANGED <<files, settings, world, daemon, bare>>

\* stopDaemon reads the pid file anew; a missing or torn one is an error, a
\* dead pid is none.
StopDaemon(c) ==
  /\ ctl[c].at = "stop"
  /\ \/ /\ pidfile \in {NoFile, Torn}
        /\ Step(c, "done")
        /\ UNCHANGED daemon
     \/ /\ pidfile \in Pid /\ ~daemonRunning
        /\ Step(c, "remove")
        /\ UNCHANGED daemon
     \/ /\ daemonRunning
        /\ Terminate(pidfile)
        /\ Step(c, "remove")
  /\ UNCHANGED <<files, settings, world, bare>>

\* The file is left to the signalled daemon's own handler.
DisableLeavesFile(c) ==
  /\ ctl[c].at = "remove"
  /\ Step(c, "done")
  /\ UNCHANGED <<files, settings, world, daemon, bare>>

DisableRemoves(c) ==
  /\ ctl[c].at = "remove"
  /\ Remove
  /\ Step(c, "done")
  /\ UNCHANGED <<settings, world, daemon, bare>>

\* The terminal is closed on a command, or it is interrupted.
KillCommand(c) ==
  /\ ctl[c].at # "done" /\ deaths < MaxDeaths
  /\ Step(c, "done")
  /\ short' = short \ {c}
  /\ deaths' = deaths + 1
  /\ overlapped' = TRUE
  /\ raced' = (raced \/ config = Empty)
  /\ UNCHANGED <<files, config, windows, daemon, bare>>

----------------------------------------------------------------------------
DaemonStep(p) == \/ LoadConfig(p) \/ ReadLock(p) \/ OpenLock(p) \/ WriteLock(p)
                 \/ Notify(p) \/ ExitIdle(p) \/ HandlerRemoves(p) \/ HandlerExits(p)

CommandStep(c) == \/ RewriteConfig(c) \/ WriteConfig(c) \/ Check(c)
                  \/ StartDaemon(c) \/ StopDaemon(c) \/ DisableRemoves(c)

ControlNext ==
  \/ \E p \in Pid : DaemonStep(p) \/ Die(p)
  \/ \E c \in Ctl : \/ CommandStep(c) \/ KillCommand(c)
                    \/ \E op \in {"enable", "disable", "daemon"} : Begin(c, op)

ControlSpec == ControlInit /\ [][ControlNext]_vars

(* Every process is scheduled; that a command is typed, or a process       *)
(* killed, is nobody's duty.                                               *)
FairControl == /\ ControlSpec
               /\ \A p \in Pid : WF_vars(DaemonStep(p))
               /\ \A c \in Ctl : WF_vars(CommandStep(c))

----------------------------------------------------------------------------
(* util.go:31: at most one daemon is in its loop, where no command was     *)
(* typed before the one before had taken effect.  The lock is a read       *)
(* followed by a write, and two processes remove the file: it takes all    *)
(* of them to keep this.                                                   *)
OneDaemon == overlapped \/ Cardinality({p \in Pid : daemon[p] = "running"}) <= 1

(* The pid file names the daemon that runs, or `disable` and `status`      *)
(* cannot find it.                                                         *)
PidFileNamesDaemon ==
  Settled /\ ~overlapped => \A p \in Pid : daemon[p] = "running" => pidfile = p

(* However the commands overlap: where all daemons that stopped were told  *)
(* to, and had devices, no pid file outlives its daemon, to name a         *)
(* stranger later.                                                         *)
NoStalePidFile ==
  Settled /\ deaths = 0 /\ bare = {} /\ pidfile # NoFile =>
    \E p \in Pid : pidfile = p /\ daemon[p] = "running"

(* enable.go:41: once `disable` has persisted enabled=no, and all          *)
(* processes have come to rest, no daemon is left in its loop.             *)
DisabledIsStopped ==
  Settled /\ ~overlapped /\ config.text = "whole" /\ ~config.enabled =>
    \A p \in Pid : daemon[p] # "running"

(* enable.go:86-87 "preserving all other lines and comments": the owner's  *)
(* settings outlast commands and daemons that overlap, unless a command    *)
(* reads the file between the truncation and the write of another, or is   *)
(* killed there; and a daemon without devices has read it there.           *)
SettingsSurvive ==
  /\ ~raced /\ (\A c \in Ctl : ctl[c].at # "write") => config.settings
  /\ ~overlapped => bare = {}

(* enable.go:11: once nothing is killed any more, `enable` leaves a daemon *)
(* running where there are settings for one, also when a killed daemon has *)
(* left its pid file behind.                                               *)
EnableStartsDaemon ==
  \A c \in Ctl :
    At(c, "enable", "read") /\ deaths = MaxDeaths /\ config.settings
      ~> overlapped \/ \E p \in Pid : daemon[p] = "running"
=============================================================================
