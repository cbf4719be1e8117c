------------------------------- MODULE Startup -------------------------------
(***************************************************************************)
(* From the configuration file to the disks that are spun down: enable and *)
(* disable edit the file (enable.go), every command loads it (config.go),  *)
(* the daemon resolves the disks it manages and the window of each         *)
(* (daemon.go, util.go), samples their I/O and spins them down; sleepnow   *)
(* and sleeppool (oneshot.go, pool.go) spin down what they are given,      *)
(* unless it is in the never-sleep set.                                    *)
(*                                                                         *)
(* The file is read at start only, and a command that edits it runs        *)
(* between two starts here; Control has them at once.                      *)
(***************************************************************************)
EXTENDS ConfigFile, DeviceNames, Integers

CONSTANTS
  Pool,    \* the pools of a host
  NoPool,  \* no pool: of a free disk, or no pool to boot from
  Cases    \* the files and hosts considered: file, text, host

(* The lines there are: what a key's text may denote, or no more than that *)
(* it is bad.  "nonsense" stands for every key there is not.               *)
Lines ==
  [key : {"enabled"}, value : BOOLEAN]
    \cup [key : {"wait"}, value : Int]
    \cup [key : {"disks", "hd", "exclude"}, value : SUBSET Name]
    \cup [key : {"pools", "export-pools"}, value : SUBSET Pool]
    \cup [key : {"activity"}, value : Seq(Window)]
    \cup [key : {"active-timetable", "export-timetable"}, value : Seq(MinWindow)]
    \cup [key : {"pool-window"}, value : Seq([pool : Pool, windows : Seq(MinWindow)])]
    \cup [key : Keys \cup {"hd", "#", "nonsense"}]

(* A query may fail: that of the boot pool, or zpool status of a pool that *)
(* does not answer.  Processes share nothing but the file, so it is enough *)
(* that a host answers all of them alike; in Daemon its answers change.    *)
Hosts == [pools : [Pool -> [Range(Classes) -> SUBSET Name]], answered : SUBSET Pool,
          boot : SUBSET Name, bootPool : Pool \cup {NoPool}, bootKnown : BOOLEAN,
          free : SUBSET Disk]

ASSUME StartAssumption ==
  /\ NoPool \notin Pool /\ DefaultWait \in Int
  /\ \A c \in Cases : /\ c.file \in {"written", "missing"}
                      /\ c.text \in Seq(Lines) /\ c.host \in Hosts

VARIABLES
  text,     \* the configuration file
  file,     \* it was "written" by the owner, is "missing", or was "created"
  asked,    \* the last of enable ("yes") and disable ("no"), or "none"
  cfg,      \* Config, as loaded
  host,     \* its pools, its boot disks, its boot pool, its disks outside the
            \* pools, and the queries it answers
  managed,  \* devices
  owner,    \* devicePool
  report,   \* what the last step sampled: the disks with I/O, and what was seen
  slept     \* the names the last step gave a standby command

startVars == <<activity, timetable, status, hour, minute,
               text, file, asked, cfg, host, managed, owner, report, slept>>

clock == <<hour, minute>>
config == <<activity, timetable, cfg>>
devices == <<managed, owner>>

NoReport == [busy |-> {}, sampled |-> {}, active |-> {}]
NoEffect == report' = NoReport /\ slept' = {}

(* Bound: samples and commands leave nothing but these traces, and start   *)
(* from a state without the traces of another.                             *)
Fresh == report = NoReport /\ slept = {}

StartInit ==
  /\ \E c \in Cases : file = c.file /\ text = c.text /\ host = c.host
  /\ asked = "none"
  /\ cfg = defaultConfig /\ activity = <<>> /\ timetable = <<>>
  /\ status = "stopped"
  /\ hour = 0 /\ minute = 0
  /\ managed = {} /\ owner = <<>>
  /\ report = NoReport /\ slept = {}

-----------------------------------------------------------------------------
Loaded == status \in {"running", "disabled", "nothing", "managing"}

(* A missing file is created with the defaults, by every command. *)
Existing == IF file = "missing" THEN marshalConfig(defaultConfig) ELSE text
OnceRead == IF file = "missing" THEN "created" ELSE file

(* Wrong: a file that does not load is edited all the same. *)
EditAnyway(on) ==
  /\ status = "stopped"
  /\ text' = setEnabledInFile(Existing, on)
  /\ file' = OnceRead
  /\ asked' = IF on THEN "yes" ELSE "no"
  /\ NoEffect
  /\ UNCHANGED <<config, status, clock, host, devices>>

(* enable and disable change nothing in a file that does not load. *)
Edit(on) ==
  /\ status = "stopped"
  /\ Loads(Existing)
  /\ text' = setEnabledInFile(Existing, on)
  /\ file' = OnceRead
  /\ asked' = IF on THEN "yes" ELSE "no"
  /\ NoEffect
  /\ UNCHANGED <<config, status, clock, host, devices>>

Load ==
  /\ status = "stopped"
  /\ text' = Existing /\ file' = OnceRead
  /\ LET c == parseConfig(Existing)
     IN  /\ status' = IF c.ok THEN "parsed" ELSE "unreadable"
         /\ cfg' = IF c.ok THEN c.cfg ELSE cfg
  /\ activity' = cfg'["activity"] /\ timetable' = cfg'["active-timetable"]
  /\ NoEffect
  /\ UNCHANGED <<clock, asked, host, devices>>

Validate ==
  /\ status = "parsed"
  /\ IF Consistent(cfg)
       THEN ValidateConfig
       ELSE status' = "inconsistent" /\ UNCHANGED <<activity, timetable, clock>>
  /\ NoEffect
  /\ UNCHANGED <<text, file, asked, cfg, host, devices>>

(* The process ends; another one will load the file again. *)
Exit ==
  /\ status # "stopped" /\ status' = "stopped"
  /\ cfg' = defaultConfig /\ activity' = <<>> /\ timetable' = <<>>
  /\ managed' = {} /\ owner' = <<>>
  /\ NoEffect
  /\ UNCHANGED <<clock, text, file, asked, host>>

-----------------------------------------------------------------------------
(* DisksOfPoolSafe: a pool that does not answer is skipped. *)
PoolDisks(q) == IF q \in host.answered THEN DisksOfPool(host.pools[q]) ELSE {}

BootPool == IF host.bootKnown THEN host.bootPool ELSE NoPool
BootPoolDisks == IF BootPool = NoPool THEN {} ELSE PoolDisks(BootPool)

Normalized(names) == {Normalize(n) : n \in names}

neverSleepSet == Normalized(cfg.exclude) \cup Normalized(host.boot) \cup BootPoolDisks

guardDevice(n) == Normalize(n) \notin neverSleepSet
(* Both guards fail open: what is not known is not protected. *)
guardBootPool(q) == q # BootPool

managedDevices ==
  (Normalized(cfg.disks) \cup UNION {PoolDisks(q) : q \in cfg.pools}) \ neverSleepSet

(* A disk of several pools is given the one that `pools' names last. *)
devicePoolMap ==
  {m \in [managedDevices -> Pool \cup {NoPool}] :
     \A d \in managedDevices :
       LET of == {q \in cfg.pools : d \in PoolDisks(q)}
       IN  m[d] \in (IF of = {} THEN {NoPool} ELSE of)}

(* The daemon starts: it has to be enabled and to have something to do. *)
Resolve ==
  /\ status = "running"
  /\ status' = IF ~cfg.enabled THEN "disabled"
               ELSE IF managedDevices = {} THEN "nothing" ELSE "managing"
  /\ IF status' = "managing"
       THEN managed' = managedDevices /\ owner' \in devicePoolMap
       ELSE UNCHANGED devices
  /\ NoEffect
  /\ UNCHANGED <<config, clock, text, file, asked, host>>

(* Wrong: a pool whose own timetable is empty is taken to have none. *)
AllowSleepNonEmpty(d) ==
  IF owner[d] \in DOMAIN cfg["pool-window"] /\ cfg["pool-window"][owner[d]] # <<>>
    THEN ~inAnyMinWindow(cfg["pool-window"][owner[d]], minOfDay)
    ELSE SleepAllowed

AllowSleep(d) ==
  IF owner[d] \in DOMAIN cfg["pool-window"]
    THEN ~inAnyMinWindow(cfg["pool-window"][owner[d]], minOfDay)
    ELSE SleepAllowed

Tick ==
  /\ Loaded
  /\ NextMinute
  /\ NoEffect
  /\ UNCHANGED <<cfg, text, file, asked, host, devices>>

-----------------------------------------------------------------------------
HostDisks ==
  host.free
    \cup {n.disk : n \in (UNION {host.pools[q][c] : q \in Pool, c \in Range(Classes)}) \cup host.boot}

CounterOf(n, disks) == [name |-> n, busy |-> n.disk \in disks]

Counted(seen, busy) ==
  /\ status = "managing" /\ Fresh
  /\ report' = [busy |-> busy, sampled |-> seen.sampled, active |-> managed \cap seen.active]
  /\ slept' = {}
  /\ UNCHANGED <<config, status, clock, text, file, asked, host, devices>>

(* The totals of each disk, followed by those of one of its partitions,    *)
(* through which the I/O went or not.                                      *)
LinuxSample(busy, through) ==
  LET disks == SetToSeq(HostDisks)
      part(d) == [Whole(d) EXCEPT !.part = IF d \in Lettered THEN "bare1" ELSE "mark1"]
  IN  Counted(linuxSample(FlattenSeq([i \in DOMAIN disks |->
                <<CounterOf(Whole(disks[i]), busy), CounterOf(part(disks[i]), through)>>])),
              busy)

(* Two reports, the first of them since boot. *)
IostatSample(sinceBoot, busy) ==
  LET disks == SetToSeq(HostDisks)
      rates(b) == [i \in DOMAIN disks |-> CounterOf(Whole(disks[i]), b)]
  IN  Counted(iostatSample(rates(sinceBoot), rates(busy)), busy)

Command(names) ==
  /\ Fresh
  /\ slept' = names
  /\ report' = NoReport
  /\ UNCHANGED <<config, status, clock, text, file, asked, host, devices>>

DaemonSleep(n) ==
  /\ status = "managing" /\ n \in managed
  /\ AllowSleep(n)
  /\ Command({n})

(* Wrong: the name is looked for as it was typed. *)
SleepNowAsTyped(n) ==
  /\ Loaded
  /\ n \notin neverSleepSet
  /\ Command({n})

SleepNow(n) ==
  /\ Loaded
  /\ guardDevice(n)
  /\ Command({n})

SleepPool(q) ==
  /\ Loaded
  /\ guardBootPool(q) /\ q \in host.answered
  /\ Command(PoolDisks(q) \ neverSleepSet)

StartNext ==
  \/ \E on \in BOOLEAN : Edit(on)
  \/ Load \/ Validate \/ Resolve \/ Exit \/ Tick
  \/ \E busy \in SUBSET HostDisks :
       \/ \E through \in {{}, busy} : LinuxSample(busy, through)
       \/ \E sinceBoot \in {{}, HostDisks} : IostatSample(sinceBoot, busy)
  \/ \E n \in managed : DaemonSleep(n)
  \/ \E n \in Name : n.disk \in HostDisks /\ SleepNow(n)
  \/ \E q \in Pool : SleepPool(q)

StartSpec == StartInit /\ [][StartNext]_startVars

-----------------------------------------------------------------------------
StartTypeOK ==
  /\ status \in {"stopped", "unreadable", "inconsistent", "parsed", "refused"} \/ Loaded
  /\ hour \in 0 .. Hours - 1 /\ minute \in 0 .. HourLength - 1
  /\ file \in {"written", "missing", "created"} /\ asked \in {"none", "yes", "no"}
  /\ DOMAIN cfg = Keys /\ cfg.enabled \in BOOLEAN
  /\ activity = cfg["activity"] /\ timetable = cfg["active-timetable"]
  /\ \A d \in managed : d.part \in {"none", "mark2"} /\ ~d.dressed
  /\ DOMAIN owner = managed /\ \A d \in managed : owner[d] \in Pool \cup {NoPool}
  /\ report.active \subseteq managed

(* enable.go:86-87 "preserving all other lines and comments": enable and   *)
(* disable leave every line but those of `enabled' as and where it was,    *)
(* and write a new one of these behind them at most; no other step writes  *)
(* to a file that exists.                                                  *)
SameOtherLines(old, new) ==
  /\ Len(new) \in {Len(old), Len(old) + 1}
  /\ \A i \in DOMAIN new : IF i \in DOMAIN old /\ old[i].key # "enabled"
                            THEN new[i] = old[i] ELSE new[i].key = "enabled"
EditsKeepTheRest ==
  [][ file # "missing" => SameOtherLines(text, text') /\ (asked' = asked => text' = text)
    ]_startVars

(* What enable and disable leave behind still loads, with what the last of *)
(* them asked for, whatever followed it, so the daemon of a disabled file  *)
(* never comes to manage a disk; and a file the program created says       *)
(* otherwise what it takes for granted without one.  Of a file with        *)
(* several `enabled' lines the first is not true: the first line is        *)
(* edited, the last one counts.                                            *)
AskedIsLoaded ==
  /\ asked # "none" /\ (\E i \in DOMAIN text :
                         {j \in DOMAIN text : text[j].key = "enabled" /\ ~Bad(text[j])} = {i})
     => /\ Loads(text) /\ parseConfig(text).cfg.enabled = (asked = "yes")
        /\ status # (IF asked = "yes" THEN "disabled" ELSE "managing")
  /\ file = "created" =>
       parseConfig(text) = [ok |-> TRUE, cfg |-> [defaultConfig EXCEPT !.enabled = (asked # "no")]]

(* config.go:293-294 "a referenced pool might be declared on a later line  *)
(* than the field referencing it": neither whether a file loads nor what   *)
(* is loaded depends on the order of lines with different keys.            *)
LineOrderIsFree ==
  \A i \in 1 .. Len(text) - 1 :
    KeyOf(text[i]) # KeyOf(text[i + 1]) =>
      LET swapped == parseConfig([text EXCEPT ![i] = text[i + 1], ![i + 1] = text[i]])
          asIs == parseConfig(text)
      IN  swapped.ok = asIs.ok /\ (asIs.ok => swapped.cfg = asIs.cfg)

(* The disks no command may spin down: those of `exclude', those the       *)
(* system was booted from, and the data disks and spares of the pool it    *)
(* was booted from, as far as zpool answers, by whatever partition and in  *)
(* whatever spelling they are known.                                       *)
DisksOf(names) == {n.disk : n \in names}
DataOf(q) == IF q \in host.answered THEN host.pools[q].data \cup host.pools[q].spares ELSE {}
Protected ==
  DisksOf(cfg.exclude \cup host.boot)
    \cup (IF BootPool = NoPool THEN {} ELSE DisksOf(DataOf(BootPool)))
AllNames == cfg.disks \cup cfg.exclude \cup host.boot \cup UNION {DataOf(q) : q \in Pool}

(* README.md:297-300: they "are never spun down", "in addition to          *)
(* everything listed in `exclude`", by the daemon, sleepnow or sleeppool,  *)
(* where the names are of the kinds Normalize was written for.  It is not  *)
(* true of the boot pool of a host that does not answer for it.            *)
ProtectedNeverSlept ==
  AllNames \cup slept \subseteq Regular => DisksOf(slept) \cap Protected = {}

(* The daemon manages each disk of `disks' and each data disk or spare of  *)
(* a pool of `pools' that answers, under its own name, except the          *)
(* protected; and no disk that is only a log, cache, special or dedup      *)
(* device of its pools.  With one that does not answer it starts without   *)
(* its disks, or not at all when there are no others.                      *)
Wanted == DisksOf(cfg.disks \cup UNION {DataOf(q) : q \in cfg.pools}) \ Protected
PoolDisksAreManaged == status = "managing" => managed = {Whole(d) : d \in Wanted}
RegularDisksAreManaged ==
  /\ AllNames \subseteq Regular => PoolDisksAreManaged
  /\ status = "nothing" /\ AllNames \subseteq Regular => Wanted = {}

(* A sample shows the I/O of each managed disk that had some, through a    *)
(* partition or not, and of no other: neither a partition's counter nor    *)
(* the report since boot stands for the disk, and each managed name of a   *)
(* disk the host has is one the sampler has a counter for.                 *)
BusyDiskIsSeen ==
  AllNames \subseteq Regular /\ report # NoReport =>
    /\ {d \in managed : d.disk \in HostDisks} \subseteq report.sampled
    /\ report.active = {d \in managed : d.disk \in report.busy}

(* config.go:60-65: the window list of its own pool decides about a disk,  *)
(* also when it is empty, and the global one about any other disk.  A disk *)
(* of several pools follows one of them.                                   *)
OwnWindowDecides ==
  status = "managing" /\ AllNames \subseteq Regular =>
    \A d \in managed :
      LET of == {q \in cfg.pools : d.disk \in DisksOf(DataOf(q))}
      IN  \E q \in IF of = {} THEN {NoPool} ELSE of :
            AllowSleep(d) <=>
              IF q \in DOMAIN cfg["pool-window"]
                THEN \A i \in DOMAIN cfg["pool-window"][q] :
                       minOfDay \notin Span(cfg["pool-window"][q][i], Day)
                ELSE SleepAllowed

(* The timetables of a file: of the host, of the exports, of each pool. *)
Timetables ==
  {cfg["active-timetable"], cfg["export-timetable"]}
    \cup {cfg["pool-window"][q] : q \in DOMAIN cfg["pool-window"]}

(* config.go:326 "rejects a window list containing two windows that        *)
(* overlap", config.go:296-298 "no matter what wrote the file": nothing    *)
(* runs with a timetable, of the host, of the exports or of a pool, two    *)
(* windows of which share a time of the day, across midnight too.          *)
LoadedAreDisjoint ==
  Loaded =>
    \A ws \in Timetables : \A i, j \in DOMAIN ws :
      Span(ws[i], Day) \cap Span(ws[j], Day) # {} => i = j

(* The converse: a file of which every line can be read is refused only    *)
(* when two windows of one timetable share a time, or an empty one         *)
(* (start = end) lies within another, or when it names a pool for exports  *)
(* or windows that is not one of `pools'.                                  *)
Collide(v, w) ==
  \/ Span(v, Day) \cap Span(w, Day) # {}
  \/ v.start = v.end /\ v.start \in Span(w, Day) \ {w.start}
RefusedForAReason ==
  status \in {"refused", "inconsistent"} =>
    \/ \E ws \in Timetables : \E i, j \in DOMAIN ws : i # j /\ Collide(ws[i], ws[j])
    \/ ~(cfg["export-pools"] \cup DOMAIN cfg["pool-window"] \subseteq cfg.pools)
=============================================================================
