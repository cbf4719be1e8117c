----------------------------- MODULE MCStartup ------------------------------
(* Files and hosts for Startup: timetables of up to two windows, short     *)
(* files of every kind of line, and disks in several roles.                *)
EXTENDS Startup

MCDisk == {"sda", "sdb", "nvme0n1", "sdas", "sdp"}
MCLettered == MCDisk \ {"nvme0n1"}
MCShortened == [d \in {"sdas", "sdp"} |-> IF d = "sdas" THEN "sda" ELSE "sd"]

Part(d, part) == [disk |-> d, part |-> part, dressed |-> TRUE]
OwnerWrites(d, part) == [disk |-> d, part |-> part, dressed |-> FALSE]

NoDevices == [c \in Range(Classes) |-> {}]
Host(p1, p2, boot, bootPool) == [pools |-> [q \in Pool |-> IF q = "p1" THEN p1 ELSE p2],
                                 boot |-> boot, bootPool |-> bootPool, free |-> {},
                                 answered |-> Pool, bootKnown |-> TRUE]
DiskLess == Host(NoDevices, NoDevices, {}, NoPool)
OneDisk == Host([NoDevices EXCEPT !.data = {Part("sda", "bare1")}], NoDevices, {}, NoPool)

-----------------------------------------------------------------------------
TimeTexts ==
  {<<Line("activity", a), Line("active-timetable", t)>> :
     a \in Lists(Window, 1), t \in Lists(MinWindow, 1)}
  \cup {<<Line("active-timetable", t)>> : t \in Lists(MinWindow, MaxWindows)}

SomeLines == {Enabled(TRUE), Enabled(FALSE), BadLine("enabled"), Comment,
              Line("pools", {"p1"})}
MoreLines == {Line("export-pools", {"p1"}),
              Line("hd", {OwnerWrites("sda", "none")}), Line("wait", 0), BadLine("wait"),
              BadLine("activity"), BadLine("nonsense"), Line("pools", {}),
              Line("export-timetable", <<[start |-> 4, end |-> 1], [start |-> 0, end |-> 2]>>)}
LineTexts == Lists(SomeLines, 3) \cup Lists(SomeLines \cup MoreLines, 2)

-----------------------------------------------------------------------------
Mixed == Host([NoDevices EXCEPT !.data = {Part("sda", "bare1")},
                                !.logs = {Part("nvme0n1", "mark1")},
                                !.spares = {Part("sdb", "bare1")}],
              [NoDevices EXCEPT !.data = {Part("nvme0n1", "mark1")}, !.spares = {Part("sdb", "bare1")}],
              {}, NoPool)
Rooted == Host([NoDevices EXCEPT !.data = {Part("sda", "bare1"), Part("sdb", "bare2")},
                                 !.cache = {Part("nvme0n1", "mark1")}],
               [NoDevices EXCEPT !.data = {Part("sda", "bare2")}], {}, "p2")
Booted == Host([NoDevices EXCEPT !.data = {Part("sdb", "none")}, !.dedup = {Part("sda", "bare1")}],
               [NoDevices EXCEPT !.data = {Part("nvme0n1", "mark1")}],
               {OwnerWrites("nvme0n1", "none")}, NoPool)
Many == Host([NoDevices EXCEPT !.data = {Part("sdas", "bare1"), Part("nvme0n1", "mark2")}],
             [NoDevices EXCEPT !.data = {Part("sdp", "bare1")}], {}, NoPool)
(* Hosts that do not answer for the boot pool, or for one pool or both. *)
Silent == {[Rooted EXCEPT !.bootKnown = FALSE], [Rooted EXCEPT !.answered = {"p1"}],
           [Rooted EXCEPT !.answered = {"p2"}], [Mixed EXCEPT !.answered = {}]}

(* Of the disks that a file lists one is in no pool, and one is not there. *)
Spread == [OneDisk EXCEPT !.free = {"sdb"}]
SpreadText == <<Line("disks", {OwnerWrites("sdb", "none"), OwnerWrites("nvme0n1", "none")}),
                Line("pools", {"p1"})>>

w1 == [start |-> 4, end |-> 1]
w2 == [start |-> 2, end |-> 3]
PoolWindows == {<<>>, <<[pool |-> "p1", windows |-> <<>>]>>,
                <<[pool |-> "p1", windows |-> <<w1>>]>>,
                <<[pool |-> "p1", windows |-> <<w1>>], [pool |-> "p1", windows |-> <<w2>>]>>,
                <<[pool |-> "p1", windows |-> <<w1, [start |-> 0, end |-> 2]>>]>>}
DeviceText(d, e, q, pw) ==
  <<Line("active-timetable", <<w2>>), Line("disks", d), Line("exclude", e), Line("pools", q),
    Line("pool-window", pw)>>
DeviceTexts ==
  {DeviceText(d, e, q, <<>>) :
     d \in {{}, {OwnerWrites("sdb", "bare1")}},
     e \in {{}, {Part("sda", "bare2")}, {OwnerWrites("nvme0n1", "mark1")}},
     q \in {{}, {"p1"}, {"p1", "p2"}}}
  \cup {DeviceText({}, {}, q, pw) : q \in {{}, {"p1"}, {"p1", "p2"}}, pw \in PoolWindows}
SilentTexts ==
  {DeviceText(d, {}, q, <<>>) : d \in {{}, {OwnerWrites("sdb", "bare1")}},
                                q \in {{}, {"p1"}, {"p1", "p2"}}}

Case(f, t, h) == [file |-> f, text |-> t, host |-> h]
MCCases ==
  {Case("written", t, DiskLess) : t \in TimeTexts}
  \cup {Case("written", t, OneDisk) : t \in LineTexts}
  \cup {Case("written", t, h) : t \in DeviceTexts, h \in {Mixed, Rooted, Booted, Many}}
  \cup {Case("written", t, h) : t \in SilentTexts, h \in Silent}
  \cup {Case("missing", <<>>, OneDisk), Case("written", SpreadText, Spread)}

(* A pool of one disk, the sixteenth of its host. *)
ManyDisksCases ==
  {Case("written", <<Line("pools", {"p2"})>>, Many), Case("written", <<Line("pools", {"p1", "p2"})>>, Many)}
=============================================================================
