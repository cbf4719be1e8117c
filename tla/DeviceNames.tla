---------------------------- MODULE DeviceNames -----------------------------
(***************************************************************************)
(* Names of disks and what is read from them: Normalize (sysio.go), the    *)
(* device lines of `zpool status' (zfs.go) and the reports of the samplers *)
(* (sysio_*.go).                                                           *)
(*                                                                         *)
(* A name is a disk, the suffix of one of its partitions, and a dress: the *)
(* device directory and the upper case letters a tool or an owner may      *)
(* write.  The names of Linux's sd, hd, vd and xvd disks end in a letter,  *)
(* which a partition number follows at once ("sdb1", "sdb12"); all others  *)
(* end in a digit, and an s or p stands before the number ("ada0p1",       *)
(* "c2t1d0s2", "nvme0n1p12").                                              *)
(***************************************************************************)
EXTENDS Naturals, Sequences, SequencesExt

CONSTANTS
  Disk,       \* the disks of the host
  Lettered,   \* those whose names end in a letter
  NoDisk,     \* what a name that no disk has stands for
  Shortened   \* the disk that is named when the last letter, a p or an s, of a
              \* lettered disk is cut off: of sdas it is sda, of sdp there is none

ASSUME NamesAssumption ==
  /\ IsFiniteSet(Disk) /\ Lettered \subseteq Disk /\ NoDisk \notin Disk
  /\ DOMAIN Shortened \subseteq Lettered
  /\ \A d \in DOMAIN Shortened : Shortened[d] \in Disk \cup {NoDisk}

Bare == {"bare1", "bare2"}     \* the number alone, of one or two digits
Marked == {"mark1", "mark2"}   \* the number behind an s or a p

PartsOf(d) == {"none"} \cup (IF d \in Lettered THEN Bare ELSE Marked)

Name == UNION {[disk : {d}, part : PartsOf(d), dressed : BOOLEAN] : d \in Disk}

Whole(d) == [disk |-> d, part |-> "none", dressed |-> FALSE]

-----------------------------------------------------------------------------
(* Wrong: partitions are known by their s or p only. *)
NormalizeMarked(n) ==
  IF n.part = "mark1" THEN Whole(n.disk) ELSE [n EXCEPT !.dressed = FALSE]

(* An s or p before one digit is cut off with it, whatever it belongs to:  *)
(* of "sdp1" only "sd" is left, of "sdas1" only "sda".  A number of two    *)
(* digits is cut off where no mark stands before it.                       *)
Normalize(n) ==
  CASE n.part = "bare1" /\ n.disk \in DOMAIN Shortened -> Whole(Shortened[n.disk])
    [] n.part \in Bare \cup {"mark1"} -> Whole(n.disk)
    [] OTHER                          -> [n EXCEPT !.dressed = FALSE]

(* The names for which that gives the whole disk. *)
Regular == {n \in Name : n.part # "mark2" /\ ~(n.part = "bare1" /\ n.disk \in DOMAIN Shortened)}

-----------------------------------------------------------------------------
(* A pool: the devices of each class, as zpool status lists them. *)
FlashClasses == {"dedup", "special", "logs", "cache"}
Classes == <<"data", "dedup", "special", "logs", "cache", "spares">>

(* One row is a class's heading, a vdev that is no device ("mirror-0"), or *)
(* a device.                                                               *)
Heading(class) == [row |-> class]
Leaf(n) == [row |-> "leaf", name |-> n]
Leaves(S) == SetToSeq({Leaf(n) : n \in S})

zpoolStatus(pool) ==
  FlattenSeq([i \in DOMAIN Classes |->
    IF Classes[i] = "data" THEN <<Heading("vdev")>> \o Leaves(pool.data)
    ELSE IF pool[Classes[i]] = {} THEN <<>>
    ELSE <<Heading(Classes[i])>> \o Leaves(pool[Classes[i]])])

(* Wrong: the spares after a flash class are still of that class. *)
ParseRowLeavingSpares(found, r) ==
  CASE r.row \in FlashClasses -> [found EXCEPT !.section = "flash"]
    [] r.row = "leaf"         -> [found EXCEPT ![found.section] = @ \cup {Normalize(r.name)}]
    [] OTHER                  -> found

ParseRow(found, r) ==
  CASE r.row \in FlashClasses -> [found EXCEPT !.section = "flash"]
    [] r.row = "spares"       -> [found EXCEPT !.section = "data"]
    [] r.row = "leaf"         -> [found EXCEPT ![found.section] = @ \cup {Normalize(r.name)}]
    [] OTHER                  -> found

parseZpoolStatus(rows) ==
  FoldLeft(ParseRow, [section |-> "data", data |-> {}, flash |-> {}], rows)

DisksOfPool(pool) == parseZpoolStatus(zpoolStatus(pool)).data

-----------------------------------------------------------------------------
(* One report of a sampler is a sequence of counters, [name, busy]. *)

(* /proc/diskstats lists each disk and then its partitions, whose counters *)
(* are left out: the reader looks for whole disks.                         *)
wholeLinux(n) == n.part = "none"

(* Wrong: of each device the first report stays, the average since boot. *)
CountFirst(seen, c) ==
  LET n == Normalize(c.name)
  IN  IF n \in seen.sampled THEN seen
      ELSE [sampled |-> seen.sampled \cup {n},
            active |-> IF c.busy THEN seen.active \cup {n} ELSE seen.active]

(* iostat prints the average since boot, then the interval: a later        *)
(* counter of a device replaces the earlier one.                           *)
Count(seen, c) ==
  LET n == Normalize(c.name)
  IN  [sampled |-> seen.sampled \cup {n},
       active  |-> IF c.busy THEN seen.active \cup {n} ELSE seen.active \ {n}]

NoCounters == [sampled |-> {}, active |-> {}]
Counters(cs) == FoldLeft(Count, NoCounters, cs)

(* Wrong: the partitions are counted too. *)
linuxSampleAll(cs) == Counters(cs)

CountWhole(seen, c) == IF wholeLinux(c.name) THEN Count(seen, c) ELSE seen

linuxSample(cs) == FoldLeft(CountWhole, NoCounters, cs)
iostatSample(sinceBoot, interval) == Counters(sinceBoot \o interval)
=============================================================================
