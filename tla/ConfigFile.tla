----------------------------- MODULE ConfigFile -----------------------------
(***************************************************************************)
(* The configuration file as text (config.go, enable.go): a sequence of    *)
(* lines, each a key with a value, a comment, or neither.                  *)
(*                                                                         *)
(* Keys that are handled alike are represented by one: `wait' stands for   *)
(* all numbers.  A line's value is what its text denotes; a bad line's     *)
(* text denotes no value of its key, or no key at all.                     *)
(***************************************************************************)
EXTENDS TimeWindows, FiniteSets, SequencesExt

CONSTANT DefaultWait

ListKeys == {"disks", "exclude", "pools", "export-pools"}
TimetableKeys == {"activity", "active-timetable", "export-timetable", "pool-window"}
Listed == <<"enabled", "disks", "exclude", "pools", "activity", "active-timetable", "wait",
            "export-pools", "export-timetable", "pool-window">>
Keys == Range(Listed)

Line(key, value) == [key |-> key, value |-> value]
BadLine(key) == [key |-> key]
Comment == BadLine("#")

defaultConfig ==
  [k \in Keys |-> CASE k = "enabled"  -> TRUE
                    [] k = "wait"     -> DefaultWait
                    [] k \in ListKeys -> {}
                    [] OTHER          -> <<>>]

-----------------------------------------------------------------------------
(* `hd' is the old name of `disks'. *)
Bad(l) == DOMAIN l = {"key"}
KeyOf(l) == IF l.key = "hd" THEN "disks" ELSE l.key

(* "pool:windows;pool:windows": the last entry of a pool counts. *)
parsePoolWindows(entries) ==
  [q \in {entries[i].pool : i \in DOMAIN entries} |->
     entries[CHOOSE i \in DOMAIN entries :
               /\ entries[i].pool = q
               /\ \A j \in DOMAIN entries : entries[j].pool = q => j <= i].windows]

(* Wrong: the pools of export-pools are looked for in the lines above. *)
ParseLineAtOnce(c, l) ==
  LET k == KeyOf(l)
  IN  IF k = "#" \/ ~c.ok THEN c
      ELSE IF k \notin Keys \/ (k \in TimetableKeys /\ Bad(l)) THEN [c EXCEPT !.ok = FALSE]
      ELSE IF Bad(l) THEN c
      ELSE IF k = "export-pools" /\ ~(l.value \subseteq c.cfg.pools) THEN [c EXCEPT !.ok = FALSE]
      ELSE [c EXCEPT !.cfg[k] = IF k = "pool-window" THEN parsePoolWindows(l.value) ELSE l.value]

(* An unknown key, a line without "=", or a timetable that cannot be read  *)
(* refuses the file; a bad truth value or number leaves what was there.    *)
ParseLine(c, l) ==
  LET k == KeyOf(l)
  IN  IF k = "#" \/ ~c.ok THEN c
      ELSE IF k \notin Keys \/ (k \in TimetableKeys /\ Bad(l)) THEN [c EXCEPT !.ok = FALSE]
      ELSE IF Bad(l) THEN c
      ELSE [c EXCEPT !.cfg[k] = IF k = "pool-window" THEN parsePoolWindows(l.value) ELSE l.value]

parseConfig(text) == FoldLeft(ParseLine, [ok |-> TRUE, cfg |-> defaultConfig], text)

(* Wrong: the windows of the pools are taken as they are. *)
ConsistentUnchecked(cfg) ==
  /\ validateNoOverlap(cfg["export-timetable"])
  /\ cfg["export-pools"] \cup DOMAIN cfg["pool-window"] \subseteq cfg.pools

(* What validateConfig asks of everything but the active timetable. *)
Consistent(cfg) ==
  /\ validateNoOverlap(cfg["export-timetable"])
  /\ cfg["export-pools"] \subseteq cfg.pools
  /\ \A q \in DOMAIN cfg["pool-window"] :
       q \in cfg.pools /\ validateNoOverlap(cfg["pool-window"][q])

Loads(text) ==
  LET c == parseConfig(text)
  IN  c.ok /\ Consistent(c.cfg) /\ validateNoOverlap(c.cfg["active-timetable"])

-----------------------------------------------------------------------------
Enabled(on) == Line("enabled", on)

(* Wrong: the comments are lost, and every `enabled' line is replaced. *)
setEnabledInFileDropping(text, on) ==
  LET places == {i \in DOMAIN text : text[i].key = "enabled"}
  IN  IF places = {} THEN Append(SelectSeq(text, LAMBDA l : l.key # "#"), Enabled(on))
      ELSE [i \in DOMAIN text |-> IF i \in places THEN Enabled(on) ELSE text[i]]

(* The first `enabled' line is replaced; without one it is appended. *)
setEnabledInFile(text, on) ==
  LET places == {i \in DOMAIN text : text[i].key = "enabled"}
      first  == CHOOSE i \in places : \A j \in places : i <= j
  IN  IF places = {} THEN Append(text, Enabled(on)) ELSE [text EXCEPT ![first] = Enabled(on)]

Written(cfg, k) ==
  Line(k, IF k = "pool-window"
            THEN SetToSeq({[pool |-> q, windows |-> cfg[k][q]] : q \in DOMAIN cfg[k]})
            ELSE cfg[k])

(* Wrong: an empty timetable is written as a word. *)
marshalConfigWords(cfg) ==
  <<Comment>> \o [i \in DOMAIN Listed |->
    IF Listed[i] \in TimetableKeys /\ cfg[Listed[i]] = <<>>
      THEN BadLine(Listed[i]) ELSE Written(cfg, Listed[i])]

(* What is written where there is no file: every key, with its value. *)
marshalConfig(cfg) == <<Comment>> \o [i \in DOMAIN Listed |-> Written(cfg, Listed[i])]
=============================================================================
