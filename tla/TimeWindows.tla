---------------------------- MODULE TimeWindows -----------------------------
(***************************************************************************)
(* The timetables of config.go: daily windows that may cross midnight,     *)
(* the check that refuses overlapping ones when the configuration is       *)
(* loaded, and the decision SleepAllowed takes from them at every tick.    *)
(* A window is parsed (parseHHMM, parseWindows) into two times of day.     *)
(***************************************************************************)
EXTENDS Naturals, Sequences

CONSTANTS
  Hours,       \* hours of a day
  HourLength,  \* minutes of an hour
  Day,         \* minutes of a day
  MaxWindows   \* the longest active-timetable considered

ASSUME TimeAssumption ==
  /\ Hours \in Nat \ {0} /\ HourLength \in Nat \ {0}
  /\ Day \in Nat /\ Day = Hours * HourLength
  /\ MaxWindows \in Nat

VARIABLES
  activity,   \* Activity, the legacy list of hour windows
  timetable,  \* ActiveTimetable, the list of minute windows
  status,     \* the configuration is "parsed", then "running" or "refused"; what
              \* else Startup knows of a process
  hour,       \* the wall clock
  minute

timeVars == <<activity, timetable, status, hour, minute>>

Window == [start : 0 .. Hours - 1, end : 0 .. Hours - 1]
MinWindow == [start : 0 .. Day - 1, end : 0 .. Day - 1]

-----------------------------------------------------------------------------
(* Window.Active and MinWindow.Active. *)
Active(w, t) ==
  IF w.start <= w.end THEN w.start <= t /\ t < w.end
                      ELSE w.start <= t \/ t < w.end

inAnyMinWindow(ws, m) == \E i \in DOMAIN ws : Active(ws[i], m)

InWindow(h) == \E i \in DOMAIN activity : Active(activity[i], h)

minOfDay == hour * HourLength + minute

(* Wrong: a new timetable is added to the legacy one. *)
SleepAllowedMerging ==
  ~inAnyMinWindow(timetable, minOfDay) /\ ~InWindow(hour)

SleepAllowed ==
  IF timetable # <<>> THEN ~inAnyMinWindow(timetable, minOfDay)
                      ELSE ~InWindow(hour)

(* Wrong: a window across midnight is not split. *)
SegmentsUnsplit(w) == {[s |-> w.start, e |-> w.end]}

(* The pieces of a window that do not cross midnight. *)
Segments(w) ==
  IF w.start <= w.end
    THEN {[s |-> w.start, e |-> w.end]}
    ELSE {[s |-> w.start, e |-> Day], [s |-> 0, e |-> w.end]}

(* Wrong: windows that only touch are taken to overlap. *)
OverlapTouching(a, b) == a.s <= b.e /\ b.s <= a.e

Overlap(a, b) == a.s < b.e /\ b.s < a.e

(* Every segment is compared with every other one. *)
validateNoOverlap(ws) ==
  \A i, j \in DOMAIN ws : \A a \in Segments(ws[i]), b \in Segments(ws[j]) :
    Overlap(a, b) => i = j /\ a = b

-----------------------------------------------------------------------------
Lists(S, n) == UNION {[1 .. k -> S] : k \in 0 .. n}

TimeInit ==
  /\ activity \in Lists(Window, 1)
  /\ timetable \in Lists(MinWindow, MaxWindows)
  /\ status = "parsed"
  /\ hour = 0 /\ minute = 0

(* validateConfig: the daemon runs, or does not start at all. *)
ValidateConfig ==
  /\ status = "parsed"
  /\ status' = IF validateNoOverlap(timetable) THEN "running" ELSE "refused"
  /\ UNCHANGED <<activity, timetable, hour, minute>>

(* The clock, round and round. *)
NextMinute ==
  /\ minute' = (minute + 1) % HourLength
  /\ hour' = IF minute' = 0 THEN (hour + 1) % Hours ELSE hour
  /\ UNCHANGED <<activity, timetable, status>>

TimeNext == ValidateConfig \/ NextMinute

TimeSpec == TimeInit /\ [][TimeNext]_timeVars

-----------------------------------------------------------------------------
(* What a window means: the times met on the way from its start to its     *)
(* end, on a clock with n times.                                           *)
Span(w, n) == {(w.start + k) % n : k \in {k \in 0 .. n - 1 : k < (w.end + n - w.start) % n}}

(* SleepAllowed at every minute of the clock: sleep is refused exactly on  *)
(* the way from the start to the end of a window in force, whether the     *)
(* windows are given in minutes or, without such, in hours.                *)
SleepRefusedInWindows ==
  LET inForce == IF timetable # <<>>
                   THEN {timetable[i] : i \in DOMAIN timetable}
                   ELSE {[start |-> activity[i].start * HourLength,
                          end |-> activity[i].end * HourLength] : i \in DOMAIN activity}
  IN SleepAllowed <=> \A w \in inForce : minOfDay \notin Span(w, Day)
=============================================================================
