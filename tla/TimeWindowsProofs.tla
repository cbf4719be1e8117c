------------------------- MODULE TimeWindowsProofs --------------------------
(***************************************************************************)
(* Proofs about the timetables, for days of any length and timetables of   *)
(* any size.                                                               *)
(***************************************************************************)
EXTENDS TimeWindows, Integers, TLAPS

(* The segments of a window cover exactly the times it is active at: the   *)
(* check and the decision mean the same by a window.                       *)
LEMMA SegmentsCoverWindow ==
  ASSUME NEW w \in MinWindow, NEW m \in 0 .. Day - 1
  PROVE  Active(w, m) <=> \E a \in Segments(w) : a.s <= m /\ m < a.e
<1>1. CASE w.start <= w.end
  <2>1. Active(w, m) <=> (w.start <= m /\ m < w.end)
    BY <1>1 DEF Active
  <2>2. Segments(w) = {[s |-> w.start, e |-> w.end]}
    BY <1>1 DEF Segments
  <2> QED
    BY <2>1, <2>2
<1>2. CASE ~(w.start <= w.end)
  <2>1. w.start \in Nat /\ w.end \in Nat
    BY TimeAssumption DEF MinWindow
  <2>2. 0 <= m /\ m < Day
    BY TimeAssumption
  <2>3. Active(w, m) <=> (w.start <= m \/ m < w.end)
    BY <1>2 DEF Active
  <2>4. Segments(w) = {[s |-> w.start, e |-> Day], [s |-> 0, e |-> w.end]}
    BY <1>2 DEF Segments
  <2> QED
    BY <2>1, <2>2, <2>3, <2>4
<1> QED
  BY <1>1, <1>2

(* What validateNoOverlap accepts has at most one window at any time. *)
LEMMA NoOverlapIsDisjoint ==
  ASSUME NEW ws, \A i \in DOMAIN ws : ws[i] \in MinWindow, validateNoOverlap(ws),
         NEW i \in DOMAIN ws, NEW j \in DOMAIN ws, NEW m \in 0 .. Day - 1,
         Active(ws[i], m), Active(ws[j], m)
  PROVE  i = j
<1>1. PICK a \in Segments(ws[i]) : a.s <= m /\ m < a.e
  BY SegmentsCoverWindow
<1>2. PICK b \in Segments(ws[j]) : b.s <= m /\ m < b.e
  BY SegmentsCoverWindow
<1>3. a.s \in Nat /\ a.e \in Nat /\ b.s \in Nat /\ b.e \in Nat
  BY TimeAssumption DEF Segments, MinWindow
<1>4. Overlap(a, b)
  BY <1>1, <1>2, <1>3 DEF Overlap
<1> QED
  BY <1>4 DEF validateNoOverlap

(* What it refuses has two windows that are active at the same time, or an *)
(* empty one within another.                                               *)
LEMMA RefusedIsShared ==
  ASSUME NEW ws, \A i \in DOMAIN ws : ws[i] \in MinWindow, ~validateNoOverlap(ws)
  PROVE  \E i, j \in DOMAIN ws :
           /\ i # j
           /\ \/ \E m \in 0 .. Day - 1 : Active(ws[i], m) /\ Active(ws[j], m)
              \/ ws[i].start = ws[i].end /\ ws[i].start # ws[j].start /\ Active(ws[j], ws[i].start)
<1>0. PICK i \in DOMAIN ws, j \in DOMAIN ws :
        \E a \in Segments(ws[i]), b \in Segments(ws[j]) : Overlap(a, b) /\ ~(i = j /\ a = b)
  BY DEF validateNoOverlap
<1>1. PICK a \in Segments(ws[i]), b \in Segments(ws[j]) : Overlap(a, b) /\ ~(i = j /\ a = b)
  BY <1>0
<1>2. /\ a.s \in Nat /\ a.e \in 0 .. Day /\ b.s \in Nat /\ b.e \in 0 .. Day /\ Day \in Nat
      /\ a.s < b.e /\ b.s < a.e
  BY <1>1, TimeAssumption DEF Segments, MinWindow, Overlap
<1>3. i # j
  <2>1. ASSUME NEW w \in MinWindow, NEW c \in Segments(w), NEW d \in Segments(w), c # d, Overlap(c, d)
        PROVE  FALSE
    <3>1. w.start \in Nat /\ w.end \in Nat /\ Day \in Nat
      BY TimeAssumption DEF MinWindow
    <3>2. ~(w.start <= w.end)
      BY <2>1 DEF Segments
    <3>3. Segments(w) = {[s |-> w.start, e |-> Day], [s |-> 0, e |-> w.end]}
      BY <3>2 DEF Segments
    <3> QED
      BY <2>1, <3>1, <3>2, <3>3 DEF Overlap
  <2> QED
    BY <1>1, <2>1
(* A segment is of an empty window, is the empty end of one that stops at  *)
(* midnight, or has a time.                                                *)
<1>4. ASSUME NEW w \in MinWindow, NEW c \in Segments(w)
      PROVE  \/ w.start = w.end /\ c.s = w.start /\ c.e = w.start
             \/ c.s = 0 /\ c.e = 0
             \/ c.s < c.e
  <2>1. w.start \in Nat /\ w.end \in Nat /\ w.start < Day /\ Day \in Nat
    BY <1>2 DEF MinWindow
  <2>2. CASE w.start <= w.end
    <3>1. c = [s |-> w.start, e |-> w.end]
      BY <2>2 DEF Segments
    <3> QED
      BY <2>1, <2>2, <3>1
  <2>3. CASE ~(w.start <= w.end)
    <3>1. c = [s |-> w.start, e |-> Day] \/ c = [s |-> 0, e |-> w.end]
      BY <2>3 DEF Segments
    <3> QED
      BY <2>1, <2>3, <3>1
  <2> QED
    BY <2>2, <2>3
(* A segment strictly around a time begins at another one.                 *)
<1>5. ASSUME NEW w \in MinWindow, NEW c \in Segments(w), NEW x \in 0 .. Day - 1, c.s < x, x < c.e
      PROVE  x # w.start /\ Active(w, x)
  <2>1. w.start \in Nat /\ w.end \in Nat /\ w.start < Day /\ Day \in Nat
    BY <1>2 DEF MinWindow
  <2>2. c = [s |-> w.start, e |-> w.end] \/ c = [s |-> w.start, e |-> Day]
        \/ (~(w.start <= w.end) /\ c = [s |-> 0, e |-> w.end])
    BY DEF Segments
  <2>3. x # w.start
    BY <1>5, <2>1, <2>2
  <2>4. c.s <= x
    BY <1>5, <2>1, <2>2
  <2> QED
    BY <1>5, <2>3, <2>4, SegmentsCoverWindow
<1>6. CASE a.s < a.e /\ b.s < b.e
  <2> DEFINE m == IF a.s < b.s THEN b.s ELSE a.s
  <2>1. m \in 0 .. Day - 1 /\ a.s <= m /\ m < a.e /\ b.s <= m /\ m < b.e
    BY <1>2, <1>6
  <2> HIDE DEF m
  <2>2. Active(ws[i], m) /\ Active(ws[j], m)
    BY <1>1, <2>1, SegmentsCoverWindow
  <2> QED
    BY <1>3, <2>1, <2>2
<1>7. CASE ~(a.s < a.e)
  <2>1. ws[i].start = ws[i].end /\ a.s = ws[i].start /\ a.e = ws[i].start
    BY <1>1, <1>2, <1>4, <1>7
  <2>2. ws[i].start \in 0 .. Day - 1 /\ b.s < ws[i].start /\ ws[i].start < b.e
    BY <1>2, <2>1 DEF MinWindow
  <2>3. ws[i].start # ws[j].start /\ Active(ws[j], ws[i].start)
    BY <1>1, <1>5, <2>2
  <2> QED
    BY <1>3, <2>1, <2>3
<1>8. CASE ~(b.s < b.e)
  <2>1. ws[j].start = ws[j].end /\ b.s = ws[j].start /\ b.e = ws[j].start
    BY <1>1, <1>2, <1>4, <1>8
  <2>2. ws[j].start \in 0 .. Day - 1 /\ a.s < ws[j].start /\ ws[j].start < a.e
    BY <1>2, <2>1 DEF MinWindow
  <2>3. ws[j].start # ws[i].start /\ Active(ws[i], ws[j].start)
    BY <1>1, <1>5, <2>2
  <2> QED
    BY <1>3, <2>1, <2>3
<1> QED
  BY <1>6, <1>7, <1>8

(* What a window means and what it does: of the times on the way from its  *)
(* start to its end, on a clock with n times, it is active at each, and at *)
(* no other.                                                               *)
LEMMA SpanIsActive ==
  ASSUME NEW n \in Nat, NEW w, w.start \in 0 .. n - 1, w.end \in 0 .. n - 1, NEW m \in 0 .. n - 1
  PROVE  m \in Span(w, n) <=> Active(w, m)
<1> DEFINE length == (w.end + n - w.start) % n
<1>1. length = IF w.start <= w.end THEN w.end - w.start ELSE w.end + n - w.start
  <2>1. \A x \in 0 .. n - 1 : x % n = x /\ (x + n) % n = x
    OBVIOUS
  <2>2. CASE w.start <= w.end
    <3>1. w.end - w.start \in 0 .. n - 1 /\ w.end + n - w.start = (w.end - w.start) + n
      BY <2>2
    <3> QED
      BY <2>1, <2>2, <3>1
  <2>3. CASE ~(w.start <= w.end)
    <3>1. w.end + n - w.start \in 0 .. n - 1
      BY <2>3
    <3> QED
      BY <2>1, <2>3, <3>1
  <2> QED
    BY <2>2, <2>3
<1>2. \A k \in 0 .. n - 1 :
        (w.start + k) % n = IF w.start + k < n THEN w.start + k ELSE w.start + k - n
  OBVIOUS
<1> HIDE DEF length
<1>3. m \in Span(w, n) <=>
        \E k \in 0 .. n - 1 :
          k < length /\ m = IF w.start + k < n THEN w.start + k ELSE w.start + k - n
  BY <1>2 DEF Span, length
<1>4. ASSUME m \in Span(w, n) PROVE Active(w, m)
  BY <1>1, <1>3, <1>4 DEF Active
<1>5. ASSUME Active(w, m) PROVE m \in Span(w, n)
  <2> DEFINE k == IF w.start <= m THEN m - w.start ELSE m + n - w.start
  <2>1. k \in 0 .. n - 1 /\ k < length
    BY <1>1, <1>5 DEF Active
  <2>2. m = IF w.start + k < n THEN w.start + k ELSE w.start + k - n
    OBVIOUS
  <2> QED
    BY <1>3, <2>1, <2>2
<1> QED
  BY <1>4, <1>5

(* The clock shows a minute of the day. *)
LEMMA MinuteOfDay ==
  ASSUME NEW h \in 0 .. Hours - 1, NEW m \in 0 .. HourLength - 1
  PROVE  h * HourLength + m \in 0 .. Day - 1
<1>1. h * HourLength <= (Hours - 1) * HourLength /\ h * HourLength \in Nat
  BY TimeAssumption
<1>2. (Hours - 1) * HourLength = Day - HourLength
  BY TimeAssumption
<1> QED
  BY <1>1, <1>2, TimeAssumption

(* An hour window is the window of the minutes of its hours. *)
LEMMA HoursInMinutes ==
  ASSUME NEW w \in Window, NEW h \in 0 .. Hours - 1, NEW m \in 0 .. HourLength - 1,
         NEW v, v = [start |-> w.start * HourLength, end |-> w.end * HourLength]
  PROVE  /\ v.start \in 0 .. Day - 1 /\ v.end \in 0 .. Day - 1
         /\ Active(w, h) <=> Active(v, h * HourLength + m)
<1>1. /\ w.start \in 0 .. Hours - 1 /\ w.end \in 0 .. Hours - 1
      /\ Hours \in Nat /\ HourLength \in Nat /\ HourLength > 0
  BY TimeAssumption DEF Window
<1>2. v.start \in 0 .. Day - 1 /\ v.end \in 0 .. Day - 1
  <2>1. 0 \in 0 .. HourLength - 1
    BY <1>1
  <2>2. w.start * HourLength + 0 \in 0 .. Day - 1 /\ w.end * HourLength + 0 \in 0 .. Day - 1
    BY <1>1, <2>1, MinuteOfDay
  <2> QED
    BY <1>1, <2>2
<1>3. ASSUME NEW a \in 0 .. Hours - 1, NEW b \in 0 .. Hours - 1
      PROVE  a <= b <=> a * HourLength <= b * HourLength + m
  <2>1. CASE a <= b
    <3>1. b * HourLength = a * HourLength + (b - a) * HourLength /\ (b - a) * HourLength >= 0
      BY <1>1, <2>1
    <3> QED
      BY <1>1, <2>1, <3>1
  <2>2. CASE b < a
    <3>1. a * HourLength = (b + 1) * HourLength + (a - b - 1) * HourLength
      BY <1>1
    <3>2. (a - b - 1) * HourLength >= 0 /\ (b + 1) * HourLength = b * HourLength + HourLength
      BY <1>1, <2>2
    <3> QED
      BY <1>1, <2>2, <3>1, <3>2
  <2> QED
    BY <2>1, <2>2
<1>4. w.start <= w.end <=> v.start <= v.end
  <2>1. CASE w.start <= w.end
    <3>1. w.end * HourLength = w.start * HourLength + (w.end - w.start) * HourLength
      BY <1>1
    <3>2. (w.end - w.start) * HourLength >= 0
      BY <1>1, <2>1
    <3> QED
      BY <1>1, <2>1, <3>1, <3>2
  <2>2. CASE ~(w.start <= w.end)
    <3>1. ~(w.start * HourLength <= w.end * HourLength + m)
      BY <1>1, <1>3, <2>2
    <3> QED
      BY <1>1, <2>2, <3>1
  <2> QED
    BY <2>1, <2>2
<1>5. w.start <= h <=> v.start <= h * HourLength + m
  BY <1>1, <1>3
<1>6. h < w.end <=> h * HourLength + m < v.end
  <2>1. w.end <= h <=> v.end <= h * HourLength + m
    BY <1>1, <1>3
  <2>2. h \in Int /\ w.end \in Int /\ h * HourLength + m \in Int /\ v.end \in Int
    BY <1>1
  <2> QED
    BY <2>1, <2>2
<1>7. Active(w, h) <=> Active(v, h * HourLength + m)
  BY <1>4, <1>5, <1>6 DEF Active
<1> QED
  BY <1>2, <1>7

(* SleepAllowed, at every minute, for timetables that were parsed. *)
LEMMA SleepFollowsTheWindows ==
  ASSUME hour \in 0 .. Hours - 1, minute \in 0 .. HourLength - 1,
         \A i \in DOMAIN timetable : timetable[i] \in MinWindow,
         \A i \in DOMAIN activity : activity[i] \in Window
  PROVE  SleepRefusedInWindows
<1> DEFINE scaled(i) == [start |-> activity[i].start * HourLength, end |-> activity[i].end * HourLength]
<1>1. minOfDay \in 0 .. Day - 1 /\ Day \in Nat
  BY MinuteOfDay, TimeAssumption DEF minOfDay
<1>2. ASSUME NEW i \in DOMAIN timetable
      PROVE  minOfDay \in Span(timetable[i], Day) <=> Active(timetable[i], minOfDay)
  BY <1>1, SpanIsActive DEF MinWindow
<1>3. ASSUME NEW i \in DOMAIN activity
      PROVE  minOfDay \in Span(scaled(i), Day) <=> Active(activity[i], hour)
  <2> DEFINE v == scaled(i)
  <2>1. v = [start |-> activity[i].start * HourLength, end |-> activity[i].end * HourLength]
    OBVIOUS
  <2> HIDE DEF v
  <2>2. /\ v.start \in 0 .. Day - 1 /\ v.end \in 0 .. Day - 1
        /\ Active(activity[i], hour) <=> Active(v, hour * HourLength + minute)
    BY <2>1, HoursInMinutes
  <2>3. minOfDay \in Span(v, Day) <=> Active(v, minOfDay)
    BY <1>1, <2>2, SpanIsActive
  <2> QED
    BY <2>2, <2>3 DEF minOfDay, v
<1>4. CASE timetable # <<>>
  BY <1>2, <1>4 DEF SleepRefusedInWindows, SleepAllowed, inAnyMinWindow
<1>5. CASE timetable = <<>>
  BY <1>3, <1>5 DEF SleepRefusedInWindows, SleepAllowed, InWindow
<1> QED
  BY <1>4, <1>5

-----------------------------------------------------------------------------
(* The timetables and the clock are what they should be. *)
Ticking ==
  /\ \A i \in DOMAIN timetable : timetable[i] \in MinWindow
  /\ \A i \in DOMAIN activity : activity[i] \in Window
  /\ hour \in 0 .. Hours - 1 /\ minute \in 0 .. HourLength - 1

LEMMA ClockGoesOn ==
  ASSUME hour \in 0 .. Hours - 1, minute \in 0 .. HourLength - 1, NextMinute
  PROVE  hour' \in 0 .. Hours - 1 /\ minute' \in 0 .. HourLength - 1
BY TimeAssumption DEF NextMinute

LEMMA TickingAlways == TimeSpec => []Ticking
<1>1. TimeInit => Ticking
  BY TimeAssumption DEF TimeInit, Ticking, Lists
<1>2. Ticking /\ [TimeNext]_timeVars => Ticking'
  <2> SUFFICES ASSUME Ticking, [TimeNext]_timeVars PROVE Ticking'
    OBVIOUS
  <2>1. CASE ValidateConfig
    BY <2>1 DEF Ticking, ValidateConfig
  <2>2. CASE NextMinute
    <3>1. hour' \in 0 .. Hours - 1 /\ minute' \in 0 .. HourLength - 1
      BY <2>2, ClockGoesOn DEF Ticking
    <3> QED
      BY <2>2, <3>1 DEF Ticking, NextMinute
  <2>3. CASE UNCHANGED timeVars
    BY <2>3 DEF Ticking, timeVars
  <2> QED
    BY <2>1, <2>2, <2>3 DEF TimeNext
<1> QED
  BY <1>1, <1>2, PTL DEF TimeSpec

(* SleepAllowed at every minute of every day, across midnight, in minutes  *)
(* and in hours: sleep is refused exactly within the windows in force.     *)
THEOREM SleepAllowedIsRight == TimeSpec => []SleepRefusedInWindows
<1>1. Ticking => SleepRefusedInWindows
  BY SleepFollowsTheWindows DEF Ticking
<1> QED
  BY <1>1, TickingAlways, PTL
=============================================================================
