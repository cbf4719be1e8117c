--------------------------- MODULE StartupProofs ----------------------------
(***************************************************************************)
(* Proofs about the way from the configuration file to the disks that are  *)
(* spun down: for files of any length, hosts of any number of pools and    *)
(* disks, and timetables of any size.                                      *)
(***************************************************************************)
EXTENDS Startup, TimeWindowsProofs, FiniteSetTheorems, SequenceTheorems

-----------------------------------------------------------------------------
(* Induction over the naturals, by sets: of the prefixes 1 .. n of the n   *)
(* outside G the smallest would be that of 0, or of the successor of one   *)
(* inside.                                                                 *)
LEMMA NatSetInduction ==
  ASSUME NEW G, 0 \in G, \A n \in Nat : n \in G => n + 1 \in G
  PROVE  \A n \in Nat : n \in G
<1> DEFINE Outside == {1 .. n : n \in Nat \ G}
<1> SUFFICES ASSUME Nat \ G # {} PROVE FALSE
  OBVIOUS
<1>1. Outside \subseteq FiniteSubsetsOf(Nat) /\ Outside # {}
  <2>1. \A n \in Nat : 1 .. n \in SUBSET Nat /\ IsFiniteSet(1 .. n)
    BY FS_Interval
  <2> QED
    BY <2>1 DEF FiniteSubsetsOf
<1>2. PICK T \in Outside : \A U \in Outside : ~ (<<U, T>> \in StrictSubsetOrdering(Nat))
  BY <1>1, FS_StrictSubsetOrderingWellFounded, WFMin
<1>3. PICK n \in Nat \ G : T = 1 .. n
  BY <1>2
<1>4. n # 0 /\ n - 1 \in Nat /\ (n - 1) + 1 = n
  BY <1>3
<1>5. 1 .. (n - 1) \in Outside
  BY <1>3, <1>4
<1>6. <<1 .. (n - 1), 1 .. n>> \in StrictSubsetOrdering(Nat)
  <2>1. 1 .. (n - 1) \in SUBSET Nat /\ 1 .. n \in SUBSET Nat /\ 1 .. (n - 1) \subseteq 1 .. n
    BY <1>4
  <2>2. n \in 1 .. n /\ n \notin 1 .. (n - 1)
    BY <1>4
  <2> QED
    BY <2>1, <2>2 DEF StrictSubsetOrdering
<1> QED
  BY <1>2, <1>3, <1>5, <1>6

(* The same up to a bound. *)
LEMMA UpTo ==
  ASSUME NEW n \in Nat, NEW G, 0 \in G, \A k \in 0 .. n - 1 : k \in G => k + 1 \in G
  PROVE  \A k \in 0 .. n : k \in G
<1> DEFINE H == {k \in Nat : k <= n => k \in G}
<1>1. 0 \in H /\ \A k \in Nat : k \in H => k + 1 \in H
  OBVIOUS
<1>2. \A k \in Nat : k \in H
  <2> HIDE DEF H
  <2> QED
    BY <1>1, NatSetInduction
<1> QED
  BY <1>2

-----------------------------------------------------------------------------
(* FoldLeft, as the community modules define it, is the value at DOMAIN    *)
(* seq of a function on the sets of positions, which takes the largest     *)
(* position of a set off last.                                             *)
LEMMA LargestOfPrefix ==
  ASSUME NEW n \in Nat, NEW s \in SUBSET (1 .. n), n \in s
  PROVE  Max(s) = n
<1>1. \A y \in s : n >= y
  OBVIOUS
<1>2. \A x \in s : (\A y \in s : x >= y) => x = n
  OBVIOUS
<1> QED
  BY <1>1, <1>2 DEF Max

LEMMA LargestExists ==
  \A n \in Nat : \A s \in SUBSET (1 .. n) : s # {} => Max(s) \in s /\ \A y \in s : y <= Max(s)
<1> DEFINE Has(s) == \E x \in s : \A y \in s : y <= x
           G == {n \in Nat : \A s \in SUBSET (1 .. n) : s # {} => Has(s)}
<1>1. 0 \in G
  <2>1. \A s \in SUBSET (1 .. 0) : s = {}
    OBVIOUS
  <2> QED
    BY <2>1
<1>2. ASSUME NEW n \in Nat, n \in G PROVE n + 1 \in G
  <2>1. ASSUME NEW s \in SUBSET (1 .. n + 1), s # {} PROVE Has(s)
    <3>1. CASE n + 1 \in s
      BY <3>1
    <3>2. CASE n + 1 \notin s
      <4>1. s \in SUBSET (1 .. n)
        BY <3>2
      <4> HIDE DEF Has
      <4> QED
        BY <1>2, <2>1, <4>1
    <3> QED
      BY <3>1, <3>2
  <2> QED
    BY <2>1
<1>3. \A n \in Nat : n \in G
  <2> HIDE DEF G
  <2> QED
    BY <1>1, <1>2, NatSetInduction
<1>4. ASSUME NEW n \in Nat, NEW s \in SUBSET (1 .. n), s # {}
      PROVE  Max(s) \in s /\ \A y \in s : y <= Max(s)
  <2>1. Has(s)
    <3> HIDE DEF Has
    <3> QED
      BY <1>3, <1>4
  <2>2. PICK x \in s : \A y \in s : x >= y
    BY <2>1
  <2> QED
    BY <2>2 DEF Max
<1> QED
  BY <1>4

Iterates(F, n, Op, base, seq) ==
  F = [s \in SUBSET (1 .. n) |->
         IF s = {} THEN base ELSE Op[<<F[s \ {Max(s)}], seq[Max(s)]>>]]

(* There is such a function, and its values are of the type of the fold's. *)
LEMMA IterationExists ==
  ASSUME NEW S, NEW E, NEW Op \in [S \X E -> S], NEW base \in S, NEW seq \in Seq(E)
  PROVE  \E F \in [SUBSET (1 .. Len(seq)) -> S] : Iterates(F, Len(seq), Op, base, seq)
<1> DEFINE Has(n) == \E F \in [SUBSET (1 .. n) -> S] : Iterates(F, n, Op, base, seq)
           G == {n \in Nat : n <= Len(seq) => Has(n)}
<1>0. Len(seq) \in Nat
  OBVIOUS
<1> HIDE DEF Has
<1>1. 0 \in G
  <2> DEFINE F == [s \in SUBSET (1 .. 0) |-> base]
  <2>1. SUBSET (1 .. 0) = {{}}
    OBVIOUS
  <2>2. Iterates(F, 0, Op, base, seq)
    BY <2>1 DEF Iterates
  <2> QED
    BY <2>2 DEF Has
<1>2. ASSUME NEW n \in Nat, n \in G PROVE n + 1 \in G
  <2> SUFFICES ASSUME n + 1 <= Len(seq) PROVE Has(n + 1)
    OBVIOUS
  <2>0. Has(n)
    BY <1>0, <1>2
  <2>1. PICK F \in [SUBSET (1 .. n) -> S] : Iterates(F, n, Op, base, seq)
    BY <2>0 DEF Has
  <2> DEFINE H == [s \in SUBSET (1 .. n + 1) |->
                     IF n + 1 \in s THEN Op[<<F[s \ {n + 1}], seq[n + 1]>>] ELSE F[s]]
  <2>2. ASSUME NEW s \in SUBSET (1 .. n + 1)
        PROVE  H[s] \in S /\ H[s] = IF s = {} THEN base ELSE Op[<<H[s \ {Max(s)}], seq[Max(s)]>>]
    <3>1. CASE n + 1 \in s
      <4>1. Max(s) = n + 1 /\ s # {}
        BY <3>1, LargestOfPrefix
      <4>2. s \ {n + 1} \in SUBSET (1 .. n) /\ s \ {n + 1} \in SUBSET (1 .. n + 1)
        OBVIOUS
      <4>3. H[s \ {n + 1}] = F[s \ {n + 1}]
        BY <4>2
      <4>4. seq[n + 1] \in E
        OBVIOUS
      <4> QED
        BY <3>1, <4>1, <4>2, <4>3, <4>4
    <3>2. CASE n + 1 \notin s
      <4>1. s \in SUBSET (1 .. n)
        BY <3>2
      <4>2. F[s] = IF s = {} THEN base ELSE Op[<<F[s \ {Max(s)}], seq[Max(s)]>>]
        BY <2>1, <4>1 DEF Iterates
      <4>3. H[s] = F[s] /\ H[s \ {Max(s)}] = F[s \ {Max(s)}]
        BY <3>2, <4>1
      <4> QED
        BY <4>1, <4>2, <4>3
    <3> QED
      BY <3>1, <3>2
  <2>3. H \in [SUBSET (1 .. n + 1) -> S] /\ Iterates(H, n + 1, Op, base, seq)
    BY <2>2 DEF Iterates
  <2> QED
    BY <2>3 DEF Has
<1>3. Len(seq) \in G
  <2> HIDE DEF G
  <2> QED
    BY <1>0, <1>1, <1>2, NatSetInduction
<1>4. Has(Len(seq))
  BY <1>0, <1>3
<1> QED
  BY <1>4 DEF Has

-----------------------------------------------------------------------------
(* What the text of a key is loaded as. *)
ParsedAs(k) ==
  CASE k = "enabled"                                   -> BOOLEAN
    [] k = "wait"                                      -> Int
    [] k \in {"disks", "exclude"}                      -> SUBSET Name
    [] k \in {"pools", "export-pools"}                 -> SUBSET Pool
    [] k = "activity"                                  -> Seq(Window)
    [] k \in {"active-timetable", "export-timetable"}  -> Seq(MinWindow)
    [] k = "pool-window"                               -> UNION {[P -> Seq(MinWindow)] : P \in SUBSET Pool}

Configs == {c \in [Keys -> UNION {ParsedAs(k) : k \in Keys}] : \A k \in Keys : c[k] \in ParsedAs(k)}
Results == [ok : BOOLEAN, cfg : Configs]

LEMMA KeysAre ==
  Keys = {"enabled", "disks", "exclude", "pools", "activity", "active-timetable", "wait",
          "export-pools", "export-timetable", "pool-window"}
BY DEF Keys, Listed, Range

LEMMA DefaultTyped == defaultConfig \in Configs
<1>1. \A k \in Keys : defaultConfig[k] =
        CASE k = "enabled" -> TRUE [] k = "wait" -> DefaultWait [] k \in ListKeys -> {} [] OTHER -> <<>>
  BY DEF defaultConfig
<1>2. <<>> \in Seq(Window) /\ <<>> \in Seq(MinWindow)
  OBVIOUS
<1>3. <<>> \in UNION {[P -> Seq(MinWindow)] : P \in SUBSET Pool}
  <2>1. <<>> \in [{} -> Seq(MinWindow)]
    OBVIOUS
  <2> QED
    BY <2>1
<1>4. \A k \in Keys : defaultConfig[k] \in ParsedAs(k)
  BY <1>1, <1>2, <1>3, KeysAre, StartAssumption DEF ParsedAs, ListKeys
<1> QED
  BY <1>4 DEF Configs, defaultConfig

(* The entries of one pool-window line, the last of each pool. *)
LEMMA PoolWindowsTyped ==
  ASSUME NEW entries \in Seq([pool : Pool, windows : Seq(MinWindow)])
  PROVE  parsePoolWindows(entries) \in UNION {[P -> Seq(MinWindow)] : P \in SUBSET Pool}
<1> DEFINE P == {entries[i].pool : i \in DOMAIN entries}
           LastOf(q) == CHOOSE i \in DOMAIN entries :
                        /\ entries[i].pool = q
                        /\ \A j \in DOMAIN entries : entries[j].pool = q => j <= i
<1>1. /\ DOMAIN entries = 1 .. Len(entries) /\ Len(entries) \in Nat
      /\ \A i \in DOMAIN entries : entries[i] \in [pool : Pool, windows : Seq(MinWindow)]
  BY LenProperties, ElementOfSeq
<1>2. P \in SUBSET Pool
  BY <1>1
<1>3. ASSUME NEW q \in P PROVE entries[LastOf(q)].windows \in Seq(MinWindow)
  <2> DEFINE s == {i \in DOMAIN entries : entries[i].pool = q}
  <2>1. s \in SUBSET (1 .. Len(entries)) /\ s # {}
    BY <1>1, <1>3
  <2>2. Max(s) \in s /\ \A y \in s : y <= Max(s)
    BY <1>1, <2>1, LargestExists
  <2>3. LastOf(q) \in DOMAIN entries
    BY <2>2
  <2> QED
    BY <1>1, <2>3
<1>4. parsePoolWindows(entries) = [q \in P |-> entries[LastOf(q)].windows]
  BY DEF parsePoolWindows
<1> HIDE DEF P, LastOf
<1> QED
  BY <1>2, <1>3, <1>4

LEMMA ParseLineTyped ==
  ASSUME NEW c \in Results, NEW l \in Lines
  PROVE  ParseLine(c, l) \in Results
<1>1. ASSUME ~Bad(l), NEW k, k = KeyOf(l), NEW v,
             v = IF k = "pool-window" THEN parsePoolWindows(l.value) ELSE l.value
      PROVE  k \in Keys /\ v \in ParsedAs(k)
  BY <1>1, KeysAre, PoolWindowsTyped DEF Lines, Bad, KeyOf, ParsedAs
<1>2. ASSUME NEW k \in Keys, NEW v \in ParsedAs(k)
      PROVE  [c EXCEPT !.cfg[k] = v] \in Results
  BY <1>2 DEF Results, Configs
<1>3. [c EXCEPT !.ok = FALSE] \in Results
  BY DEF Results
<1> QED
  BY <1>1, <1>2, <1>3 DEF ParseLine

(* Parsing goes line by line: r is what is known after each of them. *)
ParseRun(r, lines) ==
  /\ r \in [0 .. Len(lines) -> Results]
  /\ r[0] = [ok |-> TRUE, cfg |-> defaultConfig]
  /\ \A i \in 1 .. Len(lines) : r[i] = ParseLine(r[i - 1], lines[i])

LEMMA ParseGoesLineByLine ==
  ASSUME NEW lines \in Seq(Lines)
  PROVE  \E r : ParseRun(r, lines) /\ parseConfig(lines) = r[Len(lines)]
<1> DEFINE n == Len(lines)
           base == [ok |-> TRUE, cfg |-> defaultConfig]
           Op == [x \in Results \X Lines |-> ParseLine(x[1], x[2])]
           Folds(F) == F = [s \in SUBSET DOMAIN lines |->
                              IF s = {} THEN base ELSE ParseLine(F[s \ {Max(s)}], lines[Max(s)])]
<1>1. n \in Nat /\ DOMAIN lines = 1 .. n /\ \A i \in 1 .. n : lines[i] \in Lines
  BY LenProperties, ElementOfSeq
<1>2. base \in Results
  BY DefaultTyped DEF Results
<1>3. Op \in [Results \X Lines -> Results]
  BY ParseLineTyped
<1>4. \E F : Folds(F)
  <2>1. PICK F \in [SUBSET (1 .. n) -> Results] : Iterates(F, n, Op, base, lines)
    BY <1>2, <1>3, IterationExists
  <2>2. ASSUME NEW s \in SUBSET (1 .. n)
        PROVE  F[s] = IF s = {} THEN base ELSE ParseLine(F[s \ {Max(s)}], lines[Max(s)])
    <3>1. F[s] = IF s = {} THEN base ELSE Op[<<F[s \ {Max(s)}], lines[Max(s)]>>]
      BY <2>1 DEF Iterates
    <3>2. ASSUME s # {}
          PROVE  Op[<<F[s \ {Max(s)}], lines[Max(s)]>>] = ParseLine(F[s \ {Max(s)}], lines[Max(s)])
      <4>1. Max(s) \in 1 .. n /\ s \ {Max(s)} \in SUBSET (1 .. n)
        BY <1>1, <3>2, LargestExists
      <4> QED
        BY <1>1, <2>1, <4>1
    <3> QED
      BY <3>1, <3>2
  <2>3. Folds(F)
    BY <1>1, <2>1, <2>2
  <2> QED
    BY <2>3
<1>5. PICK F : Folds(F) /\ parseConfig(lines) = F[DOMAIN lines]
  BY <1>4 DEF parseConfig, FoldLeft, MapThenFoldSet
<1> DEFINE r == [k \in 0 .. n |-> F[1 .. k]]
<1>6. r[0] = base
  <2>1. 1 .. 0 = {} /\ {} \in SUBSET DOMAIN lines
    OBVIOUS
  <2> QED
    BY <1>1, <1>5, <2>1
<1>7. ASSUME NEW i \in 1 .. n PROVE r[i] = ParseLine(r[i - 1], lines[i])
  <2>1. i \in Nat /\ 1 .. i \in SUBSET DOMAIN lines /\ i \in 1 .. i
    BY <1>1
  <2>2. Max(1 .. i) = i /\ (1 .. i) \ {i} = 1 .. (i - 1)
    BY <2>1, LargestOfPrefix
  <2>3. F[1 .. i] = ParseLine(F[1 .. (i - 1)], lines[i])
    BY <1>5, <2>1, <2>2
  <2> QED
    BY <1>1, <2>3
<1> HIDE DEF r
<1>8. \A k \in 0 .. n : r[k] \in Results
  <2> DEFINE G == {k \in 0 .. n : r[k] \in Results}
  <2>1. 0 \in G
    BY <1>1, <1>2, <1>6
  <2>2. ASSUME NEW k \in 0 .. n - 1, k \in G PROVE k + 1 \in G
    <3>1. k + 1 \in 1 .. n /\ (k + 1) - 1 = k
      BY <1>1
    <3> QED
      BY <1>1, <1>7, <2>2, <3>1, ParseLineTyped
  <2> HIDE DEF G
  <2>3. \A k \in 0 .. n : k \in G
    BY <1>1, <2>1, <2>2, UpTo
  <2> QED
    BY <2>3 DEF G
<1>9. parseConfig(lines) = r[n]
  BY <1>1, <1>5 DEF r
<1>10. r \in [0 .. n -> Results]
  BY <1>8 DEF r
<1> QED
  BY <1>6, <1>7, <1>9, <1>10 DEF ParseRun

LEMMA ParsedTyped ==
  ASSUME NEW lines \in Seq(Lines)
  PROVE  parseConfig(lines) \in Results
<1>1. PICK r : ParseRun(r, lines) /\ parseConfig(lines) = r[Len(lines)]
  BY ParseGoesLineByLine
<1> QED
  BY <1>1, LenProperties DEF ParseRun

-----------------------------------------------------------------------------
(* What the program writes to the file can be read back line by line. *)
LEMMA LeastExists ==
  ASSUME NEW s \in SUBSET Nat, s # {}
  PROVE  \E x \in s : \A y \in s : x <= y
<1> DEFINE Reached(n) == \E m \in s : m <= n
           Has == \E x \in s : \A y \in s : x <= y
           G == {n \in Nat : Reached(n) => Has}
<1>1. 0 \in G
  OBVIOUS
<1>2. ASSUME NEW n \in Nat, n \in G PROVE n + 1 \in G
  <2>1. CASE Reached(n)
    <3> HIDE DEF Has, Reached
    <3> QED
      BY <1>2, <2>1
  <2>2. CASE ~Reached(n) /\ Reached(n + 1)
    <3>1. n + 1 \in s /\ \A y \in s : n + 1 <= y
      BY <2>2
    <3>2. Has
      BY <3>1
    <3> HIDE DEF Has
    <3> QED
      BY <3>2
  <2>3. CASE ~Reached(n + 1)
    <3> HIDE DEF Has, Reached
    <3> QED
      BY <2>3
  <2> QED
    BY <2>1, <2>2, <2>3
<1>3. \A n \in Nat : n \in G
  <2> HIDE DEF G
  <2> QED
    BY <1>1, <1>2, NatSetInduction
<1>4. PICK n \in Nat : Reached(n)
  <2>1. PICK n \in s : TRUE
    OBVIOUS
  <2>2. n \in Nat /\ n <= n
    BY <2>1
  <2> QED
    BY <2>1, <2>2
<1> QED
  <2> HIDE DEF Has, Reached
  <2>1. Has
    BY <1>3, <1>4
  <2> QED
    BY <2>1 DEF Has

(* The places of the `enabled' lines, and the first of them. *)
Places(lines) == {i \in DOMAIN lines : lines[i].key = "enabled"}
First(lines) == CHOOSE i \in Places(lines) : \A j \in Places(lines) : i <= j

LEMMA FirstIsFirst ==
  ASSUME NEW lines \in Seq(Lines), Places(lines) # {}
  PROVE  First(lines) \in Places(lines) /\ \A j \in Places(lines) : First(lines) <= j
<1>1. Places(lines) \in SUBSET Nat
  BY LenProperties DEF Places
<1> QED
  BY <1>1, LeastExists DEF First

LEMMA EnabledLines ==
  ASSUME NEW on \in BOOLEAN
  PROVE  /\ Enabled(on) \in Lines /\ ~Bad(Enabled(on))
         /\ Enabled(on).key = "enabled" /\ Enabled(on).value = on
BY DEF Enabled, Line, Lines, Bad

LEMMA EditTyped ==
  ASSUME NEW lines \in Seq(Lines), NEW on \in BOOLEAN
  PROVE  setEnabledInFile(lines, on) \in Seq(Lines)
<1>1. Enabled(on) \in Lines
  BY EnabledLines
<1>2. setEnabledInFile(lines, on) =
        IF Places(lines) = {} THEN Append(lines, Enabled(on)) ELSE [lines EXCEPT ![First(lines)] = Enabled(on)]
  BY DEF setEnabledInFile, Places, First
<1>3. Append(lines, Enabled(on)) \in Seq(Lines)
  BY <1>1, AppendProperties
<1>4. ASSUME Places(lines) # {} PROVE [lines EXCEPT ![First(lines)] = Enabled(on)] \in Seq(Lines)
  <2>1. First(lines) \in 1 .. Len(lines)
    BY <1>4, FirstIsFirst, LenProperties DEF Places
  <2> QED
    BY <1>1, <2>1, ExceptSeq
<1> QED
  BY <1>2, <1>3, <1>4

LEMMA NothingToList == SetToSeq({}) = <<>>
<1>1. Cardinality({}) = 0
  BY FS_EmptySet
<1>2. [1 .. 0 -> {}] = {<<>>}
  <2>1. <<>> \in [1 .. 0 -> {}]
    OBVIOUS
  <2>2. ASSUME NEW f \in [1 .. 0 -> {}] PROVE f = <<>>
    <3>1. f \in Seq({}) /\ Len(f) = 0
      OBVIOUS
    <3> QED
      BY <3>1, EmptySeq
  <2> QED
    BY <2>1, <2>2
<1>3. IsInjective(<<>>)
  BY DEF IsInjective
<1> QED
  BY <1>1, <1>2, <1>3 DEF SetToSeq

LEMMA DefaultLines ==
  \A k \in Keys : /\ Written(defaultConfig, k) = [key |-> k, value |-> defaultConfig[k]]
                  /\ Written(defaultConfig, k) \in Lines
<1> SUFFICES ASSUME NEW k \in Keys
             PROVE  /\ Written(defaultConfig, k) = [key |-> k, value |-> defaultConfig[k]]
                    /\ Written(defaultConfig, k) \in Lines
  OBVIOUS
<1>1. defaultConfig["pool-window"] = <<>> /\ DOMAIN defaultConfig["pool-window"] = {}
  BY KeysAre DEF defaultConfig, ListKeys
<1>2. {[pool |-> q, windows |-> defaultConfig["pool-window"][q]] : q \in DOMAIN defaultConfig["pool-window"]} = {}
  BY <1>1
<1>3. Written(defaultConfig, k) = [key |-> k, value |-> defaultConfig[k]]
  BY <1>1, <1>2, NothingToList DEF Written, Line
<1>4. <<>> \in Seq([pool : Pool, windows : Seq(MinWindow)])
  BY EmptySeq
<1>5. defaultConfig \in Configs
  BY DefaultTyped
<1> QED
  BY <1>1, <1>3, <1>4, <1>5, KeysAre DEF Lines, Configs, ParsedAs

LEMMA MarshalTyped ==
  /\ marshalConfig(defaultConfig) \in Seq(Lines)
  /\ Len(marshalConfig(defaultConfig)) = 11
  /\ marshalConfig(defaultConfig)[1] = Comment
  /\ \A i \in 1 .. 10 : marshalConfig(defaultConfig)[i + 1] = Written(defaultConfig, Listed[i])
<1> DEFINE rest == [i \in DOMAIN Listed |-> Written(defaultConfig, Listed[i])]
<1>1. DOMAIN Listed = 1 .. 10 /\ \A i \in 1 .. 10 : Listed[i] \in Keys
  BY KeysAre DEF Listed
<1>2. rest \in [1 .. 10 -> Lines]
  BY <1>1, DefaultLines
<1>3. rest \in Seq(Lines) /\ Len(rest) = 10
  BY <1>2
<1>4. Comment \in Lines
  BY KeysAre DEF Comment, BadLine, Lines
<1>5. <<Comment>> \in Seq(Lines) /\ Len(<<Comment>>) = 1
  BY <1>4
<1>6. marshalConfig(defaultConfig) = <<Comment>> \o rest
  BY DEF marshalConfig
<1>7. \A i \in 1 .. 10 : rest[i] = Written(defaultConfig, Listed[i])
  BY <1>1
<1> HIDE DEF rest
<1>8. /\ <<Comment>> \o rest \in Seq(Lines) /\ Len(<<Comment>> \o rest) = 1 + 10
      /\ \A i \in 1 .. 1 + 10 :
           (<<Comment>> \o rest)[i] = IF i <= 1 THEN <<Comment>>[i] ELSE rest[i - 1]
  <2> DEFINE c == <<Comment>>
  <2>1. c \in Seq(Lines) /\ Len(c) = 1
    BY <1>5
  <2> HIDE DEF c
  <2>2. /\ c \o rest \in Seq(Lines) /\ Len(c \o rest) = Len(c) + Len(rest)
        /\ \A i \in 1 .. Len(c) + Len(rest) :
             (c \o rest)[i] = IF i <= Len(c) THEN c[i] ELSE rest[i - Len(c)]
    BY <1>3, <2>1, ConcatProperties
  <2>3. /\ c \o rest \in Seq(Lines) /\ Len(c \o rest) = 1 + 10
        /\ \A i \in 1 .. 1 + 10 : (c \o rest)[i] = IF i <= 1 THEN c[i] ELSE rest[i - 1]
    BY <1>3, <2>1, <2>2
  <2> QED
    BY <2>3 DEF c
<1>9. \A i \in 1 .. 10 : i + 1 \in 1 .. 1 + 10 /\ ~(i + 1 <= 1) /\ (i + 1) - 1 = i
  OBVIOUS
<1>10. (<<Comment>> \o rest)[1] = Comment
  BY <1>8
<1> QED
  BY <1>6, <1>7, <1>8, <1>9, <1>10

-----------------------------------------------------------------------------
(* The fold of a sequence, as a run from one value to another: Op[<<x, e>>] *)
(* is what is known after e, with x known before.                          *)
Folded(S, Op, start, seq, end) ==
  \E r \in [0 .. Len(seq) -> S] :
    /\ r[0] = start /\ r[Len(seq)] = end
    /\ \A i \in 1 .. Len(seq) : r[i] = Op[<<r[i - 1], seq[i]>>]

LEMMA FoldedNone ==
  ASSUME NEW S, NEW Op, NEW x \in S
  PROVE  Folded(S, Op, x, <<>>, x)
<1> DEFINE r == [k \in 0 .. 0 |-> x]
<1>1. Len(<<>>) = 0
  OBVIOUS
<1>2. r \in [0 .. 0 -> S] /\ r[0] = x /\ \A i \in 1 .. 0 : r[i] = Op[<<r[i - 1], <<>>[i]>>]
  OBVIOUS
<1> QED
  BY <1>1, <1>2 DEF Folded

LEMMA FoldedOne ==
  ASSUME NEW S, NEW E, NEW Op \in [S \X E -> S], NEW x \in S, NEW e \in E
  PROVE  Folded(S, Op, x, <<e>>, Op[<<x, e>>])
<1> DEFINE y == Op[<<x, e>>]
           r == [k \in 0 .. 1 |-> IF k = 0 THEN x ELSE y]
<1>1. y \in S
  OBVIOUS
<1>2. Len(<<e>>) = 1 /\ <<e>>[1] = e
  OBVIOUS
<1>3. r \in [0 .. 1 -> S] /\ r[0] = x /\ r[1] = y
  BY <1>1
<1>4. \A i \in 1 .. 1 : i = 1 /\ i - 1 = 0
  OBVIOUS
<1> HIDE DEF r
<1>5. \A i \in 1 .. 1 : r[i] = Op[<<r[i - 1], <<e>>[i]>>]
  BY <1>2, <1>3, <1>4
<1> QED
  BY <1>2, <1>3, <1>5 DEF Folded

LEMMA FoldedConcat ==
  ASSUME NEW S, NEW E, NEW Op, NEW a \in Seq(E), NEW b \in Seq(E), NEW x, NEW y, NEW z,
         Folded(S, Op, x, a, y), Folded(S, Op, y, b, z)
  PROVE  Folded(S, Op, x, a \o b, z)
<1>1. PICK r \in [0 .. Len(a) -> S] :
        /\ r[0] = x /\ r[Len(a)] = y
        /\ \A i \in 1 .. Len(a) : r[i] = Op[<<r[i - 1], a[i]>>]
  BY DEF Folded
<1>2. PICK s \in [0 .. Len(b) -> S] :
        /\ s[0] = y /\ s[Len(b)] = z
        /\ \A i \in 1 .. Len(b) : s[i] = Op[<<s[i - 1], b[i]>>]
  BY DEF Folded
<1> DEFINE m == Len(a)
           n == Len(b)
           c == a \o b
           t == [k \in 0 .. m + n |-> IF k <= m THEN r[k] ELSE s[k - m]]
<1>3. /\ m \in Nat /\ n \in Nat /\ Len(c) = m + n
      /\ \A i \in 1 .. m + n : c[i] = IF i <= m THEN a[i] ELSE b[i - m]
  BY LenProperties, ConcatProperties
<1> HIDE DEF m, n, c
<1>4. t \in [0 .. m + n -> S] /\ t[0] = x
  BY <1>1, <1>2, <1>3 DEF m, n
<1>5. \A k \in 0 .. n : t[m + k] = s[k]
  <2>1. t[m] = y
    BY <1>1, <1>3 DEF m
  <2> QED
    BY <1>2, <1>3, <2>1
<1>6. \A k \in 0 .. m : t[k] = r[k]
  BY <1>3
<1> HIDE DEF t
<1>7. ASSUME NEW i \in 1 .. m + n PROVE t[i] = Op[<<t[i - 1], c[i]>>]
  <2>1. CASE i <= m
    <3>1. i \in 1 .. m /\ i \in 0 .. m /\ i - 1 \in 0 .. m
      BY <1>3, <2>1
    <3>2. t[i] = r[i] /\ t[i - 1] = r[i - 1] /\ c[i] = a[i]
      BY <1>3, <1>6, <2>1, <3>1
    <3> QED
      BY <1>1, <3>1, <3>2 DEF m
  <2>2. CASE ~(i <= m)
    <3>1. /\ i - m \in 1 .. n /\ i - m \in 0 .. n /\ (i - m) - 1 \in 0 .. n
          /\ m + (i - m) = i /\ m + ((i - m) - 1) = i - 1
      BY <1>3, <2>2
    <3>2. t[m + (i - m)] = s[i - m] /\ t[m + ((i - m) - 1)] = s[(i - m) - 1]
      BY <1>5, <3>1
    <3>3. t[i] = s[i - m] /\ t[i - 1] = s[(i - m) - 1]
      BY <3>1, <3>2
    <3>4. s[i - m] = Op[<<s[(i - m) - 1], b[i - m]>>]
      BY <1>2, <3>1 DEF n
    <3> QED
      BY <1>3, <2>2, <3>3, <3>4
  <2> QED
    BY <2>1, <2>2
<1>8. t[m + n] = z
  <2>1. n \in 0 .. n
    BY <1>3
  <2> QED
    BY <1>2, <1>5, <2>1 DEF n
<1> QED
  BY <1>3, <1>4, <1>7, <1>8 DEF Folded, c

(* Where the run ends, the function that FoldLeft iterates ends too. *)
Follows(F, S, Op, seq) ==
  \A i \in 1 .. Len(seq) : \A x \in S : F[1 .. (i - 1)] = x => F[1 .. i] = Op[<<x, seq[i]>>]

LEMMA FoldEnds ==
  ASSUME NEW S, NEW E, NEW Op \in [S \X E -> S], NEW base \in S, NEW seq \in Seq(E), NEW end,
         Folded(S, Op, base, seq, end),
         NEW F, F[1 .. 0] = base, Follows(F, S, Op, seq)
  PROVE  F[1 .. Len(seq)] = end
<1> DEFINE n == Len(seq)
<1>1. n \in Nat
  BY LenProperties
<1>2. PICK r \in [0 .. n -> S] :
        r[0] = base /\ r[n] = end /\ \A i \in 1 .. n : r[i] = Op[<<r[i - 1], seq[i]>>]
  BY DEF Folded
<1>3. \A i \in 1 .. n : \A x \in S : F[1 .. (i - 1)] = x => F[1 .. i] = Op[<<x, seq[i]>>]
  BY DEF Follows
<1> HIDE DEF n
<1> DEFINE G == {k \in 0 .. n : F[1 .. k] = r[k]}
<1>4. 0 \in G
  BY <1>1, <1>2
<1>5. ASSUME NEW k \in 0 .. n - 1, k \in G PROVE k + 1 \in G
  <2>1. k + 1 \in 1 .. n /\ (k + 1) - 1 = k /\ k \in 0 .. n /\ k + 1 \in 0 .. n
    BY <1>1
  <2>2. F[1 .. k] = r[k] /\ r[k] \in S
    BY <1>2, <1>5, <2>1
  <2>3. F[1 .. k + 1] = Op[<<r[k], seq[k + 1]>>]
    BY <1>3, <2>1, <2>2
  <2>4. r[k + 1] = Op[<<r[k], seq[k + 1]>>]
    BY <1>2, <2>1
  <2> QED
    BY <2>1, <2>3, <2>4
<1>6. \A k \in 0 .. n : k \in G
  <2> HIDE DEF G
  <2> QED
    BY <1>1, <1>4, <1>5, UpTo
<1> QED
  BY <1>1, <1>2, <1>6 DEF n

(* FlattenSeq puts one sequence behind the other. *)
FlattenRun(f, E, ss) ==
  /\ f \in [1 .. Len(ss) -> Seq(E)]
  /\ f[1] = ss[1]
  /\ \A i \in 2 .. Len(ss) : f[i] = f[i - 1] \o ss[i]

LEMMA FlattenGoesOneByOne ==
  ASSUME NEW E, NEW ss \in Seq(Seq(E)), ss # <<>>
  PROVE  \E f : FlattenRun(f, E, ss) /\ FlattenSeq(ss) = f[Len(ss)]
<1> DEFINE n == Len(ss)
           Flat(f, k) == f = [i \in 1 .. k |-> IF i = 1 THEN ss[i] ELSE f[i - 1] \o ss[i]]
           Has(k) == \E f \in [1 .. k -> Seq(E)] : Flat(f, k)
           G == {k \in 0 .. n : Has(k)}
<1>1. n \in Nat /\ n > 0 /\ \A i \in 1 .. n : ss[i] \in Seq(E)
  BY LenProperties, ElementOfSeq, EmptySeq
<1> HIDE DEF n
<1>2. 0 \in G
  <2>1. <<>> \in [1 .. 0 -> Seq(E)] /\ Flat(<<>>, 0)
    OBVIOUS
  <2>2. Has(0)
    BY <2>1
  <2> HIDE DEF Has
  <2> QED
    BY <1>1, <2>2
<1>3. ASSUME NEW k \in 0 .. n - 1, k \in G PROVE k + 1 \in G
  <2>1. PICK f \in [1 .. k -> Seq(E)] : Flat(f, k)
    BY <1>3
  <2> DEFINE g == [i \in 1 .. k + 1 |-> IF i <= k THEN f[i] ELSE IF i = 1 THEN ss[i] ELSE f[k] \o ss[i]]
  <2>2. ASSUME NEW i \in 1 .. k + 1
        PROVE  g[i] \in Seq(E) /\ g[i] = IF i = 1 THEN ss[i] ELSE g[i - 1] \o ss[i]
    <3>1. CASE i <= k
      <4>1. i \in 1 .. k /\ g[i] = f[i] /\ f[i] \in Seq(E)
        BY <1>1, <3>1
      <4>2. f[i] = IF i = 1 THEN ss[i] ELSE f[i - 1] \o ss[i]
        BY <2>1, <4>1
      <4>3. i # 1 => g[i - 1] = f[i - 1]
        BY <1>1, <4>1
      <4> HIDE DEF g
      <4> QED
        BY <4>1, <4>2, <4>3
    <3>2. CASE ~(i <= k) /\ i = 1
      BY <1>1, <3>2
    <3>3. CASE ~(i <= k) /\ i # 1
      <4>1. i = k + 1 /\ k \in 1 .. k /\ f[k] \in Seq(E) /\ ss[i] \in Seq(E)
        BY <1>1, <3>3
      <4>2. g[i] = f[k] \o ss[i] /\ g[i - 1] = f[k]
        BY <1>1, <3>3, <4>1
      <4>3. f[k] \o ss[i] \in Seq(E)
        BY <4>1, ConcatProperties
      <4> HIDE DEF g
      <4> QED
        BY <3>3, <4>2, <4>3
    <3> QED
      BY <3>1, <3>2, <3>3
  <2>3. g \in [1 .. k + 1 -> Seq(E)] /\ Flat(g, k + 1)
    BY <2>2
  <2>4. Has(k + 1)
    BY <2>3
  <2> HIDE DEF Has
  <2> QED
    BY <1>1, <2>4
<1>4. Has(n)
  <2>1. \A k \in 0 .. n : k \in G
    <3> HIDE DEF G
    <3> QED
      BY <1>1, <1>2, <1>3, UpTo
  <2> HIDE DEF Has
  <2> QED
    BY <1>1, <2>1
<1>5. PICK f : Flat(f, n) /\ FlattenSeq(ss) = f[n]
  <2>1. \E f : Flat(f, n)
    BY <1>4
  <2>2. Len(ss) # 0
    BY <1>1 DEF n
  <2> QED
    BY <2>1, <2>2, Zenon DEF FlattenSeq, n
<1>6. f[1] = ss[1] /\ \A i \in 2 .. n : f[i] = f[i - 1] \o ss[i]
  <2>1. \A i \in 1 .. n : f[i] = IF i = 1 THEN ss[i] ELSE f[i - 1] \o ss[i]
    BY <1>5, Zenon
  <2>2. 1 \in 1 .. n /\ \A i \in 2 .. n : i \in 1 .. n /\ i # 1
    BY <1>1
  <2> QED
    BY <2>1, <2>2
<1>7. \A i \in 1 .. n : f[i] \in Seq(E)
  <2> DEFINE H == {k \in 0 .. n : k = 0 \/ f[k] \in Seq(E)}
  <2>1. 0 \in H
    BY <1>1
  <2>2. ASSUME NEW k \in 0 .. n - 1, k \in H PROVE k + 1 \in H
    <3>1. CASE k = 0
      BY <1>1, <1>6, <3>1
    <3>2. CASE k # 0
      <4>1. k + 1 \in 2 .. n /\ (k + 1) - 1 = k /\ f[k] \in Seq(E) /\ ss[k + 1] \in Seq(E)
        BY <1>1, <2>2, <3>2
      <4>2. f[k] \o ss[k + 1] \in Seq(E)
        BY <4>1, ConcatProperties
      <4>3. f[k + 1] = f[k] \o ss[k + 1]
        BY <1>6, <4>1
      <4>4. k + 1 \in 0 .. n
        BY <1>1
      <4> QED
        BY <4>2, <4>3, <4>4
    <3> QED
      BY <3>1, <3>2
  <2>3. \A k \in 0 .. n : k \in H
    <3> HIDE DEF H
    <3> QED
      BY <1>1, <2>1, <2>2, UpTo
  <2> QED
    BY <1>1, <2>3
<1>8. f \in [1 .. n -> Seq(E)]
  BY <1>5, <1>7
<1> QED
  BY <1>5, <1>6, <1>8 DEF FlattenRun, n

(* So it is folded piece by piece. *)
LEMMA FoldedFlatten ==
  ASSUME NEW S, NEW E, NEW Op, NEW ss \in Seq(Seq(E)), NEW v \in [0 .. Len(ss) -> S],
         \A i \in 1 .. Len(ss) : Folded(S, Op, v[i - 1], ss[i], v[i])
  PROVE  FlattenSeq(ss) \in Seq(E) /\ Folded(S, Op, v[0], FlattenSeq(ss), v[Len(ss)])
<1>1. Len(ss) \in Nat /\ \A i \in 1 .. Len(ss) : ss[i] \in Seq(E)
  BY LenProperties, ElementOfSeq
<1>2. CASE ss = <<>>
  <2>1. Len(ss) = 0 /\ FlattenSeq(ss) = <<>> /\ v[0] \in S
    BY <1>1, <1>2 DEF FlattenSeq
  <2> QED
    BY <2>1, FoldedNone
<1>3. CASE ss # <<>>
  <2>1. PICK f : FlattenRun(f, E, ss) /\ FlattenSeq(ss) = f[Len(ss)]
    BY <1>3, FlattenGoesOneByOne
  <2> DEFINE G == {k \in 0 .. Len(ss) : k = 0 \/ Folded(S, Op, v[0], f[k], v[k])}
  <2>2. 0 \in G
    BY <1>1
  <2>3. ASSUME NEW k \in 0 .. Len(ss) - 1, k \in G PROVE k + 1 \in G
    <3>1. k + 1 \in 1 .. Len(ss) /\ (k + 1) - 1 = k
      BY <1>1
    <3>2. Folded(S, Op, v[k], ss[k + 1], v[k + 1])
      BY <3>1
    <3>3. k + 1 \in 0 .. Len(ss)
      BY <3>1
    <3>4. CASE k = 0
      <4>1. f[k + 1] = ss[k + 1]
        BY <2>1, <3>4 DEF FlattenRun
      <4> QED
        BY <3>1, <3>2, <3>4, <4>1
    <3>5. CASE k # 0
      <4>1. k + 1 \in 2 .. Len(ss) /\ k \in 1 .. Len(ss)
        BY <1>1, <3>5
      <4>2. f[k + 1] = f[k] \o ss[k + 1] /\ f[k] \in Seq(E)
        BY <2>1, <3>1, <4>1 DEF FlattenRun
      <4>3. Folded(S, Op, v[0], f[k], v[k])
        BY <2>3, <3>5
      <4>4. Folded(S, Op, v[0], f[k] \o ss[k + 1], v[k + 1])
        BY <1>1, <3>1, <3>2, <4>2, <4>3, FoldedConcat
      <4>5. Folded(S, Op, v[0], f[k + 1], v[k + 1])
        BY <4>2, <4>4
      <4> QED
        BY <3>3, <4>5
    <3> QED
      BY <3>4, <3>5
  <2>4. \A k \in 0 .. Len(ss) : k \in G
    <3> HIDE DEF G
    <3> QED
      BY <1>1, <2>2, <2>3, UpTo
  <2>5. Len(ss) \in 0 .. Len(ss) /\ Len(ss) # 0
    BY <1>1, <1>3, EmptySeq
  <2>6. FlattenSeq(ss) \in Seq(E)
    <3>1. Len(ss) \in 1 .. Len(ss)
      BY <2>5
    <3> QED
      BY <2>1, <3>1 DEF FlattenRun
  <2> QED
    BY <2>1, <2>4, <2>5, <2>6
<1> QED
  BY <1>2, <1>3

(* A finite set is listed with all its elements and no others. *)
LEMMA SetToSeqListsAll ==
  ASSUME NEW S, IsFiniteSet(S)
  PROVE  /\ SetToSeq(S) \in Seq(S)
         /\ {SetToSeq(S)[i] : i \in DOMAIN SetToSeq(S)} = S
<1> DEFINE n == Cardinality(S)
           f == SetToSeq(S)
<1>1. n \in Nat /\ ExistsBijection(1 .. n, S)
  BY FS_CardinalityType
<1>2. \E g \in [1 .. n -> S] : IsInjective(g)
  BY <1>1 DEF ExistsBijection, Bijection, Injection, IsInjective
<1>3. f \in [1 .. n -> S] /\ IsInjective(f)
  BY <1>2 DEF SetToSeq
<1> HIDE DEF f
<1>4. f \in Injection(1 .. n, S)
  BY <1>3 DEF Injection, IsInjective
<1>5. IsFiniteSet(1 .. n) /\ Cardinality(1 .. n) = n
  BY <1>1, FS_Interval
<1>6. f \in Surjection(1 .. n, S)
  <2>1. Cardinality(1 .. n) = Cardinality(S)
    BY <1>5
  <2> HIDE DEF n
  <2> QED
    BY <1>4, <2>1, FS_Injection
<1>7. f \in Seq(S) /\ DOMAIN f = 1 .. n
  BY <1>1, <1>3
<1>8. \A x \in S : \E i \in 1 .. n : f[i] = x
  BY <1>6 DEF Surjection
<1>9. \A i \in 1 .. n : f[i] \in S
  BY <1>3
<1>10. {f[i] : i \in DOMAIN f} = S
  BY <1>7, <1>8, <1>9
<1> QED
  BY <1>7, <1>10 DEF f

-----------------------------------------------------------------------------
(* The names of a host, whole. *)
Normals == {Normalize(n) : n \in Name}

LEMMA NamesAreFinite == IsFiniteSet(Name)
<1>1. IsFiniteSet(BOOLEAN)
  <2>1. IsFiniteSet({TRUE} \cup {FALSE})
    BY FS_Singleton, FS_AddElement
  <2>2. BOOLEAN = {TRUE} \cup {FALSE}
    OBVIOUS
  <2> QED
    BY <2>1, <2>2
<1>2. ASSUME NEW d \in Disk PROVE IsFiniteSet([disk : {d}, part : PartsOf(d), dressed : BOOLEAN])
  <2>1. PartsOf(d) \in SUBSET {"none", "bare1", "bare2", "mark1", "mark2"}
    BY DEF PartsOf, Bare, Marked
  <2>2. IsFiniteSet({"none", "bare1", "bare2", "mark1", "mark2"})
    <3> DEFINE two == {"none"} \cup {"bare1"}
               three == two \cup {"bare2"}
               four == three \cup {"mark1"}
    <3>1. IsFiniteSet(two)
      BY FS_Singleton, FS_AddElement
    <3>2. IsFiniteSet(three)
      BY <3>1, FS_AddElement
    <3>3. IsFiniteSet(four)
      BY <3>2, FS_AddElement
    <3>4. IsFiniteSet(four \cup {"mark2"})
      BY <3>3, FS_AddElement
    <3> QED
      BY <3>4
  <2>3. IsFiniteSet(PartsOf(d) \X BOOLEAN)
    BY <1>1, <2>1, <2>2, FS_Subset, FS_Product
  <2> DEFINE f == [x \in PartsOf(d) \X BOOLEAN |-> [disk |-> d, part |-> x[1], dressed |-> x[2]]]
             T == [disk : {d}, part : PartsOf(d), dressed : BOOLEAN]
  <2>4. f \in Surjection(PartsOf(d) \X BOOLEAN, T)
    <3>1. f \in [PartsOf(d) \X BOOLEAN -> T]
      OBVIOUS
    <3>2. ASSUME NEW t \in T PROVE \E x \in PartsOf(d) \X BOOLEAN : f[x] = t
      <4>1. <<t.part, t.dressed>> \in PartsOf(d) \X BOOLEAN
        OBVIOUS
      <4>2. f[<<t.part, t.dressed>>] = t
        BY <4>1
      <4> QED
        BY <4>1, <4>2
    <3> HIDE DEF f
    <3> QED
      BY <3>1, <3>2 DEF Surjection
  <2> HIDE DEF f
  <2> QED
    BY <2>3, <2>4, FS_Surjection
<1> DEFINE U == {[disk : {d}, part : PartsOf(d), dressed : BOOLEAN] : d \in Disk}
<1>3. IsFiniteSet(U)
  <2> DEFINE g == [d \in Disk |-> [disk : {d}, part : PartsOf(d), dressed : BOOLEAN]]
  <2>1. g \in Surjection(Disk, U)
    BY DEF Surjection
  <2> QED
    BY <2>1, NamesAssumption, FS_Surjection
<1>4. \A T \in U : IsFiniteSet(T)
  BY <1>2
<1> HIDE DEF U
<1>5. IsFiniteSet(UNION U)
  BY <1>3, <1>4, FS_UNION
<1> QED
  BY <1>5 DEF Name, U

-----------------------------------------------------------------------------
(* What zpool status lists, and what is found in it row by row. *)
Rows == [row : {"vdev", "spares"} \cup FlashClasses] \cup [row : {"leaf"}, name : Name]
Found == [section : {"data", "flash"}, data : SUBSET Normals, flash : SUBSET Normals]
NothingFound == [section |-> "data", data |-> {}, flash |-> {}]
RowOp == [x \in Found \X Rows |-> ParseRow(x[1], x[2])]

(* What leaves of these names add. *)
Add(found, names) ==
  IF found.section = "data" THEN [found EXCEPT !.data = @ \cup Normalized(names)]
                            ELSE [found EXCEPT !.flash = @ \cup Normalized(names)]

LEMMA RowParsed ==
  ASSUME NEW found \in Found, NEW r \in Rows
  PROVE  /\ ParseRow(found, r) \in Found
         /\ r.row \in FlashClasses => ParseRow(found, r) = [found EXCEPT !.section = "flash"]
         /\ r.row = "spares" => ParseRow(found, r) = [found EXCEPT !.section = "data"]
         /\ r.row = "vdev" => ParseRow(found, r) = found
         /\ r.row = "leaf" => ParseRow(found, r) = Add(found, {r.name})
<1>1. CASE r.row \in FlashClasses
  BY <1>1 DEF ParseRow, FlashClasses, Found
<1>2. CASE r.row = "spares"
  BY <1>2 DEF ParseRow, FlashClasses, Found
<1>3. CASE r.row = "vdev"
  BY <1>3 DEF ParseRow, FlashClasses, Found
<1>4. CASE r.row = "leaf"
  <2>1. r.name \in Name /\ Normalize(r.name) \in Normals
    BY <1>4 DEF Rows, FlashClasses, Normals
  <2>2. Normalized({r.name}) = {Normalize(r.name)}
    BY DEF Normalized
  <2>3. ParseRow(found, r) = [found EXCEPT ![found.section] = @ \cup {Normalize(r.name)}]
    BY <1>4 DEF ParseRow, FlashClasses
  <2>4. ParseRow(found, r) = Add(found, {r.name})
    <3>1. CASE found.section = "data"
      BY <2>2, <2>3, <3>1 DEF Add, Found
    <3>2. CASE found.section = "flash"
      BY <2>2, <2>3, <3>2 DEF Add, Found
    <3> QED
      BY <3>1, <3>2 DEF Found
  <2>5. Add(found, {r.name}) \in Found
    BY <2>1, <2>2 DEF Add, Found
  <2> QED
    BY <1>4, <2>4, <2>5 DEF FlashClasses
<1> QED
  BY <1>1, <1>2, <1>3, <1>4 DEF Rows

LEMMA RowOpTyped == RowOp \in [Found \X Rows -> Found]
BY RowParsed DEF RowOp

LEMMA AddTyped ==
  ASSUME NEW found \in Found, NEW names \in SUBSET Name
  PROVE  Add(found, names) \in Found
<1>1. Normalized(names) \in SUBSET Normals
  BY DEF Normalized, Normals
<1> QED
  BY <1>1 DEF Add, Found

LEMMA AddMore ==
  ASSUME NEW found \in Found, NEW names \in SUBSET Name, NEW n \in Name
  PROVE  Add(Add(found, names), {n}) = Add(found, names \cup {n})
<1>1. Normalized(names \cup {n}) = Normalized(names) \cup Normalized({n})
  BY DEF Normalized
<1> QED
  BY <1>1 DEF Add, Found

(* parseZpoolStatus is where the run over its rows ends. *)
LEMMA RowsFold ==
  ASSUME NEW rows \in Seq(Rows), NEW end, Folded(Found, RowOp, NothingFound, rows, end)
  PROVE  parseZpoolStatus(rows) = end
<1> DEFINE n == Len(rows)
           Folds(F) == F = [s \in SUBSET DOMAIN rows |->
                              IF s = {} THEN NothingFound ELSE ParseRow(F[s \ {Max(s)}], rows[Max(s)])]
<1>1. n \in Nat /\ DOMAIN rows = 1 .. n /\ \A i \in 1 .. n : rows[i] \in Rows
  BY LenProperties, ElementOfSeq
<1>2. NothingFound \in Found
  BY DEF NothingFound, Found
<1>3. \E F : Folds(F)
  <2>1. PICK F \in [SUBSET (1 .. n) -> Found] : Iterates(F, n, RowOp, NothingFound, rows)
    BY <1>2, RowOpTyped, IterationExists
  <2>2. ASSUME NEW s \in SUBSET (1 .. n)
        PROVE  F[s] = IF s = {} THEN NothingFound ELSE ParseRow(F[s \ {Max(s)}], rows[Max(s)])
    <3>1. F[s] = IF s = {} THEN NothingFound ELSE RowOp[<<F[s \ {Max(s)}], rows[Max(s)]>>]
      BY <2>1 DEF Iterates
    <3>2. ASSUME s # {}
          PROVE  RowOp[<<F[s \ {Max(s)}], rows[Max(s)]>>] = ParseRow(F[s \ {Max(s)}], rows[Max(s)])
      <4>1. Max(s) \in 1 .. n /\ s \ {Max(s)} \in SUBSET (1 .. n)
        BY <1>1, <3>2, LargestExists
      <4> QED
        BY <1>1, <2>1, <4>1 DEF RowOp
    <3> QED
      BY <3>1, <3>2
  <2>3. Folds(F)
    BY <1>1, <2>1, <2>2
  <2> QED
    BY <2>3
<1>4. PICK F : Folds(F) /\ parseZpoolStatus(rows) = F[DOMAIN rows]
  BY <1>3 DEF parseZpoolStatus, NothingFound, FoldLeft, MapThenFoldSet
<1>5. F[1 .. 0] = NothingFound
  <2>1. 1 .. 0 = {} /\ {} \in SUBSET DOMAIN rows
    OBVIOUS
  <2> QED
    BY <1>4, <2>1
<1>6. ASSUME NEW i \in 1 .. n PROVE F[1 .. i] = ParseRow(F[1 .. (i - 1)], rows[i])
  <2>1. i \in Nat /\ 1 .. i \in SUBSET DOMAIN rows /\ i \in 1 .. i
    BY <1>1
  <2>2. Max(1 .. i) = i /\ (1 .. i) \ {i} = 1 .. (i - 1)
    BY <2>1, LargestOfPrefix
  <2> QED
    BY <1>4, <2>1, <2>2
<1>7. Follows(F, Found, RowOp, rows)
  BY <1>1, <1>6 DEF Follows, RowOp
<1>8. F[1 .. n] = end
  BY <1>2, <1>5, <1>7, RowOpTyped, FoldEnds
<1> QED
  BY <1>1, <1>4, <1>8

(* The leaves of a class add its names to where the rows stand. *)
LEMMA LeavesAdd ==
  ASSUME NEW found \in Found, NEW names \in SUBSET Name
  PROVE  Leaves(names) \in Seq(Rows) /\ Folded(Found, RowOp, found, Leaves(names), Add(found, names))
<1> DEFINE T == {Leaf(n) : n \in names}
           ls == Leaves(names)
<1>1. T \subseteq Rows /\ \A n \in names : Leaf(n).row = "leaf" /\ Leaf(n).name = n
  BY DEF Leaf, Rows
<1>2. IsFiniteSet(T)
  <2>1. IsFiniteSet(names)
    BY NamesAreFinite, FS_Subset
  <2> DEFINE f == [n \in names |-> Leaf(n)]
  <2>2. f \in Surjection(names, T)
    BY DEF Surjection
  <2> QED
    BY <2>1, <2>2, FS_Surjection
<1>3. ls \in Seq(T) /\ {ls[i] : i \in DOMAIN ls} = T
  <2> HIDE DEF T
  <2>1. SetToSeq(T) \in Seq(T) /\ {SetToSeq(T)[i] : i \in DOMAIN SetToSeq(T)} = T
    BY <1>2, SetToSeqListsAll
  <2>2. ls = SetToSeq(T)
    BY DEF Leaves, T
  <2> QED
    BY <2>1, <2>2
<1> HIDE DEF ls
<1> DEFINE len == Len(ls)
           named(k) == {ls[i].name : i \in 1 .. k}
           r == [k \in 0 .. len |-> Add(found, named(k))]
<1>4. len \in Nat /\ DOMAIN ls = 1 .. len /\ \A i \in 1 .. len : ls[i] \in T
  <2> HIDE DEF T
  <2> QED
    BY <1>3, LenProperties, ElementOfSeq
<1>5. \A i \in 1 .. len : ls[i] \in Rows /\ ls[i].row = "leaf" /\ ls[i].name \in names
  BY <1>1, <1>4
<1>6. ls \in Seq(Rows)
  BY <1>4, <1>5, <1>3
<1> HIDE DEF len
<1>7. \A k \in 0 .. len : named(k) \in SUBSET Name
  BY <1>4, <1>5
<1>8. r[0] = found
  <2>1. named(0) = {} /\ Normalized({}) = {}
    BY DEF Normalized
  <2>2. Add(found, {}) = found
    BY <2>1 DEF Add, Found
  <2> QED
    BY <1>4, <2>1, <2>2
<1>9. named(len) = names
  <2>1. \A n \in names : \E i \in 1 .. len : ls[i] = Leaf(n)
    BY <1>3, <1>4
  <2>2. \A n \in names : \E i \in 1 .. len : ls[i].name = n
    BY <1>1, <2>1
  <2> QED
    BY <1>5, <2>2
<1>10. ASSUME NEW i \in 1 .. len PROVE r[i] = RowOp[<<r[i - 1], ls[i]>>]
  <2>1. named(i) = named(i - 1) \cup {ls[i].name} /\ i \in 0 .. len /\ i - 1 \in 0 .. len
    BY <1>4
  <2>2. named(i - 1) \in SUBSET Name /\ ls[i].name \in Name /\ Add(found, named(i - 1)) \in Found
    BY <1>5, <1>7, <2>1, AddTyped
  <2>3. ParseRow(Add(found, named(i - 1)), ls[i]) = Add(Add(found, named(i - 1)), {ls[i].name})
    BY <1>5, <2>2, RowParsed
  <2>4. Add(Add(found, named(i - 1)), {ls[i].name}) = Add(found, named(i))
    BY <2>1, <2>2, AddMore
  <2> HIDE DEF named
  <2>5. r[i] = Add(found, named(i)) /\ r[i - 1] = Add(found, named(i - 1))
    BY <2>1
  <2>6. RowOp[<<Add(found, named(i - 1)), ls[i]>>] = ParseRow(Add(found, named(i - 1)), ls[i])
    BY <1>5, <2>2 DEF RowOp
  <2> HIDE DEF r
  <2> QED
    BY <2>3, <2>4, <2>5, <2>6
<1>11. r \in [0 .. len -> Found]
  BY <1>7, AddTyped
<1>12. r[len] = Add(found, names)
  <2>1. len \in 0 .. len
    BY <1>4
  <2> HIDE DEF named
  <2> QED
    BY <1>9, <2>1
<1> HIDE DEF r
<1>13. Folded(Found, RowOp, found, ls, Add(found, names))
  BY <1>8, <1>10, <1>11, <1>12 DEF Folded, len
<1> QED
  BY <1>6, <1>13 DEF ls

(* A class with a heading. *)
LEMMA ClassAdds ==
  ASSUME NEW found \in Found, NEW names \in SUBSET Name, NEW h, Heading(h) \in Rows
  PROVE  LET rows == <<Heading(h)>> \o Leaves(names)
             end  == Add(ParseRow(found, Heading(h)), names)
         IN  rows \in Seq(Rows) /\ end \in Found /\ Folded(Found, RowOp, found, rows, end)
<1> DEFINE x == ParseRow(found, Heading(h))
           hs == <<Heading(h)>>
           ls == Leaves(names)
<1>1. x \in Found /\ x = RowOp[<<found, Heading(h)>>]
  BY RowParsed DEF RowOp
<1>2. hs \in Seq(Rows)
  OBVIOUS
<1>3. Folded(Found, RowOp, found, hs, x)
  <2> HIDE DEF x
  <2> QED
    BY <1>1, RowOpTyped, FoldedOne
<1> HIDE DEF x, hs
<1>4. ls \in Seq(Rows) /\ Folded(Found, RowOp, x, ls, Add(x, names))
  BY <1>1, LeavesAdd
<1> HIDE DEF ls
<1>5. hs \o ls \in Seq(Rows) /\ Folded(Found, RowOp, found, hs \o ls, Add(x, names))
  BY <1>2, <1>3, <1>4, FoldedConcat, ConcatProperties
<1>6. Add(x, names) \in Found
  BY <1>1, AddTyped
<1> QED
  BY <1>5, <1>6 DEF x, hs, ls

(* daemon.go and pool.go take a pool for these: its data disks and its     *)
(* spares, by the names Normalize gives them, whatever the order in which  *)
(* zpool status lists them and whatever flash devices stand between.       *)
THEOREM DataAndSpares ==
  ASSUME NEW pool \in [Range(Classes) -> SUBSET Name]
  PROVE  DisksOfPool(pool) = Normalized(pool.data \cup pool.spares)
<1> DEFINE ss == [i \in DOMAIN Classes |->
                   IF Classes[i] = "data" THEN <<Heading("vdev")>> \o Leaves(pool.data)
                   ELSE IF pool[Classes[i]] = {} THEN <<>>
                   ELSE <<Heading(Classes[i])>> \o Leaves(pool[Classes[i]])]
           Chunk(c) == IF pool[c] = {} THEN <<>> ELSE <<Heading(c)>> \o Leaves(pool[c])
           Takes(x, rows, y) == rows \in Seq(Rows) /\ y \in Found /\ Folded(Found, RowOp, x, rows, y)
<1>1. /\ DOMAIN Classes = 1 .. 6 /\ Classes[1] = "data" /\ Classes[2] = "dedup"
      /\ Classes[3] = "special" /\ Classes[4] = "logs" /\ Classes[5] = "cache" /\ Classes[6] = "spares"
  BY DEF Classes
<1>2. /\ Range(Classes) = FlashClasses \cup {"data", "spares"}
      /\ \A c \in FlashClasses : c # "data"
  BY <1>1 DEF Range, FlashClasses
<1>3. \A c \in {"vdev", "spares"} \cup FlashClasses : Heading(c) \in Rows /\ Heading(c).row = c
  BY DEF Heading, Rows
<1>4. \A c \in Range(Classes) : pool[c] \in SUBSET Name
  OBVIOUS
<1>5. PICK y1 \in Found :
        Takes(NothingFound, ss[1], y1) /\ y1.data = Normalized(pool.data) /\ y1.section = "data"
  <2>1. NothingFound \in Found
    BY DEF NothingFound, Found
  <2>2. ParseRow(NothingFound, Heading("vdev")) = NothingFound
    BY <1>3, <2>1, RowParsed
  <2>3. Takes(NothingFound, <<Heading("vdev")>> \o Leaves(pool.data), Add(NothingFound, pool.data))
    BY <1>2, <1>3, <1>4, <2>1, <2>2, ClassAdds
  <2>4. Add(NothingFound, pool.data).data = Normalized(pool.data)
        /\ Add(NothingFound, pool.data).section = "data"
    BY DEF Add, NothingFound
  <2>5. ss[1] = <<Heading("vdev")>> \o Leaves(pool.data)
    BY <1>1
  <2> HIDE DEF ss
  <2> QED
    BY <2>3, <2>4, <2>5
<1>6. ASSUME NEW c \in FlashClasses, NEW x \in Found
      PROVE  \E y \in Found : Takes(x, Chunk(c), y) /\ y.data = x.data /\ (pool[c] = {} => y = x)
  <2>1. CASE pool[c] = {}
    <3>1. Chunk(c) = <<>> /\ <<>> \in Seq(Rows)
      BY <2>1
    <3>2. Folded(Found, RowOp, x, <<>>, x)
      BY FoldedNone
    <3> HIDE DEF Chunk
    <3> QED
      BY <3>1, <3>2
  <2>2. CASE pool[c] # {}
    <3> DEFINE f == ParseRow(x, Heading(c))
    <3>1. f = [x EXCEPT !.section = "flash"]
      <4>1. Heading(c) \in Rows /\ Heading(c).row \in FlashClasses
        BY <1>3
      <4> QED
        BY <4>1, RowParsed
    <3>2. Chunk(c) = <<Heading(c)>> \o Leaves(pool[c])
      BY <2>2
    <3>3. Takes(x, <<Heading(c)>> \o Leaves(pool[c]), Add(f, pool[c]))
      BY <1>2, <1>3, <1>4, ClassAdds
    <3>4. Add(f, pool[c]).data = x.data
      BY <3>1 DEF Add, Found
    <3> HIDE DEF Chunk, f
    <3> QED
      BY <2>2, <3>2, <3>3, <3>4
  <2> QED
    BY <2>1, <2>2
<1>7. ASSUME NEW x \in Found
      PROVE  \E y \in Found : Takes(x, Chunk("spares"), y) /\ y.data = x.data \cup Normalized(pool.spares)
  <2>1. CASE pool.spares = {}
    <3>1. Chunk("spares") = <<>> /\ <<>> \in Seq(Rows) /\ Normalized(pool.spares) = {}
      BY <2>1 DEF Normalized
    <3>2. Folded(Found, RowOp, x, <<>>, x)
      BY FoldedNone
    <3> HIDE DEF Chunk
    <3> QED
      BY <3>1, <3>2
  <2>2. CASE pool.spares # {}
    <3> DEFINE f == ParseRow(x, Heading("spares"))
    <3>1. f = [x EXCEPT !.section = "data"]
      BY <1>3, RowParsed
    <3>2. Chunk("spares") = <<Heading("spares")>> \o Leaves(pool.spares)
      BY <2>2
    <3>3. Takes(x, <<Heading("spares")>> \o Leaves(pool.spares), Add(f, pool.spares))
      BY <1>2, <1>3, <1>4, ClassAdds
    <3>4. Add(f, pool.spares).data = x.data \cup Normalized(pool.spares)
      BY <3>1 DEF Add, Found
    <3> HIDE DEF Chunk, f
    <3> QED
      BY <3>2, <3>3, <3>4
  <2> QED
    BY <2>1, <2>2
<1> HIDE DEF Takes
<1>8. /\ ss[2] = Chunk("dedup") /\ ss[3] = Chunk("special") /\ ss[4] = Chunk("logs")
      /\ ss[5] = Chunk("cache") /\ ss[6] = Chunk("spares")
  BY <1>1
<1> HIDE DEF Chunk
<1>9. PICK y2 \in Found : Takes(y1, ss[2], y2) /\ y2.data = y1.data
  <2>1. "dedup" \in FlashClasses
    BY DEF FlashClasses
  <2> QED
    BY <1>6, <1>8, <2>1
<1>10. PICK y3 \in Found : Takes(y2, ss[3], y3) /\ y3.data = y1.data
  <2>1. "special" \in FlashClasses
    BY DEF FlashClasses
  <2>2. \E y \in Found : Takes(y2, Chunk("special"), y) /\ y.data = y2.data
    BY <1>6, <2>1
  <2> QED
    BY <1>8, <1>9, <2>2
<1>11. PICK y4 \in Found : Takes(y3, ss[4], y4) /\ y4.data = y1.data
  <2>1. "logs" \in FlashClasses
    BY DEF FlashClasses
  <2>2. \E y \in Found : Takes(y3, Chunk("logs"), y) /\ y.data = y3.data
    BY <1>6, <2>1
  <2> QED
    BY <1>8, <1>10, <2>2
<1>12. PICK y5 \in Found : Takes(y4, ss[5], y5) /\ y5.data = y1.data
  <2>1. "cache" \in FlashClasses
    BY DEF FlashClasses
  <2>2. \E y \in Found : Takes(y4, Chunk("cache"), y) /\ y.data = y4.data
    BY <1>6, <2>1
  <2> QED
    BY <1>8, <1>11, <2>2
<1>13. PICK y6 \in Found : Takes(y5, ss[6], y6) /\ y6.data = y1.data \cup Normalized(pool.spares)
  BY <1>7, <1>8, <1>12
<1> DEFINE ys == <<NothingFound, y1, y2, y3, y4, y5, y6>>
           v == [k \in 0 .. 6 |-> ys[k + 1]]
<1>14. NothingFound \in Found
  BY DEF NothingFound, Found
<1>15. /\ v \in [0 .. 6 -> Found] /\ v[0] = NothingFound /\ v[1] = y1 /\ v[2] = y2 /\ v[3] = y3
       /\ v[4] = y4 /\ v[5] = y5 /\ v[6] = y6
  BY <1>14
<1> HIDE DEF v
<1>16. ss \in Seq(Seq(Rows)) /\ Len(ss) = 6
  <2>1. DOMAIN ss = 1 .. 6 /\ ss = [i \in 1 .. 6 |-> ss[i]]
    BY <1>1
  <2> HIDE DEF ss
  <2>2. \A i \in 1 .. 6 : ss[i] \in Seq(Rows)
    <3>1. \A i \in 1 .. 6 : i = 1 \/ i = 2 \/ i = 3 \/ i = 4 \/ i = 5 \/ i = 6
      OBVIOUS
    <3> QED
      BY <1>5, <1>9, <1>10, <1>11, <1>12, <1>13, <3>1 DEF Takes
  <2> QED
    BY <2>1, <2>2
<1> HIDE DEF ss
<1>17. \A i \in 1 .. 6 : Folded(Found, RowOp, v[i - 1], ss[i], v[i])
  <2>1. ASSUME NEW i \in 1 .. 6 PROVE Folded(Found, RowOp, v[i - 1], ss[i], v[i])
    <3>1. i = 1 \/ i = 2 \/ i = 3 \/ i = 4 \/ i = 5 \/ i = 6
      OBVIOUS
    <3> QED
      BY <1>5, <1>9, <1>10, <1>11, <1>12, <1>13, <1>15, <3>1 DEF Takes
  <2> QED
    BY <2>1
<1>18. FlattenSeq(ss) \in Seq(Rows) /\ Folded(Found, RowOp, v[0], FlattenSeq(ss), v[6])
  BY <1>15, <1>16, <1>17, FoldedFlatten
<1>19. zpoolStatus(pool) = FlattenSeq(ss)
  BY DEF zpoolStatus, ss
<1>20. parseZpoolStatus(zpoolStatus(pool)) = y6
  BY <1>15, <1>18, <1>19, RowsFold
<1>21. Normalized(pool.data \cup pool.spares) = Normalized(pool.data) \cup Normalized(pool.spares)
  BY DEF Normalized
<1> QED
  BY <1>5, <1>13, <1>20, <1>21 DEF DisksOfPool

-----------------------------------------------------------------------------
(* What the runs of the program keep to.  The file and the host are of the *)
(* kinds assumed; what was parsed is what the file says; what runs was     *)
(* checked, and what was refused does not pass; a daemon manages what its  *)
(* file and host determine, and only a daemon does.                        *)
Statuses == {"stopped", "unreadable", "inconsistent", "parsed", "refused",
             "running", "disabled", "nothing", "managing"}

Stored ==
  /\ text \in Seq(Lines) /\ host \in Hosts
  /\ file \in {"written", "missing", "created"} /\ asked \in {"none", "yes", "no"}

Known ==
  /\ cfg \in Configs /\ activity = cfg["activity"] /\ timetable = cfg["active-timetable"]
  /\ status \in Statuses
  /\ hour \in 0 .. Hours - 1 /\ minute \in 0 .. HourLength - 1

Accepted ==
  /\ Loaded => Consistent(cfg) /\ validateNoOverlap(timetable)
  /\ status = "refused" => ~validateNoOverlap(timetable)
  /\ status = "inconsistent" => ~Consistent(cfg)

FileSays ==
  status \notin {"stopped", "unreadable"} => parseConfig(text) = [ok |-> TRUE, cfg |-> cfg]

Resolved ==
  /\ status = "managing" => managed = managedDevices /\ owner \in devicePoolMap /\ cfg.enabled
  /\ status # "managing" => managed = {} /\ owner = <<>>
  /\ status = "nothing" => managedDevices = {}
  /\ status = "disabled" => ~cfg.enabled

StartInv == Stored /\ Known /\ Accepted /\ FileSays /\ Resolved /\ report.active \subseteq managed

LEMMA StartInvInit == StartInit => StartInv
<1> SUFFICES ASSUME StartInit PROVE StartInv
  OBVIOUS
<1>1. Stored
  BY StartAssumption DEF StartInit, Stored
<1>2. Known
  <2>1. defaultConfig["activity"] = <<>> /\ defaultConfig["active-timetable"] = <<>>
    BY KeysAre DEF defaultConfig, ListKeys
  <2> QED
    BY <2>1, DefaultTyped, TimeAssumption DEF StartInit, Known, Statuses
<1>3. Accepted /\ FileSays /\ Resolved /\ report.active \subseteq managed
  BY DEF StartInit, Accepted, FileSays, Resolved, Loaded, NoReport
<1> QED
  BY <1>1, <1>2, <1>3 DEF StartInv

(* What is resolved depends on the configuration and the host only. *)
LEMMA DevicesKept ==
  ASSUME cfg' = cfg, host' = host
  PROVE  /\ managedDevices' = managedDevices /\ devicePoolMap' = devicePoolMap
         /\ neverSleepSet' = neverSleepSet
<1>1. \A q : PoolDisks(q)' = PoolDisks(q)
  BY DEF PoolDisks
<1>2. BootPoolDisks' = BootPoolDisks
  BY <1>1 DEF BootPoolDisks, BootPool, PoolDisks
<1>3. neverSleepSet' = neverSleepSet
  BY <1>2 DEF neverSleepSet
<1>4. managedDevices' = managedDevices
  BY <1>3 DEF managedDevices, PoolDisks
<1>5. devicePoolMap' = devicePoolMap
  BY <1>4 DEF devicePoolMap, PoolDisks
<1> QED
  BY <1>3, <1>4, <1>5

(* Samples and commands leave everything but their traces. *)
LEMMA TracesOnly ==
  ASSUME StartInv, report'.active \subseteq managed,
         UNCHANGED <<config, status, clock, text, file, asked, host, devices>>
  PROVE  StartInv'
<1>1. Stored'
  BY DEF StartInv, Stored
<1>2. Known'
  BY DEF StartInv, Known, config, clock
<1>3. Accepted' /\ FileSays'
  BY DEF StartInv, Accepted, FileSays, Loaded, config
<1>4. Resolved' /\ report'.active \subseteq managed'
  BY DevicesKept DEF StartInv, Resolved, config, devices
<1> QED
  BY <1>1, <1>2, <1>3, <1>4 DEF StartInv

LEMMA ExistingTyped == StartInv => Existing \in Seq(Lines) /\ OnceRead \in {"written", "created"}
BY MarshalTyped DEF StartInv, Stored, Existing, OnceRead

LEMMA CountedTraces ==
  ASSUME NEW seen, NEW busy, Counted(seen, busy)
  PROVE  /\ status = "managing" /\ slept' = {} /\ report'.active \subseteq managed
         /\ UNCHANGED <<config, status, clock, text, file, asked, host, devices>>
BY DEF Counted

LEMMA StartInvStep == StartInv /\ [StartNext]_startVars => StartInv'
<1> SUFFICES ASSUME StartInv, [StartNext]_startVars PROVE StartInv'
  OBVIOUS
<1>1. ASSUME NEW on \in BOOLEAN, Edit(on) PROVE StartInv'
  <2>1. text' \in Seq(Lines) /\ OnceRead \in {"written", "created"}
    BY <1>1, EditTyped, ExistingTyped DEF Edit
  <2>2. Stored'
    BY <1>1, <2>1 DEF Edit, StartInv, Stored
  <2>3. Known' /\ Accepted' /\ FileSays'
    BY <1>1 DEF Edit, StartInv, Known, Accepted, FileSays, Loaded, config, clock
  <2>4. Resolved' /\ report'.active \subseteq managed'
    BY <1>1 DEF Edit, StartInv, Resolved, devices, NoEffect, NoReport
  <2> QED
    BY <2>2, <2>3, <2>4 DEF StartInv
<1>2. CASE Load
  <2>1. text' \in Seq(Lines) /\ OnceRead \in {"written", "created"}
    BY <1>2, ExistingTyped DEF Load
  <2>2. Stored'
    BY <1>2, <2>1 DEF Load, StartInv, Stored
  <2>3. parseConfig(Existing) \in Results
    BY ExistingTyped, ParsedTyped
  <2>4. Known'
    BY <1>2, <2>3 DEF Load, StartInv, Known, Statuses, Results, clock
  <2>5. FileSays'
    BY <1>2, <2>3 DEF Load, FileSays, Results
  <2>6. Accepted' /\ Resolved' /\ report'.active \subseteq managed'
    BY <1>2 DEF Load, StartInv, Accepted, Resolved, Loaded, devices, NoEffect, NoReport
  <2> QED
    BY <2>2, <2>4, <2>5, <2>6 DEF StartInv
<1>3. CASE Validate
  <2>1. /\ status = "parsed" /\ status' \in {"inconsistent", "running", "refused"}
        /\ UNCHANGED <<activity, timetable, clock>>
        /\ status' \in {"running", "refused"} => Consistent(cfg)
        /\ status' = "running" => validateNoOverlap(timetable)
        /\ status' = "refused" => ~validateNoOverlap(timetable)
        /\ status' = "inconsistent" => ~Consistent(cfg)
    BY <1>3 DEF Validate, ValidateConfig, clock
  <2>2. UNCHANGED <<text, file, asked, cfg, host, devices>> /\ report' = NoReport
    BY <1>3 DEF Validate, NoEffect
  <2>3. Stored' /\ Known'
    BY <2>1, <2>2 DEF StartInv, Stored, Known, Statuses, clock
  <2>4. Accepted' /\ FileSays'
    BY <2>1, <2>2 DEF StartInv, Accepted, FileSays, Loaded
  <2>5. Resolved' /\ report'.active \subseteq managed'
    BY <2>1, <2>2 DEF StartInv, Resolved, devices, NoReport
  <2> QED
    BY <2>3, <2>4, <2>5 DEF StartInv
<1>4. CASE Resolve
  <2>1. /\ status = "running"
        /\ status' = IF ~cfg.enabled THEN "disabled"
                     ELSE IF managedDevices = {} THEN "nothing" ELSE "managing"
        /\ status' = "managing" => managed' = managedDevices /\ owner' \in devicePoolMap
        /\ status' # "managing" => UNCHANGED devices
        /\ UNCHANGED <<config, clock, text, file, asked, host>> /\ report' = NoReport
    BY <1>4 DEF Resolve, NoEffect
  <2>2. cfg.enabled \in BOOLEAN
    BY KeysAre DEF StartInv, Known, Configs, ParsedAs
  <2>3. Stored' /\ Known'
    BY <2>1 DEF StartInv, Stored, Known, Statuses, config, clock
  <2>4. Accepted' /\ FileSays'
    BY <2>1 DEF StartInv, Accepted, FileSays, Loaded, config
  <2>5. Resolved' /\ report'.active \subseteq managed'
    BY <2>1, <2>2, DevicesKept DEF StartInv, Resolved, config, devices, NoReport
  <2> QED
    BY <2>3, <2>4, <2>5 DEF StartInv
<1>5. CASE Exit
  <2>1. Stored' /\ Accepted' /\ FileSays' /\ Resolved' /\ report'.active \subseteq managed'
    BY <1>5 DEF Exit, StartInv, Stored, Accepted, FileSays, Resolved, Loaded, NoEffect, NoReport
  <2>2. Known'
    <3>1. defaultConfig["activity"] = <<>> /\ defaultConfig["active-timetable"] = <<>>
      BY KeysAre DEF defaultConfig, ListKeys
    <3> QED
      BY <1>5, <3>1, DefaultTyped DEF Exit, StartInv, Known, Statuses, clock
  <2> QED
    BY <2>1, <2>2 DEF StartInv
<1>6. CASE Tick
  <2>1. hour' \in 0 .. Hours - 1 /\ minute' \in 0 .. HourLength - 1
    BY <1>6, ClockGoesOn DEF Tick, StartInv, Known
  <2>2. UNCHANGED <<activity, timetable, status, cfg, text, file, asked, host, devices>> /\ report' = NoReport
    BY <1>6 DEF Tick, NextMinute, NoEffect
  <2>3. Stored' /\ Known'
    BY <2>1, <2>2 DEF StartInv, Stored, Known
  <2>4. Accepted' /\ FileSays'
    BY <2>2 DEF StartInv, Accepted, FileSays, Loaded
  <2>5. Resolved' /\ report'.active \subseteq managed'
    BY <2>2, DevicesKept DEF StartInv, Resolved, devices, NoReport
  <2> QED
    BY <2>3, <2>4, <2>5 DEF StartInv
<1>7. ASSUME NEW busy, NEW through, LinuxSample(busy, through) \/ IostatSample(through, busy)
      PROVE  StartInv'
  BY <1>7, CountedTraces, TracesOnly DEF LinuxSample, IostatSample
<1>8. ASSUME NEW names, Command(names) PROVE StartInv'
  BY <1>8, TracesOnly DEF Command, NoReport
<1>9. CASE UNCHANGED startVars
  BY <1>9, TracesOnly DEF startVars, config, clock, devices, StartInv
<1> QED
  BY <1>1, <1>2, <1>3, <1>4, <1>5, <1>6, <1>7, <1>8, <1>9
     DEF StartNext, DaemonSleep, SleepNow, SleepPool

THEOREM StartInvAlways == StartSpec => []StartInv
BY StartInvInit, StartInvStep, PTL DEF StartSpec

(* The type invariant.  A managed name is one that Normalize left, and of  *)
(* each the pool is known, if it has one.                                  *)
LEMMA NormalForm ==
  ASSUME NEW n \in Name
  PROVE  Normalize(n).part \in {"none", "mark2"} /\ ~Normalize(n).dressed
<1>1. PICK d \in Disk : n \in [disk : {d}, part : PartsOf(d), dressed : BOOLEAN]
  BY DEF Name
<1>2. n.part \in {"none", "bare1", "bare2", "mark1", "mark2"}
  BY <1>1 DEF PartsOf, Bare, Marked
<1> QED
  BY <1>1, <1>2 DEF Normalize, Whole, Bare

LEMMA HostTyped ==
  ASSUME StartInv
  PROVE  /\ \A q \in Pool : host.pools[q] \in [Range(Classes) -> SUBSET Name]
         /\ \A q \in Pool : PoolDisks(q) = Normalized(DataOf(q)) /\ DataOf(q) \in SUBSET Name
         /\ host.boot \in SUBSET Name /\ BootPool \in Pool \cup {NoPool}
         /\ cfg.disks \in SUBSET Name /\ cfg.exclude \in SUBSET Name /\ cfg.pools \in SUBSET Pool
<1>1. /\ \A q \in Pool : host.pools[q] \in [Range(Classes) -> SUBSET Name]
      /\ host.boot \in SUBSET Name /\ BootPool \in Pool \cup {NoPool}
  BY DEF StartInv, Stored, Hosts, BootPool
<1>2. "data" \in Range(Classes) /\ "spares" \in Range(Classes)
  <2>1. 1 \in DOMAIN Classes /\ 6 \in DOMAIN Classes /\ Classes[1] = "data" /\ Classes[6] = "spares"
    BY DEF Classes
  <2> QED
    BY <2>1 DEF Range
<1>3. \A q \in Pool : PoolDisks(q) = Normalized(DataOf(q)) /\ DataOf(q) \in SUBSET Name
  <2>1. ASSUME NEW q \in Pool, q \in host.answered
        PROVE  PoolDisks(q) = Normalized(DataOf(q)) /\ DataOf(q) \in SUBSET Name
    BY <1>1, <1>2, <2>1, DataAndSpares DEF PoolDisks, DataOf
  <2>2. ASSUME NEW q \in Pool, q \notin host.answered
        PROVE  PoolDisks(q) = Normalized(DataOf(q)) /\ DataOf(q) \in SUBSET Name
    BY <2>2 DEF PoolDisks, DataOf, Normalized
  <2> QED
    BY <2>1, <2>2
<1>4. cfg.disks \in SUBSET Name /\ cfg.exclude \in SUBSET Name /\ cfg.pools \in SUBSET Pool
  BY KeysAre DEF StartInv, Known, Configs, ParsedAs
<1> QED
  BY <1>1, <1>3, <1>4

LEMMA TypeOfInv == StartInv => StartTypeOK
<1> SUFFICES ASSUME StartInv PROVE StartTypeOK
  OBVIOUS
<1>1. status \in {"stopped", "unreadable", "inconsistent", "parsed", "refused"} \/ Loaded
  BY DEF StartInv, Known, Statuses, Loaded
<1>2. DOMAIN cfg = Keys /\ cfg.enabled \in BOOLEAN
  BY KeysAre DEF StartInv, Known, Configs, ParsedAs
<1>3. managed \subseteq {Normalize(n) : n \in Name}
  <2>1. \A q \in cfg.pools : PoolDisks(q) \subseteq {Normalize(n) : n \in Name}
    BY HostTyped DEF Normalized
  <2>2. Normalized(cfg.disks) \subseteq {Normalize(n) : n \in Name}
    BY HostTyped DEF Normalized
  <2>3. managedDevices \subseteq {Normalize(n) : n \in Name}
    BY <2>1, <2>2 DEF managedDevices
  <2> QED
    BY <2>3 DEF StartInv, Resolved
<1>4. \A d \in managed : d.part \in {"none", "mark2"} /\ ~d.dressed
  BY <1>3, NormalForm
<1>5. DOMAIN owner = managed /\ \A d \in managed : owner[d] \in Pool \cup {NoPool}
  <2>1. CASE status = "managing"
    <3>1. owner \in [managedDevices -> Pool \cup {NoPool}] /\ managed = managedDevices
      BY <2>1 DEF StartInv, Resolved, devicePoolMap
    <3> QED
      BY <3>1
  <2>2. CASE status # "managing"
    <3>1. owner = <<>> /\ managed = {} /\ DOMAIN <<>> = {}
      BY <2>2 DEF StartInv, Resolved
    <3> QED
      BY <3>1
  <2> QED
    BY <2>1, <2>2
<1> QED
  BY <1>1, <1>2, <1>4, <1>5 DEF StartTypeOK, StartInv, Stored, Known

(* Whatever the file and the host, every state of the program is well      *)
(* formed.                                                                 *)
THEOREM StartTypeCorrect == StartSpec => []StartTypeOK
BY StartInvAlways, TypeOfInv, PTL

-----------------------------------------------------------------------------
(* The timetables, as far as a process goes that loads them from a file.   *)
LEMMA TimetablesTyped ==
  ASSUME StartInv
  PROVE  /\ \A i \in DOMAIN timetable : timetable[i] \in MinWindow
         /\ \A i \in DOMAIN activity : activity[i] \in Window
<1>1. timetable \in Seq(MinWindow) /\ activity \in Seq(Window)
  BY KeysAre DEF StartInv, Known, Configs, ParsedAs
<1> QED
  BY <1>1, ElementOfSeq, LenProperties

(* The windows of every timetable that a file can hold. *)
LEMMA WindowsTyped ==
  ASSUME StartInv, NEW ws \in Timetables
  PROVE  /\ \A i \in DOMAIN ws : ws[i] \in MinWindow
         /\ Day \in Nat
         /\ \A i \in DOMAIN ws : \A m \in 0 .. Day - 1 : m \in Span(ws[i], Day) <=> Active(ws[i], m)
         /\ \A i \in DOMAIN ws : Span(ws[i], Day) \subseteq 0 .. Day - 1
<1>1. ws \in Seq(MinWindow)
  <2>1. /\ cfg["active-timetable"] \in Seq(MinWindow) /\ cfg["export-timetable"] \in Seq(MinWindow)
        /\ cfg["pool-window"] \in UNION {[P -> Seq(MinWindow)] : P \in SUBSET Pool}
    BY KeysAre DEF StartInv, Known, Configs, ParsedAs
  <2> QED
    BY <2>1 DEF Timetables
<1>2. \A i \in DOMAIN ws : ws[i] \in MinWindow
  BY <1>1, ElementOfSeq, LenProperties
<1>3. Day \in Nat
  BY TimeAssumption
<1>4. ASSUME NEW i \in DOMAIN ws, NEW m \in 0 .. Day - 1
      PROVE  m \in Span(ws[i], Day) <=> Active(ws[i], m)
  BY <1>2, <1>3, SpanIsActive DEF MinWindow
<1>5. ASSUME NEW i \in DOMAIN ws PROVE Span(ws[i], Day) \subseteq 0 .. Day - 1
  <2>1. ws[i].start \in 0 .. Day - 1
    BY <1>2 DEF MinWindow
  <2>2. \A k \in 0 .. Day - 1 : (ws[i].start + k) % Day \in 0 .. Day - 1
    BY <1>3, <2>1
  <2> QED
    BY <2>2 DEF Span
<1> QED
  BY <1>2, <1>3, <1>4, <1>5

(* config.go:326: nothing runs with a timetable of the host, of the        *)
(* exports or of a pool that has two windows in force at the same time,    *)
(* whatever the lines of its file and whatever the program did before.     *)
THEOREM LoadedNeverOverlaps == StartSpec => []LoadedAreDisjoint
<1>1. StartInv => LoadedAreDisjoint
  <2> SUFFICES ASSUME StartInv, Loaded, NEW ws \in Timetables, NEW i \in DOMAIN ws, NEW j \in DOMAIN ws,
                      Span(ws[i], Day) \cap Span(ws[j], Day) # {}
               PROVE  i = j
    BY DEF LoadedAreDisjoint
  <2>1. validateNoOverlap(ws)
    BY DEF StartInv, Accepted, Known, Consistent, Timetables
  <2>2. PICK m \in Span(ws[i], Day) : m \in Span(ws[j], Day)
    OBVIOUS
  <2>3. m \in 0 .. Day - 1
    BY WindowsTyped
  <2>4. Active(ws[i], m) /\ Active(ws[j], m)
    BY <2>2, <2>3, WindowsTyped
  <2> QED
    BY <2>1, <2>3, <2>4, WindowsTyped, NoOverlapIsDisjoint
<1> QED
  BY <1>1, StartInvAlways, PTL

(* A file whose lines can be read is refused only for windows that collide *)
(* or for a pool that is not one of `pools'.                               *)
THEOREM RefusedFilesAreWrong == StartSpec => []RefusedForAReason
<1>1. ASSUME StartInv, NEW ws \in Timetables, ~validateNoOverlap(ws)
      PROVE  \E i, j \in DOMAIN ws : i # j /\ Collide(ws[i], ws[j])
  <2>1. PICK i \in DOMAIN ws, j \in DOMAIN ws :
          /\ i # j
          /\ \/ \E m \in 0 .. Day - 1 : Active(ws[i], m) /\ Active(ws[j], m)
             \/ ws[i].start = ws[i].end /\ ws[i].start # ws[j].start /\ Active(ws[j], ws[i].start)
    BY <1>1, WindowsTyped, RefusedIsShared
  <2>2. ASSUME NEW m \in 0 .. Day - 1, Active(ws[i], m), Active(ws[j], m)
        PROVE  Collide(ws[i], ws[j])
    BY <1>1, <2>2, WindowsTyped DEF Collide
  <2>3. ASSUME ws[i].start = ws[i].end, ws[i].start # ws[j].start, Active(ws[j], ws[i].start)
        PROVE  Collide(ws[i], ws[j])
    <3>1. ws[i].start \in 0 .. Day - 1
      BY <1>1, WindowsTyped DEF MinWindow
    <3> QED
      BY <1>1, <2>3, <3>1, WindowsTyped DEF Collide
  <2> QED
    BY <2>1, <2>2, <2>3
<1>2. StartInv => RefusedForAReason
  <2> SUFFICES ASSUME StartInv, status \in {"refused", "inconsistent"},
                      cfg["export-pools"] \cup DOMAIN cfg["pool-window"] \subseteq cfg.pools
               PROVE  \E ws \in Timetables : \E i, j \in DOMAIN ws : i # j /\ Collide(ws[i], ws[j])
    BY DEF RefusedForAReason
  <2>1. \E ws \in Timetables : ~validateNoOverlap(ws)
    BY DEF StartInv, Accepted, Known, Consistent, Timetables
  <2> QED
    BY <1>1, <2>1
<1> QED
  BY <1>2, StartInvAlways, PTL

(* The clock of a running program goes round the day: at each minute of it *)
(* sleep is refused exactly within the windows its file has in force.      *)
THEOREM LoadedWindowsDecide == StartSpec => []SleepRefusedInWindows
<1>1. StartInv => SleepRefusedInWindows
  BY TimetablesTyped, SleepFollowsTheWindows DEF StartInv, Known
<1> QED
  BY <1>1, StartInvAlways, PTL

-----------------------------------------------------------------------------
(* The names Normalize was written for, and the disks they stand for. *)
LEMMA RegularIsWhole ==
  ASSUME NEW n \in Regular
  PROVE  n \in Name /\ Normalize(n) = Whole(n.disk)
<1>1. PICK d \in Disk : n \in [disk : {d}, part : PartsOf(d), dressed : BOOLEAN]
  BY DEF Name, Regular
<1>2. n.part \in {"none", "bare1", "bare2", "mark1", "mark2"}
  BY <1>1 DEF PartsOf, Bare, Marked
<1>3. n.part # "mark2" /\ ~(n.part = "bare1" /\ n.disk \in DOMAIN Shortened)
  BY DEF Regular
<1>4. ASSUME n.part = "none" PROVE [n EXCEPT !.dressed = FALSE] = Whole(n.disk)
  <2> DEFINE m == [n EXCEPT !.dressed = FALSE]
  <2>1. m \in [disk : {d}, part : PartsOf(d), dressed : BOOLEAN]
    BY <1>1
  <2>2. m.disk = n.disk /\ m.part = "none" /\ m.dressed = FALSE
    BY <1>1, <1>4
  <2> HIDE DEF m
  <2>3. m = [disk |-> m.disk, part |-> m.part, dressed |-> m.dressed]
    BY <2>1
  <2>4. m = [disk |-> n.disk, part |-> "none", dressed |-> FALSE]
    BY <2>2, <2>3
  <2> QED
    BY <2>4 DEF Whole, m
<1> QED
  BY <1>2, <1>3, <1>4 DEF Normalize, Bare, Regular

LEMMA WholesOf ==
  ASSUME NEW names, names \subseteq Regular
  PROVE  Normalized(names) = {Whole(d) : d \in DisksOf(names)}
BY RegularIsWhole DEF Normalized, DisksOf

LEMMA WholeIsItsDisk == \A d : Whole(d).disk = d
BY DEF Whole

LEMMA NeverSleepIsProtected ==
  ASSUME StartInv, AllNames \subseteq Regular
  PROVE  neverSleepSet = {Whole(d) : d \in Protected}
<1>1. Normalized(cfg.exclude) = {Whole(d) : d \in DisksOf(cfg.exclude)}
  BY WholesOf DEF AllNames
<1>2. Normalized(host.boot) = {Whole(d) : d \in DisksOf(host.boot)}
  BY WholesOf DEF AllNames
<1>3. DisksOf(cfg.exclude \cup host.boot) = DisksOf(cfg.exclude) \cup DisksOf(host.boot)
  BY DEF DisksOf
<1>4. CASE BootPool = NoPool
  BY <1>1, <1>2, <1>3, <1>4 DEF neverSleepSet, Protected, BootPoolDisks
<1>5. CASE BootPool # NoPool
  <2>1. BootPool \in Pool
    BY <1>5, HostTyped
  <2>2. DataOf(BootPool) \subseteq Regular
    BY <2>1 DEF AllNames
  <2>3. BootPoolDisks = {Whole(d) : d \in DisksOf(DataOf(BootPool))}
    BY <1>5, <2>1, <2>2, HostTyped, WholesOf DEF BootPoolDisks
  <2> QED
    BY <1>1, <1>2, <1>3, <1>5, <2>3 DEF neverSleepSet, Protected
<1> QED
  BY <1>4, <1>5

LEMMA PoolOfDisks ==
  ASSUME StartInv, AllNames \subseteq Regular, NEW q \in cfg.pools
  PROVE  PoolDisks(q) = {Whole(d) : d \in DisksOf(DataOf(q))}
<1>1. q \in Pool /\ PoolDisks(q) = Normalized(DataOf(q))
  BY HostTyped
<1>2. DataOf(q) \subseteq Regular
  BY <1>1 DEF AllNames
<1> QED
  BY <1>1, <1>2, WholesOf

LEMMA ManagedAreWanted ==
  ASSUME StartInv, AllNames \subseteq Regular
  PROVE  managedDevices = {Whole(d) : d \in Wanted}
<1>1. Normalized(cfg.disks) = {Whole(d) : d \in DisksOf(cfg.disks)}
  BY WholesOf DEF AllNames
<1>2. \A d : d \in DisksOf(cfg.disks \cup UNION {DataOf(q) : q \in cfg.pools})
        <=> d \in DisksOf(cfg.disks) \/ \E q \in cfg.pools : d \in DisksOf(DataOf(q))
  BY DEF DisksOf
<1>3. \A d : Whole(d) \in neverSleepSet <=> d \in Protected
  BY NeverSleepIsProtected, WholeIsItsDisk
<1>4. \A x : x \in managedDevices <=>
        /\ x \in Normalized(cfg.disks) \/ \E q \in cfg.pools : x \in PoolDisks(q)
        /\ x \notin neverSleepSet
  BY DEF managedDevices
<1>5. \A x : x \in Normalized(cfg.disks) <=> \E d \in DisksOf(cfg.disks) : x = Whole(d)
  BY <1>1
<1>6. \A q \in cfg.pools : \A x : x \in PoolDisks(q) <=> \E d \in DisksOf(DataOf(q)) : x = Whole(d)
  BY PoolOfDisks
<1>7. \A d : d \in Wanted <=>
        /\ d \in DisksOf(cfg.disks) \/ \E q \in cfg.pools : d \in DisksOf(DataOf(q))
        /\ d \notin Protected
  BY <1>2 DEF Wanted
<1>8. \A x : x \in managedDevices <=> \E d \in Wanted : x = Whole(d)
  BY <1>3, <1>4, <1>5, <1>6, <1>7
<1> QED
  BY <1>8

LEMMA ProtectionKept ==
  ASSUME cfg' = cfg, host' = host
  PROVE  AllNames' = AllNames /\ Protected' = Protected
BY DEF AllNames, Protected, DataOf, BootPool

LEMMA NamesKeepTheirDisk ==
  ASSUME StartInv, AllNames \subseteq Regular, NEW x \in managedDevices \cup UNION {PoolDisks(q) : q \in Pool}
  PROVE  x = Whole(x.disk)
<1>1. CASE x \in managedDevices
  BY <1>1, ManagedAreWanted, WholeIsItsDisk
<1>2. ASSUME NEW q \in Pool, x \in PoolDisks(q) PROVE x = Whole(x.disk)
  <2>1. PoolDisks(q) = Normalized(DataOf(q)) /\ DataOf(q) \subseteq Regular
    BY HostTyped DEF AllNames
  <2> QED
    BY <1>2, <2>1, WholesOf, WholeIsItsDisk
<1> QED
  BY <1>1, <1>2

(* What a command takes from a set without the never-sleep set's members   *)
(* is no protected disk. *)
LEMMA NotProtected ==
  ASSUME StartInv, AllNames \subseteq Regular, NEW d, Whole(d) \notin neverSleepSet
  PROVE  d \notin Protected
BY NeverSleepIsProtected

LEMMA ProtectedStep == StartInv /\ ProtectedNeverSlept /\ [StartNext]_startVars => ProtectedNeverSlept'
<1> SUFFICES ASSUME StartInv, ProtectedNeverSlept, [StartNext]_startVars PROVE ProtectedNeverSlept'
  OBVIOUS
<1>1. ASSUME slept' = {} PROVE ProtectedNeverSlept'
  BY <1>1 DEF ProtectedNeverSlept, DisksOf
<1>2. ASSUME NEW on \in BOOLEAN, Edit(on) PROVE ProtectedNeverSlept'
  BY <1>1, <1>2 DEF Edit, NoEffect
<1>3. CASE Load \/ Validate \/ Resolve \/ Exit \/ Tick
  BY <1>1, <1>3 DEF Load, Validate, Resolve, Exit, Tick, NoEffect
<1>4. ASSUME NEW busy, NEW through, LinuxSample(busy, through) \/ IostatSample(through, busy)
      PROVE  ProtectedNeverSlept'
  BY <1>1, <1>4, CountedTraces DEF LinuxSample, IostatSample
<1>5. ASSUME NEW names, Command(names), AllNames \cup names \subseteq Regular => DisksOf(names) \cap Protected = {}
      PROVE  ProtectedNeverSlept'
  <2>1. slept' = names /\ cfg' = cfg /\ host' = host
    BY <1>5 DEF Command, config
  <2>2. AllNames' = AllNames /\ Protected' = Protected
    BY <2>1, ProtectionKept
  <2> QED
    BY <1>5, <2>1, <2>2 DEF ProtectedNeverSlept
<1>6. ASSUME NEW n \in managed, DaemonSleep(n) PROVE ProtectedNeverSlept'
  <2>1. n \in managedDevices /\ n \notin neverSleepSet
    BY <1>6 DEF DaemonSleep, StartInv, Resolved, managedDevices
  <2>2. AllNames \subseteq Regular => n.disk \notin Protected
    BY <2>1, NamesKeepTheirDisk, NotProtected
  <2>3. DisksOf({n}) = {n.disk}
    BY DEF DisksOf
  <2> QED
    BY <1>5, <1>6, <2>2, <2>3 DEF DaemonSleep
<1>7. ASSUME NEW n \in Name, SleepNow(n) PROVE ProtectedNeverSlept'
  <2>1. n \in Regular /\ AllNames \subseteq Regular => n.disk \notin Protected
    BY <1>7, RegularIsWhole, NotProtected DEF SleepNow, guardDevice
  <2>2. DisksOf({n}) = {n.disk}
    BY DEF DisksOf
  <2> QED
    BY <1>5, <1>7, <2>1, <2>2 DEF SleepNow
<1>8. ASSUME NEW q \in Pool, SleepPool(q) PROVE ProtectedNeverSlept'
  <2> DEFINE names == PoolDisks(q) \ neverSleepSet
  <2>1. ASSUME AllNames \subseteq Regular, NEW x \in names PROVE x.disk \notin Protected
    <3>1. x = Whole(x.disk)
      BY <2>1, NamesKeepTheirDisk
    <3> QED
      BY <2>1, <3>1, NotProtected
  <2>2. Command(names)
    BY <1>8 DEF SleepPool
  <2> HIDE DEF names
  <2>3. AllNames \cup names \subseteq Regular => DisksOf(names) \cap Protected = {}
    BY <2>1 DEF DisksOf
  <2> QED
    BY <1>5, <2>2, <2>3
<1>9. CASE UNCHANGED startVars
  <2>1. slept' = slept /\ cfg' = cfg /\ host' = host
    BY <1>9 DEF startVars
  <2> QED
    BY <2>1, ProtectionKept DEF ProtectedNeverSlept
<1> QED
  BY <1>2, <1>3, <1>4, <1>6, <1>7, <1>8, <1>9 DEF StartNext

(* README.md:297-300: where every name is of the kinds Normalize was       *)
(* written for, no command spins down a disk of `exclude', one the system  *)
(* was booted from, or a data disk or spare of the pool it was booted      *)
(* from, as far as zpool says which pool that is and answers for it.       *)
THEOREM ProtectedAreSafe == StartSpec => []ProtectedNeverSlept
<1>1. StartInit => ProtectedNeverSlept
  BY DEF StartInit, ProtectedNeverSlept, DisksOf
<1> QED
  BY <1>1, ProtectedStep, StartInvAlways, PTL DEF StartSpec

(* Resolving leaves out no disk the file asks for, and adds none: also     *)
(* when it finds nothing to do.                                            *)
THEOREM WantedAreManaged == StartSpec => []RegularDisksAreManaged
<1>1. StartInv => RegularDisksAreManaged
  <2> SUFFICES ASSUME StartInv, AllNames \subseteq Regular
               PROVE  /\ status = "managing" => managed = {Whole(d) : d \in Wanted}
                      /\ status = "nothing" => Wanted = {}
    BY DEF RegularDisksAreManaged, PoolDisksAreManaged
  <2> QED
    BY ManagedAreWanted DEF StartInv, Resolved
<1> QED
  BY <1>1, StartInvAlways, PTL

(* config.go:60-65: the pool a disk belongs to, one of them if there are   *)
(* several, decides when it may sleep, with the windows of its own list,   *)
(* also of an empty one; the global timetable decides without such a list. *)
THEOREM PoolWindowDecides == StartSpec => []OwnWindowDecides
<1>1. StartInv => OwnWindowDecides
  <2> DEFINE Of(d) == {q \in cfg.pools : d.disk \in DisksOf(DataOf(q))}
             Decides(q, d) == AllowSleep(d) <=>
                                IF q \in DOMAIN cfg["pool-window"]
                                  THEN \A i \in DOMAIN cfg["pool-window"][q] :
                                         minOfDay \notin Span(cfg["pool-window"][q][i], Day)
                                  ELSE SleepAllowed
  <2> SUFFICES ASSUME StartInv, status = "managing", AllNames \subseteq Regular, NEW d \in managed
               PROVE  \E q \in IF Of(d) = {} THEN {NoPool} ELSE Of(d) : Decides(q, d)
    BY DEF OwnWindowDecides
  <2>1. d \in managedDevices /\ owner \in devicePoolMap
    BY DEF StartInv, Resolved
  <2>2. owner[d] \in (IF {q \in cfg.pools : d \in PoolDisks(q)} = {} THEN {NoPool}
                      ELSE {q \in cfg.pools : d \in PoolDisks(q)})
    BY <2>1 DEF devicePoolMap
  <2>3. \A q \in cfg.pools : d \in PoolDisks(q) <=> d.disk \in DisksOf(DataOf(q))
    BY <2>1, NamesKeepTheirDisk, PoolOfDisks, WholeIsItsDisk
  <2>4. {q \in cfg.pools : d \in PoolDisks(q)} = Of(d)
    BY <2>3
  <2>5. owner[d] \in IF Of(d) = {} THEN {NoPool} ELSE Of(d)
    BY <2>2, <2>4
  <2>6. minOfDay \in 0 .. Day - 1 /\ Day \in Nat
    BY MinuteOfDay, TimeAssumption DEF StartInv, Known, minOfDay
  <2>7. ASSUME NEW q \in DOMAIN cfg["pool-window"], NEW i \in DOMAIN cfg["pool-window"][q]
        PROVE  minOfDay \in Span(cfg["pool-window"][q][i], Day) <=> Active(cfg["pool-window"][q][i], minOfDay)
    <3>1. cfg["pool-window"] \in UNION {[P -> Seq(MinWindow)] : P \in SUBSET Pool}
      BY KeysAre DEF StartInv, Known, Configs, ParsedAs
    <3>2. cfg["pool-window"][q] \in Seq(MinWindow)
      BY <2>7, <3>1
    <3>3. cfg["pool-window"][q][i] \in MinWindow
      BY <2>7, <3>2, ElementOfSeq, LenProperties
    <3> QED
      BY <2>6, <3>3, SpanIsActive DEF MinWindow
  <2>8. Decides(owner[d], d)
    BY <2>7 DEF AllowSleep, inAnyMinWindow
  <2> HIDE DEF Of, Decides
  <2> QED
    BY <2>5, <2>8
<1> QED
  BY <1>1, StartInvAlways, PTL

-----------------------------------------------------------------------------
(* What a line does to what was parsed before it: nothing, the end of it,  *)
(* or one value of its key.                                                *)
Skips(l) == \A c \in Results : ParseLine(c, l) = c
Refuses(l) == \A c \in Results : ParseLine(c, l) = [c EXCEPT !.ok = FALSE]
Sets(l, v) == \A c \in Results : ParseLine(c, l) = IF c.ok THEN [c EXCEPT !.cfg[KeyOf(l)] = v] ELSE c

LEMMA LineEffects ==
  ASSUME NEW l \in Lines
  PROVE  \/ Skips(l)
         \/ Refuses(l)
         \/ KeyOf(l) \in Keys /\ \E v \in ParsedAs(KeyOf(l)) : Sets(l, v)
<1> DEFINE k == KeyOf(l)
<1>0. \A c \in Results : ~c.ok => [c EXCEPT !.ok = FALSE] = c
  BY DEF Results
<1>1. CASE k = "#"
  BY <1>1 DEF ParseLine, Skips
<1>2. CASE k # "#" /\ (k \notin Keys \/ (k \in TimetableKeys /\ Bad(l)))
  <2>1. \A c \in Results : ParseLine(c, l) = IF c.ok THEN [c EXCEPT !.ok = FALSE] ELSE c
    BY <1>2 DEF ParseLine
  <2> QED
    BY <1>0, <2>1 DEF Refuses
<1>3. CASE k \in Keys /\ Bad(l) /\ k \notin TimetableKeys /\ k # "#"
  BY <1>3 DEF ParseLine, Skips
<1>4. CASE k \in Keys /\ ~Bad(l) /\ k # "#"
  <2> DEFINE v == IF k = "pool-window" THEN parsePoolWindows(l.value) ELSE l.value
  <2>1. v \in ParsedAs(k)
    BY <1>4, KeysAre, PoolWindowsTyped DEF Lines, Bad, KeyOf, ParsedAs
  <2>2. Sets(l, v)
    BY <1>4 DEF ParseLine, Sets
  <2> QED
    BY <1>4, <2>1, <2>2
<1> QED
  BY <1>1, <1>2, <1>3, <1>4

(* One value is written into what was parsed. *)
LEMMA SetValue ==
  ASSUME NEW c \in Results, NEW k \in Keys, NEW v \in ParsedAs(k)
  PROVE  /\ [c EXCEPT !.cfg[k] = v] \in Results
         /\ [c EXCEPT !.cfg[k] = v].ok = c.ok
         /\ [c EXCEPT !.cfg[k] = v].cfg[k] = v
         /\ \A j \in Keys \ {k} : [c EXCEPT !.cfg[k] = v].cfg[j] = c.cfg[j]
BY DEF Results, Configs

LEMMA SameResult ==
  ASSUME NEW c \in Results, NEW d \in Results, c.ok = d.ok, \A k \in Keys : c.cfg[k] = d.cfg[k]
  PROVE  c = d
<1>1. c.cfg = d.cfg
  BY DEF Results, Configs
<1>2. c = [ok |-> c.ok, cfg |-> c.cfg] /\ d = [ok |-> d.ok, cfg |-> d.cfg]
  BY DEF Results
<1> QED
  BY <1>1, <1>2

(* Two lines with different keys may follow each other either way. *)
LEMMA LinesCommute ==
  ASSUME NEW c \in Results, NEW a \in Lines, NEW b \in Lines, KeyOf(a) # KeyOf(b)
  PROVE  LET x == ParseLine(ParseLine(c, a), b)
             y == ParseLine(ParseLine(c, b), a)
         IN  x.ok = y.ok /\ (x.ok => x = y)
<1>1. ParseLine(c, a) \in Results /\ ParseLine(c, b) \in Results
  BY ParseLineTyped
<1>2. CASE Skips(a) \/ Skips(b)
  BY <1>1, <1>2 DEF Skips
<1>3. CASE Refuses(a) \/ Refuses(b)
  <2>1. ASSUME NEW p \in Lines, NEW q \in Lines, Refuses(p)
        PROVE  ~ParseLine(ParseLine(c, q), p).ok /\ ~ParseLine(ParseLine(c, p), q).ok
    <3>1. /\ ParseLine(c, q) \in Results /\ ParseLine(c, p) \in Results
          /\ \A d \in Results : ~[d EXCEPT !.ok = FALSE].ok
      BY ParseLineTyped DEF Results
    <3>2. ~ParseLine(ParseLine(c, q), p).ok /\ ~ParseLine(c, p).ok
      BY <2>1, <3>1 DEF Refuses
    <3>3. ParseLine(ParseLine(c, p), q) = ParseLine(c, p)
          \/ ~ParseLine(ParseLine(c, p), q).ok
      BY <3>1, <3>2 DEF ParseLine
    <3> QED
      BY <3>2, <3>3
  <2>2. ~ParseLine(ParseLine(c, a), b).ok /\ ~ParseLine(ParseLine(c, b), a).ok
    BY <1>3, <2>1
  <2>3. ParseLine(ParseLine(c, a), b).ok \in BOOLEAN /\ ParseLine(ParseLine(c, b), a).ok \in BOOLEAN
    BY <1>1, ParseLineTyped DEF Results
  <2> QED
    BY <2>2, <2>3
<1>4. ASSUME KeyOf(a) \in Keys, KeyOf(b) \in Keys,
             NEW v \in ParsedAs(KeyOf(a)), Sets(a, v), NEW w \in ParsedAs(KeyOf(b)), Sets(b, w)
      PROVE  ParseLine(ParseLine(c, a), b) = ParseLine(ParseLine(c, b), a)
  <2> DEFINE ca == [c EXCEPT !.cfg[KeyOf(a)] = v]
             cb == [c EXCEPT !.cfg[KeyOf(b)] = w]
             cab == [ca EXCEPT !.cfg[KeyOf(b)] = w]
             cba == [cb EXCEPT !.cfg[KeyOf(a)] = v]
  <2>1. CASE ~c.ok
    BY <1>4, <2>1 DEF Sets
  <2>2. CASE c.ok
    <3>1. /\ ca \in Results /\ ca.ok = c.ok /\ ca.cfg[KeyOf(a)] = v
          /\ \A j \in Keys \ {KeyOf(a)} : ca.cfg[j] = c.cfg[j]
      BY <1>4, SetValue
    <3>2. /\ cb \in Results /\ cb.ok = c.ok /\ cb.cfg[KeyOf(b)] = w
          /\ \A j \in Keys \ {KeyOf(b)} : cb.cfg[j] = c.cfg[j]
      BY <1>4, SetValue
    <3> HIDE DEF ca, cb
    <3>3. /\ cab \in Results /\ cab.ok = ca.ok /\ cab.cfg[KeyOf(b)] = w
          /\ \A j \in Keys \ {KeyOf(b)} : cab.cfg[j] = ca.cfg[j]
      BY <1>4, <3>1, SetValue
    <3>4. /\ cba \in Results /\ cba.ok = cb.ok /\ cba.cfg[KeyOf(a)] = v
          /\ \A j \in Keys \ {KeyOf(a)} : cba.cfg[j] = cb.cfg[j]
      BY <1>4, <3>2, SetValue
    <3>5. ParseLine(ParseLine(c, a), b) = cab
      BY <1>4, <2>2, <3>1 DEF Sets, ca
    <3>6. ParseLine(ParseLine(c, b), a) = cba
      BY <1>4, <2>2, <3>2 DEF Sets, cb
    <3> HIDE DEF cab, cba
    <3>7. \A j \in Keys : cab.cfg[j] = cba.cfg[j]
      BY <1>4, <3>1, <3>2, <3>3, <3>4
    <3>8. cab = cba
      BY <3>1, <3>2, <3>3, <3>4, <3>7, SameResult
    <3> QED
      BY <3>5, <3>6, <3>8
  <2> QED
    BY <2>1, <2>2
<1> QED
  BY <1>2, <1>3, <1>4, LineEffects

(* Once refused, always refused. *)
LEMMA RefusedStays ==
  ASSUME NEW lines \in Seq(Lines), NEW r, ParseRun(r, lines), r[Len(lines)].ok
  PROVE  \A k \in 0 .. Len(lines) : r[k].ok
<1> DEFINE n == Len(lines)
           G == {k \in 0 .. n : r[n - k].ok}
<1>1. n \in Nat /\ \A k \in 0 .. n : r[k] \in Results
  BY LenProperties DEF ParseRun
<1>2. ASSUME NEW k \in 0 .. n - 1, k \in G PROVE k + 1 \in G
  <2>1. n - k \in 1 .. n /\ (n - k) - 1 = n - (k + 1) /\ k + 1 \in 0 .. n /\ n - (k + 1) \in 0 .. n
    BY <1>1
  <2>2. r[n - k] = ParseLine(r[n - (k + 1)], lines[n - k])
    BY <2>1 DEF ParseRun
  <2>3. r[n - k].ok
    BY <1>2
  <2>4. ~r[n - (k + 1)].ok => ~r[n - k].ok
    BY <2>2 DEF ParseLine
  <2> QED
    BY <2>1, <2>3, <2>4
<1>3. 0 \in G
  BY <1>1
<1>4. \A k \in 0 .. n : k \in G
  <2> HIDE DEF G
  <2> QED
    BY <1>1, <1>2, <1>3, UpTo
<1>5. ASSUME NEW k \in 0 .. n PROVE r[k].ok
  <2>1. n - k \in 0 .. n /\ n - (n - k) = k
    BY <1>1
  <2>2. r[n - (n - k)].ok
    BY <1>4, <2>1
  <2> QED
    BY <2>1, <2>2
<1> QED
  BY <1>5

(* From equal results equal lines lead to equal results. *)
LEMMA SwappedParsesTheSame ==
  ASSUME NEW lines \in Seq(Lines), NEW i \in 1 .. Len(lines) - 1, KeyOf(lines[i]) # KeyOf(lines[i + 1])
  PROVE  LET swapped == parseConfig([lines EXCEPT ![i] = lines[i + 1], ![i + 1] = lines[i]])
             asIs == parseConfig(lines)
         IN  swapped.ok = asIs.ok /\ (asIs.ok => swapped.cfg = asIs.cfg)
<1> DEFINE n == Len(lines)
           new == [lines EXCEPT ![i] = lines[i + 1], ![i + 1] = lines[i]]
<1>1. /\ n \in Nat /\ i \in 1 .. n /\ i + 1 \in 1 .. n /\ i # i + 1
      /\ \A k \in 1 .. n : lines[k] \in Lines
  BY LenProperties, ElementOfSeq
<1>2. /\ new \in Seq(Lines) /\ Len(new) = n /\ new[i] = lines[i + 1] /\ new[i + 1] = lines[i]
      /\ \A k \in 1 .. n : k # i /\ k # i + 1 => new[k] = lines[k]
  BY <1>1
<1> HIDE DEF new
<1>3. PICK r : ParseRun(r, lines) /\ parseConfig(lines) = r[n]
  BY ParseGoesLineByLine
<1>4. PICK s : ParseRun(s, new) /\ parseConfig(new) = s[n]
  BY <1>2, ParseGoesLineByLine
<1> HIDE DEF n
<1>5. /\ \A k \in 0 .. n : r[k] \in Results /\ s[k] \in Results
      /\ r[0] = s[0]
      /\ \A k \in 1 .. n : r[k] = ParseLine(r[k - 1], lines[k]) /\ s[k] = ParseLine(s[k - 1], new[k])
  BY <1>2, <1>3, <1>4 DEF ParseRun, n
<1>6. \A k \in 0 .. i - 1 : r[k] = s[k]
  <2> DEFINE G == {k \in 0 .. i - 1 : r[k] = s[k]}
  <2>1. 0 \in G
    BY <1>1, <1>5
  <2>2. ASSUME NEW k \in 0 .. (i - 1) - 1, k \in G PROVE k + 1 \in G
    <3>1. k + 1 \in 1 .. n /\ (k + 1) - 1 = k /\ k + 1 # i /\ k + 1 # i + 1 /\ k + 1 \in 0 .. i - 1
      BY <1>1
    <3>2. r[k + 1] = ParseLine(r[k], lines[k + 1]) /\ s[k + 1] = ParseLine(s[k], new[k + 1])
      BY <1>5, <3>1
    <3>3. new[k + 1] = lines[k + 1]
      BY <1>2, <3>1
    <3> QED
      BY <2>2, <3>1, <3>2, <3>3
  <2>3. i - 1 \in Nat
    BY <1>1
  <2>4. \A k \in 0 .. i - 1 : k \in G
    <3> HIDE DEF G
    <3> QED
      BY <2>1, <2>2, <2>3, UpTo
  <2> QED
    BY <2>4
<1> DEFINE Same(k) == r[k].ok = s[k].ok /\ (r[k].ok => r[k] = s[k])
<1>7. Same(i + 1)
  <2>1. i - 1 \in 0 .. i - 1 /\ i - 1 \in 0 .. n /\ (i + 1) - 1 = i
    BY <1>1
  <2>2. r[i - 1] = s[i - 1] /\ r[i - 1] \in Results
    BY <1>5, <1>6, <2>1
  <2>3. r[i] = ParseLine(r[i - 1], lines[i]) /\ s[i] = ParseLine(s[i - 1], lines[i + 1])
    BY <1>1, <1>2, <1>5
  <2>4. r[i + 1] = ParseLine(r[i], lines[i + 1]) /\ s[i + 1] = ParseLine(s[i], lines[i])
    BY <1>1, <1>2, <1>5, <2>1
  <2>5. LET x == ParseLine(ParseLine(r[i - 1], lines[i]), lines[i + 1])
            y == ParseLine(ParseLine(r[i - 1], lines[i + 1]), lines[i])
        IN  x.ok = y.ok /\ (x.ok => x = y)
    BY <1>1, <2>2, LinesCommute
  <2> QED
    BY <2>2, <2>3, <2>4, <2>5
<1>8. \A k \in 0 .. n - (i + 1) : Same((i + 1) + k)
  <2> DEFINE G == {k \in 0 .. n - (i + 1) : Same((i + 1) + k)}
  <2>1. 0 \in G
    <3>1. (i + 1) + 0 = i + 1 /\ 0 \in 0 .. n - (i + 1)
      BY <1>1
    <3> HIDE DEF Same
    <3> QED
      BY <1>7, <3>1
  <2>2. ASSUME NEW k \in 0 .. (n - (i + 1)) - 1, k \in G PROVE k + 1 \in G
    <3> DEFINE j == (i + 1) + k
    <3>1. /\ j \in 0 .. n /\ j + 1 \in 1 .. n /\ (j + 1) - 1 = j /\ j + 1 # i /\ j + 1 # i + 1
          /\ (i + 1) + (k + 1) = j + 1 /\ k + 1 \in 0 .. n - (i + 1)
      BY <1>1
    <3>2. Same(j)
      BY <2>2
    <3> HIDE DEF j
    <3>3. r[j + 1] = ParseLine(r[j], lines[j + 1]) /\ s[j + 1] = ParseLine(s[j], lines[j + 1])
      BY <1>2, <1>5, <3>1
    <3>4. r[j] \in Results /\ s[j] \in Results
      BY <1>5, <3>1
    <3>5. ~r[j].ok => r[j + 1] = r[j] /\ s[j + 1] = s[j]
      BY <3>2, <3>3 DEF ParseLine
    <3>6. Same(j + 1)
      BY <3>2, <3>3, <3>5
    <3> HIDE DEF Same
    <3>7. Same((i + 1) + (k + 1))
      BY <3>1, <3>6
    <3> QED
      BY <3>1, <3>7
  <2>3. n - (i + 1) \in Nat
    BY <1>1
  <2>4. \A k \in 0 .. n - (i + 1) : k \in G
    <3> HIDE DEF G
    <3> QED
      BY <2>1, <2>2, <2>3, UpTo
  <2> QED
    BY <2>4
<1>9. Same(n)
  <2>1. n - (i + 1) \in 0 .. n - (i + 1) /\ (i + 1) + (n - (i + 1)) = n
    BY <1>1
  <2>2. Same((i + 1) + (n - (i + 1)))
    BY <1>8, <2>1
  <2> HIDE DEF Same
  <2> QED
    BY <2>1, <2>2
<1> QED
  BY <1>3, <1>4, <1>9 DEF new

(* config.go:293-294: of a file of any length two lines with different     *)
(* keys that follow each other may change places.                          *)
THEOREM LinesMayMove == StartSpec => []LineOrderIsFree
<1>1. StartInv => LineOrderIsFree
  BY SwappedParsesTheSame DEF StartInv, Stored, LineOrderIsFree
<1> QED
  BY <1>1, StartInvAlways, PTL

-----------------------------------------------------------------------------
(* What enable and disable make of a file. *)
LEMMA EditedLines ==
  ASSUME NEW lines \in Seq(Lines), NEW on \in BOOLEAN, NEW new, new = setEnabledInFile(lines, on)
  PROVE  /\ new \in Seq(Lines) /\ SameOtherLines(lines, new)
         /\ Places(new) # {} /\ new[First(new)] = Enabled(on)
<1>1. /\ Len(lines) \in Nat /\ DOMAIN lines = 1 .. Len(lines)
      /\ \A i \in DOMAIN lines : lines[i] \in Lines
  BY LenProperties, ElementOfSeq
<1>2. Enabled(on) \in Lines /\ Enabled(on).key = "enabled"
  BY EnabledLines
<1>3. new = IF Places(lines) = {} THEN Append(lines, Enabled(on))
                                  ELSE [lines EXCEPT ![First(lines)] = Enabled(on)]
  BY DEF setEnabledInFile, Places, First
<1>4. new \in Seq(Lines)
  BY EditTyped
<1> DEFINE n == Len(lines)
<1>5. CASE Places(lines) = {}
  <2>1. new = Append(lines, Enabled(on)) /\ \A i \in 1 .. n : lines[i].key # "enabled"
    BY <1>1, <1>3, <1>5 DEF Places
  <2>2. /\ Len(new) = n + 1 /\ DOMAIN new = 1 .. n + 1 /\ new[n + 1] = Enabled(on)
        /\ \A i \in 1 .. n : new[i] = lines[i]
    BY <1>1, <1>2, <2>1, AppendProperties
  <2>3. \A i \in 1 .. n + 1 : i \notin 1 .. n => i = n + 1
    BY <1>1
  <2>4. SameOtherLines(lines, new)
    <3> SUFFICES ASSUME NEW i \in 1 .. n + 1
                 PROVE  IF i \in 1 .. n /\ lines[i].key # "enabled"
                          THEN new[i] = lines[i] ELSE new[i].key = "enabled"
      BY <1>1, <2>2 DEF SameOtherLines
    <3>1. CASE i \in 1 .. n
      BY <2>1, <2>2, <3>1
    <3>2. CASE i \notin 1 .. n
      BY <1>2, <2>2, <2>3, <3>2
    <3> QED
      BY <3>1, <3>2
  <2>5. n + 1 \in Places(new) /\ \A j \in Places(new) : j = n + 1
    BY <1>1, <1>2, <2>1, <2>2, <2>3 DEF Places
  <2>6. First(new) \in Places(new)
    BY <1>4, <2>5, FirstIsFirst
  <2>7. new[First(new)] = Enabled(on)
    BY <2>2, <2>5, <2>6
  <2> QED
    BY <1>4, <2>4, <2>5, <2>7
<1>6. CASE Places(lines) # {}
  <2> DEFINE p == First(lines)
  <2>1. p \in Places(lines) /\ \A j \in Places(lines) : p <= j
    BY <1>6, FirstIsFirst
  <2> HIDE DEF p
  <2>2. p \in 1 .. n /\ lines[p].key = "enabled"
    BY <1>1, <2>1 DEF Places
  <2>3. new = [lines EXCEPT ![p] = Enabled(on)]
    BY <1>3, <1>6 DEF p
  <2>4. /\ Len(new) = n /\ DOMAIN new = 1 .. n /\ new[p] = Enabled(on)
        /\ \A i \in 1 .. n : i # p => new[i] = lines[i]
    BY <1>1, <1>2, <2>2, <2>3, ExceptSeq
  <2>5. SameOtherLines(lines, new)
    BY <1>1, <1>2, <2>2, <2>4 DEF SameOtherLines
  <2>6. Places(new) = Places(lines)
    BY <1>1, <1>2, <2>2, <2>4 DEF Places
  <2>7. First(new) = p
    BY <2>6 DEF First, p
  <2> QED
    BY <1>4, <1>6, <2>4, <2>5, <2>6, <2>7
<1> QED
  BY <1>5, <1>6

LEMMA EditedAgain ==
  ASSUME NEW lines \in Seq(Lines), NEW on \in BOOLEAN, Places(lines) # {}, lines[First(lines)] = Enabled(on)
  PROVE  setEnabledInFile(lines, on) = lines
<1>1. setEnabledInFile(lines, on) = [lines EXCEPT ![First(lines)] = Enabled(on)]
  BY DEF setEnabledInFile, Places, First
<1>2. lines = [i \in DOMAIN lines |-> lines[i]]
  BY LenProperties
<1> QED
  BY <1>1, <1>2

(* Results that differ in what `enabled' says at most. *)
Agree(c, d) == c.ok = d.ok /\ \A k \in Keys \ {"enabled"} : c.cfg[k] = d.cfg[k]

LEMMA EnabledLineSets ==
  ASSUME NEW c \in Results, NEW l \in Lines, l.key = "enabled"
  PROVE  /\ Agree(ParseLine(c, l), c)
         /\ c.ok => ParseLine(c, l).cfg.enabled = IF Bad(l) THEN c.cfg.enabled ELSE l.value
<1>1. KeyOf(l) = "enabled" /\ "enabled" \in Keys /\ "enabled" \notin TimetableKeys
  BY KeysAre DEF KeyOf, TimetableKeys
<1>2. CASE ~c.ok \/ Bad(l)
  BY <1>1, <1>2 DEF ParseLine, Agree
<1>3. CASE c.ok /\ ~Bad(l)
  <2>1. l.value \in ParsedAs("enabled")
    BY <1>3 DEF Lines, Bad, ParsedAs
  <2>2. ParseLine(c, l) = [c EXCEPT !.cfg["enabled"] = l.value]
    BY <1>1, <1>3 DEF ParseLine
  <2> DEFINE x == [c EXCEPT !.cfg["enabled"] = l.value]
  <2>3. /\ x.ok = c.ok /\ x.cfg["enabled"] = l.value
        /\ \A j \in Keys \ {"enabled"} : x.cfg[j] = c.cfg[j]
    BY <1>1, <2>1, SetValue
  <2> HIDE DEF x
  <2>4. ParseLine(c, l) = x
    BY <2>2 DEF x
  <2> QED
    BY <1>3, <2>3, <2>4 DEF Agree
<1> QED
  BY <1>2, <1>3

LEMMA OtherLinesAgree ==
  ASSUME NEW c \in Results, NEW d \in Results, Agree(c, d), NEW l \in Lines, l.key # "enabled"
  PROVE  /\ Agree(ParseLine(c, l), ParseLine(d, l))
         /\ ParseLine(c, l).cfg.enabled = c.cfg.enabled
<1>1. CASE Skips(l)
  BY <1>1 DEF Skips
<1>2. CASE Refuses(l)
  <2>1. /\ ParseLine(c, l) = [c EXCEPT !.ok = FALSE] /\ ParseLine(d, l) = [d EXCEPT !.ok = FALSE]
        /\ [c EXCEPT !.ok = FALSE].ok = FALSE /\ [c EXCEPT !.ok = FALSE].cfg = c.cfg
        /\ [d EXCEPT !.ok = FALSE].ok = FALSE /\ [d EXCEPT !.ok = FALSE].cfg = d.cfg
    BY <1>2 DEF Refuses, Results
  <2> QED
    BY <2>1 DEF Agree
<1>3. ASSUME KeyOf(l) \in Keys, NEW v \in ParsedAs(KeyOf(l)), Sets(l, v)
      PROVE  /\ Agree(ParseLine(c, l), ParseLine(d, l))
             /\ ParseLine(c, l).cfg.enabled = c.cfg.enabled
  <2>1. KeyOf(l) # "enabled" /\ "enabled" \in Keys
    BY KeysAre DEF KeyOf
  <2>2. CASE ~c.ok
    BY <1>3, <2>2 DEF Sets, Agree
  <2>3. CASE c.ok
    <3> DEFINE x == [c EXCEPT !.cfg[KeyOf(l)] = v]
               y == [d EXCEPT !.cfg[KeyOf(l)] = v]
    <3>1. x.ok = c.ok /\ x.cfg[KeyOf(l)] = v /\ \A j \in Keys \ {KeyOf(l)} : x.cfg[j] = c.cfg[j]
      BY <1>3, SetValue
    <3>2. y.ok = d.ok /\ y.cfg[KeyOf(l)] = v /\ \A j \in Keys \ {KeyOf(l)} : y.cfg[j] = d.cfg[j]
      BY <1>3, SetValue
    <3>3. ParseLine(c, l) = x /\ ParseLine(d, l) = y
      BY <1>3, <2>3 DEF Sets, Agree
    <3> HIDE DEF x, y
    <3> QED
      BY <2>1, <3>1, <3>2, <3>3 DEF Agree
  <2> QED
    BY <2>2, <2>3
<1> QED
  BY <1>1, <1>2, <1>3, LineEffects

(* Files that differ in `enabled' lines only are parsed alike. *)
LEMMA SameOthersParseAlike ==
  ASSUME NEW lines \in Seq(Lines), NEW new \in Seq(Lines), SameOtherLines(lines, new)
  PROVE  Agree(parseConfig(new), parseConfig(lines))
<1> DEFINE n == Len(lines)
<1>1. /\ n \in Nat /\ DOMAIN lines = 1 .. n /\ DOMAIN new = 1 .. Len(new) /\ Len(new) \in {n, n + 1}
      /\ \A i \in 1 .. n : lines[i] \in Lines
      /\ \A i \in 1 .. Len(new) : new[i] \in Lines
  BY LenProperties, ElementOfSeq DEF SameOtherLines
<1>0. n \in Nat /\ Len(new) \in Nat /\ (Len(new) = n \/ Len(new) = n + 1)
  BY <1>1, LenProperties
<1>2. PICK r : ParseRun(r, lines) /\ parseConfig(lines) = r[n]
  BY ParseGoesLineByLine
<1>3. PICK s : ParseRun(s, new) /\ parseConfig(new) = s[Len(new)]
  BY ParseGoesLineByLine
<1> HIDE DEF n
<1>4. /\ \A k \in 0 .. n : r[k] \in Results
      /\ \A k \in 1 .. n : r[k] = ParseLine(r[k - 1], lines[k])
      /\ \A k \in 0 .. Len(new) : s[k] \in Results
      /\ \A k \in 1 .. Len(new) : s[k] = ParseLine(s[k - 1], new[k])
      /\ r[0] = s[0]
  BY <1>2, <1>3 DEF ParseRun, n
<1>5. \A k \in 0 .. n : Agree(s[k], r[k])
  <2> DEFINE G == {k \in 0 .. n : Agree(s[k], r[k])}
  <2>1. 0 \in G
    BY <1>0, <1>4 DEF Agree
  <2>2. ASSUME NEW k \in 0 .. n - 1, k \in G PROVE k + 1 \in G
    <3>1. /\ k \in 0 .. n /\ k + 1 \in 0 .. n /\ k + 1 \in 1 .. n /\ (k + 1) - 1 = k
          /\ k \in 0 .. Len(new) /\ k + 1 \in 1 .. Len(new)
      BY <1>0
    <3>2. /\ s[k + 1] = ParseLine(s[k], new[k + 1]) /\ r[k + 1] = ParseLine(r[k], lines[k + 1])
          /\ s[k] \in Results /\ r[k] \in Results /\ Agree(s[k], r[k])
          /\ new[k + 1] \in Lines /\ lines[k + 1] \in Lines
      BY <1>1, <1>4, <2>2, <3>1
    <3>3. CASE lines[k + 1].key # "enabled"
      <4>1. new[k + 1] = lines[k + 1]
        BY <1>1, <3>1, <3>3 DEF SameOtherLines
      <4>2. Agree(s[k + 1], r[k + 1])
        BY <3>2, <3>3, <4>1, OtherLinesAgree
      <4> QED
        BY <3>1, <4>2
    <3>4. CASE lines[k + 1].key = "enabled"
      <4>1. new[k + 1].key = "enabled"
        BY <1>1, <3>1, <3>4 DEF SameOtherLines
      <4>2. Agree(s[k + 1], s[k]) /\ Agree(r[k + 1], r[k])
        BY <3>2, <3>4, <4>1, EnabledLineSets
      <4>3. Agree(s[k + 1], r[k + 1])
        BY <3>2, <4>2 DEF Agree
      <4> QED
        BY <3>1, <4>3
    <3> QED
      BY <3>3, <3>4
  <2>3. \A k \in 0 .. n : k \in G
    <3> HIDE DEF G
    <3> QED
      BY <1>1, <2>1, <2>2, UpTo
  <2> QED
    BY <2>3
<1>6. n \in 0 .. n
  BY <1>0
<1>7. CASE Len(new) = n
  BY <1>2, <1>3, <1>5, <1>6, <1>7
<1>8. CASE Len(new) = n + 1
  <2>1. n + 1 \in 1 .. Len(new) /\ n + 1 \notin 1 .. n /\ (n + 1) - 1 = n /\ n \in 0 .. Len(new)
    BY <1>1, <1>8
  <2>2. new[n + 1].key = "enabled" /\ new[n + 1] \in Lines /\ s[n] \in Results
    BY <1>1, <1>4, <2>1 DEF SameOtherLines
  <2>3. s[n + 1] = ParseLine(s[n], new[n + 1])
    BY <1>4, <2>1
  <2>4. Agree(s[n + 1], s[n])
    BY <2>2, <2>3, EnabledLineSets
  <2> QED
    BY <1>2, <1>3, <1>5, <1>6, <1>8, <2>4 DEF Agree
<1> QED
  BY <1>1, <1>7, <1>8

LEMMA AgreedLoads ==
  ASSUME NEW lines, NEW new, Agree(parseConfig(new), parseConfig(lines)), Loads(lines)
  PROVE  Loads(new)
<1>1. \A k \in {"export-timetable", "export-pools", "pools", "pool-window", "active-timetable"} :
        parseConfig(new).cfg[k] = parseConfig(lines).cfg[k]
  BY KeysAre DEF Agree
<1>2. /\ parseConfig(new).cfg["export-timetable"] = parseConfig(lines).cfg["export-timetable"]
      /\ parseConfig(new).cfg["export-pools"] = parseConfig(lines).cfg["export-pools"]
      /\ parseConfig(new).cfg.pools = parseConfig(lines).cfg.pools
      /\ parseConfig(new).cfg["pool-window"] = parseConfig(lines).cfg["pool-window"]
      /\ parseConfig(new).cfg["active-timetable"] = parseConfig(lines).cfg["active-timetable"]
  BY <1>1
<1>3. parseConfig(lines).ok /\ parseConfig(new).ok
  BY DEF Loads, Agree
<1> QED
  BY <1>2, <1>3 DEF Loads, Consistent

(* Of a file with one readable `enabled' line that line is what counts. *)
Readable(lines) == {j \in DOMAIN lines : lines[j].key = "enabled" /\ ~Bad(lines[j])}

LEMMA ReadableCounts ==
  ASSUME NEW lines \in Seq(Lines), NEW i \in DOMAIN lines, Readable(lines) = {i}, parseConfig(lines).ok
  PROVE  parseConfig(lines).cfg.enabled = lines[i].value
<1> DEFINE n == Len(lines)
<1>1. /\ n \in Nat /\ DOMAIN lines = 1 .. n /\ i \in 1 .. n
      /\ \A k \in 1 .. n : lines[k] \in Lines
  BY LenProperties, ElementOfSeq
<1>2. PICK r : ParseRun(r, lines) /\ parseConfig(lines) = r[n]
  BY ParseGoesLineByLine
<1>3. \A k \in 0 .. n : r[k].ok
  BY <1>2, RefusedStays
<1> HIDE DEF n
<1>4. /\ \A k \in 0 .. n : r[k] \in Results
      /\ \A k \in 1 .. n : r[k] = ParseLine(r[k - 1], lines[k])
  BY <1>2 DEF ParseRun, n
<1>5. /\ lines[i].key = "enabled" /\ ~Bad(lines[i])
      /\ \A k \in 1 .. n : k # i => lines[k].key # "enabled" \/ Bad(lines[k])
  BY <1>1 DEF Readable
<1>6. ASSUME NEW k \in 1 .. n
      PROVE  r[k].cfg.enabled = IF k = i THEN lines[i].value ELSE r[k - 1].cfg.enabled
  <2>1. /\ k - 1 \in 0 .. n /\ r[k - 1] \in Results /\ lines[k] \in Lines /\ r[k - 1].ok
        /\ r[k] = ParseLine(r[k - 1], lines[k])
    BY <1>1, <1>3, <1>4
  <2>2. CASE lines[k].key = "enabled"
    BY <1>5, <2>1, <2>2, EnabledLineSets
  <2>3. CASE lines[k].key # "enabled"
    <3>1. Agree(r[k - 1], r[k - 1]) /\ k # i
      BY <1>5, <2>3 DEF Agree
    <3> QED
      BY <2>1, <2>3, <3>1, OtherLinesAgree
  <2> QED
    BY <2>2, <2>3
<1>7. \A k \in 0 .. n - i : r[i + k].cfg.enabled = lines[i].value
  <2> DEFINE G == {k \in 0 .. n - i : r[i + k].cfg.enabled = lines[i].value}
  <2>1. 0 \in G
    <3>1. i + 0 = i /\ 0 \in 0 .. n - i
      BY <1>1
    <3>2. r[i].cfg.enabled = lines[i].value
      BY <1>1, <1>6
    <3> QED
      BY <3>1, <3>2
  <2>2. ASSUME NEW k \in 0 .. (n - i) - 1, k \in G PROVE k + 1 \in G
    <3>1. /\ i + (k + 1) \in 1 .. n /\ i + (k + 1) # i /\ (i + (k + 1)) - 1 = i + k
          /\ k + 1 \in 0 .. n - i
      BY <1>1
    <3>2. r[i + (k + 1)].cfg.enabled = r[i + k].cfg.enabled
      BY <1>6, <3>1
    <3> QED
      BY <2>2, <3>1, <3>2
  <2>3. n - i \in Nat
    BY <1>1
  <2>4. \A k \in 0 .. n - i : k \in G
    <3> HIDE DEF G
    <3> QED
      BY <2>1, <2>2, <2>3, UpTo
  <2> QED
    BY <2>4
<1>8. n - i \in 0 .. n - i /\ i + (n - i) = n
  BY <1>1
<1>9. r[i + (n - i)].cfg.enabled = lines[i].value
  BY <1>7, <1>8
<1> QED
  BY <1>2, <1>8, <1>9

-----------------------------------------------------------------------------
(* The file the program creates, with one of both values of `enabled'. *)
CreatedWith(on) == [marshalConfig(defaultConfig) EXCEPT ![2] = Enabled(on)]

LEMMA ListedOnce == Len(Listed) = 10 /\ \A i \in 1 .. 10 : Listed[i] \in Keys /\ (Listed[i] = "enabled" <=> i = 1)
BY KeysAre DEF Listed

LEMMA CreatedLines ==
  ASSUME NEW on \in BOOLEAN
  PROVE  /\ CreatedWith(on) \in Seq(Lines) /\ Len(CreatedWith(on)) = 11
         /\ CreatedWith(on)[1] = Comment /\ CreatedWith(on)[2] = Enabled(on)
         /\ \A i \in 2 .. 10 : CreatedWith(on)[i + 1] = [key |-> Listed[i], value |-> defaultConfig[Listed[i]]]
         /\ Places(CreatedWith(on)) = {2}
<1> DEFINE m == marshalConfig(defaultConfig)
           c == CreatedWith(on)
<1>1. /\ m \in Seq(Lines) /\ Len(m) = 11 /\ m[1] = Comment
      /\ \A i \in 1 .. 10 : m[i + 1] = Written(defaultConfig, Listed[i])
  BY MarshalTyped
<1>2. Enabled(on) \in Lines /\ Enabled(on).key = "enabled"
  BY EnabledLines
<1> HIDE DEF m
<1>3. c = [m EXCEPT ![2] = Enabled(on)]
  BY DEF CreatedWith, m
<1> HIDE DEF c
<1>4. /\ c \in Seq(Lines) /\ Len(c) = 11 /\ DOMAIN c = 1 .. 11
      /\ \A i \in 1 .. 11 : c[i] = IF i = 2 THEN Enabled(on) ELSE m[i]
  <2>1. 2 \in 1 .. Len(m) /\ DOMAIN m = 1 .. 11
    BY <1>1, LenProperties
  <2>2. c \in Seq(Lines) /\ Len(c) = Len(m)
    <3> DEFINE e == Enabled(on)
    <3>1. e \in Lines /\ m \in Seq(Lines) /\ 2 \in 1 .. Len(m)
      BY <1>1, <1>2, <2>1
    <3> HIDE DEF e
    <3>2. [m EXCEPT ![2] = e] \in Seq(Lines) /\ Len([m EXCEPT ![2] = e]) = Len(m)
      BY <3>1, ExceptSeq
    <3> QED
      BY <1>3, <3>2 DEF e
  <2>3. DOMAIN c = 1 .. 11
    BY <1>1, <2>2, LenProperties
  <2>4. \A i \in 1 .. 11 : c[i] = IF i = 2 THEN Enabled(on) ELSE m[i]
    BY <1>3, <2>1
  <2> QED
    BY <1>1, <2>2, <2>3, <2>4
<1>5. \A i \in 2 .. 10 : c[i + 1] = [key |-> Listed[i], value |-> defaultConfig[Listed[i]]]
  <2>1. \A i \in 2 .. 10 : i + 1 \in 1 .. 11 /\ i + 1 # 2 /\ i \in 1 .. 10
    OBVIOUS
  <2> QED
    BY <1>1, <1>4, <2>1, ListedOnce, DefaultLines
<1>6. \A i \in 1 .. 11 : c[i].key = "enabled" <=> i = 2
  <2>1. c[1].key = "#"
    BY <1>1, <1>4 DEF Comment, BadLine
  <2>2. \A i \in 3 .. 11 : c[i].key # "enabled"
    <3>1. \A i \in 3 .. 11 : i - 1 \in 2 .. 10 /\ (i - 1) + 1 = i /\ i - 1 \in 1 .. 10 /\ i - 1 # 1
      OBVIOUS
    <3> QED
      BY <1>5, <3>1, ListedOnce
  <2>3. \A i \in 1 .. 11 : i = 1 \/ i = 2 \/ i \in 3 .. 11
    OBVIOUS
  <2> QED
    BY <1>2, <1>4, <2>1, <2>2, <2>3
<1>7. Places(c) = {2}
  BY <1>4, <1>6 DEF Places
<1>8. c[1] = Comment /\ c[2] = Enabled(on)
  BY <1>1, <1>4
<1> QED
  BY <1>4, <1>5, <1>7, <1>8 DEF c

LEMMA CreatedFromDefaults == marshalConfig(defaultConfig) = CreatedWith(TRUE)
<1> DEFINE m == marshalConfig(defaultConfig)
<1>1. /\ m \in Seq(Lines) /\ Len(m) = 11
      /\ \A i \in 1 .. 10 : m[i + 1] = Written(defaultConfig, Listed[i])
  BY MarshalTyped
<1>2. 1 \in 1 .. 10 /\ 1 + 1 = 2 /\ Listed[1] = "enabled"
  BY DEF Listed
<1>3. m[2] = Written(defaultConfig, "enabled")
  BY <1>1, <1>2
<1>4. "enabled" \in Keys /\ defaultConfig["enabled"] = TRUE
  <2>1. "enabled" \in Keys
    BY KeysAre
  <2>2. \A k \in Keys : defaultConfig[k] =
          CASE k = "enabled" -> TRUE [] k = "wait" -> DefaultWait [] k \in ListKeys -> {} [] OTHER -> <<>>
    BY DEF defaultConfig
  <2> QED
    BY <2>1, <2>2 DEF ListKeys
<1>5. m[2] = Enabled(TRUE)
  BY <1>3, <1>4, DefaultLines DEF Enabled, Line
<1> HIDE DEF m
<1>6. [m EXCEPT ![2] = Enabled(TRUE)] = m
  <2>1. DOMAIN m = 1 .. 11 /\ m = [i \in 1 .. 11 |-> m[i]]
    BY <1>1
  <2> QED
    BY <1>5, <2>1
<1> QED
  BY <1>6 DEF CreatedWith, m

LEMMA CreatedParses ==
  ASSUME NEW on \in BOOLEAN
  PROVE  parseConfig(CreatedWith(on)) = [ok |-> TRUE, cfg |-> [defaultConfig EXCEPT !.enabled = on]]
<1> DEFINE c == CreatedWith(on)
           d == [ok |-> TRUE, cfg |-> [defaultConfig EXCEPT !.enabled = on]]
           base == [ok |-> TRUE, cfg |-> defaultConfig]
<1>1. /\ c \in Seq(Lines) /\ Len(c) = 11 /\ c[1] = Comment /\ c[2] = Enabled(on)
      /\ \A i \in 2 .. 10 : c[i + 1] = [key |-> Listed[i], value |-> defaultConfig[Listed[i]]]
  BY CreatedLines
<1> HIDE DEF c
<1>2. PICK r : ParseRun(r, c) /\ parseConfig(c) = r[11]
  BY <1>1, ParseGoesLineByLine
<1>3. /\ r[0] = base /\ \A i \in 1 .. 11 : r[i] = ParseLine(r[i - 1], c[i])
  BY <1>1, <1>2 DEF ParseRun
<1>4. base \in Results
  BY DefaultTyped DEF Results
<1>5. r[1] = base
  <2>1. r[1] = ParseLine(base, Comment)
    BY <1>1, <1>3
  <2> QED
    BY <2>1 DEF ParseLine, Comment, BadLine, KeyOf
<1>6. r[2] = d
  <2>1. r[2] = ParseLine(base, Enabled(on))
    BY <1>1, <1>3, <1>5
  <2>2. "enabled" \in Keys /\ "enabled" \notin TimetableKeys
    BY KeysAre DEF TimetableKeys
  <2>3. ~Bad(Enabled(on)) /\ KeyOf(Enabled(on)) = "enabled" /\ Enabled(on).value = on
    BY EnabledLines DEF KeyOf
  <2>4. r[2] = [base EXCEPT !.cfg["enabled"] = on]
    BY <2>1, <2>2, <2>3 DEF ParseLine
  <2> QED
    BY <2>4
<1>7. d \in Results /\ d.ok
  <2>1. r[2] \in Results
    BY <1>1, <1>2 DEF ParseRun
  <2>2. d.ok
    OBVIOUS
  <2> HIDE DEF d
  <2> QED
    BY <1>6, <2>1, <2>2
<1>8. ASSUME NEW i \in 2 .. 10 PROVE ParseLine(d, c[i + 1]) = d
  <2> DEFINE k == Listed[i]
             l == [key |-> k, value |-> defaultConfig[k]]
  <2>1. k \in Keys /\ k # "enabled" /\ c[i + 1] = l
    BY <1>1, ListedOnce
  <2> HIDE DEF k
  <2>2. ~Bad(l) /\ KeyOf(l) = k /\ l.value = defaultConfig[k] /\ k # "#"
    BY <2>1, KeysAre DEF Bad, KeyOf
  <2>3. (IF k = "pool-window" THEN parsePoolWindows(l.value) ELSE l.value) = d.cfg[k]
    <3>1. d.cfg[k] = defaultConfig[k]
      BY <2>1 DEF defaultConfig
    <3>2. k = "pool-window" => defaultConfig[k] = <<>>
      BY <2>1 DEF defaultConfig, ListKeys
    <3>3. parsePoolWindows(<<>>) = <<>>
      BY DEF parsePoolWindows
    <3> QED
      BY <2>2, <3>1, <3>2, <3>3
  <2>4. ParseLine(d, l) = [d EXCEPT !.cfg[k] = d.cfg[k]]
    BY <1>7, <2>1, <2>2, <2>3 DEF ParseLine
  <2>5. d.cfg[k] \in ParsedAs(k)
    BY <1>7, <2>1 DEF Results, Configs
  <2> HIDE DEF d, l
  <2>6. [d EXCEPT !.cfg[k] = d.cfg[k]] = d
    <3> DEFINE e == [d EXCEPT !.cfg[k] = d.cfg[k]]
    <3>1. /\ e \in Results /\ e.ok = d.ok /\ e.cfg[k] = d.cfg[k]
          /\ \A j \in Keys \ {k} : e.cfg[j] = d.cfg[j]
      <4>1. d \in Results /\ k \in Keys
        BY <1>7, <2>1
      <4> QED
        BY <2>5, <4>1, SetValue
    <3> HIDE DEF e
    <3>2. \A j \in Keys : e.cfg[j] = d.cfg[j]
      BY <3>1
    <3>3. e = d
      BY <1>7, <3>1, <3>2, SameResult
    <3> QED
      BY <3>3 DEF e
  <2> QED
    BY <2>1, <2>4, <2>6
<1> HIDE DEF d, base
<1>9. \A i \in 2 .. 11 : r[i] = d
  <2> DEFINE G == {i \in 0 .. 9 : r[i + 2] = d}
  <2>1. 0 \in G
    BY <1>6
  <2>2. ASSUME NEW i \in 0 .. 9 - 1, i \in G PROVE i + 1 \in G
    <3>1. i + 2 \in 2 .. 10 /\ (i + 1) + 2 = (i + 2) + 1 /\ (i + 2) + 1 \in 1 .. 11
          /\ ((i + 2) + 1) - 1 = i + 2 /\ i + 1 \in 0 .. 9
      OBVIOUS
    <3>2. r[(i + 2) + 1] = ParseLine(r[i + 2], c[(i + 2) + 1])
      BY <1>3, <3>1
    <3>3. r[(i + 2) + 1] = d
      BY <1>8, <2>2, <3>1, <3>2
    <3> QED
      BY <3>1, <3>3
  <2>3. \A i \in 0 .. 9 : i \in G
    <3> HIDE DEF G
    <3> QED
      BY <2>1, <2>2, UpTo
  <2>4. ASSUME NEW i \in 2 .. 11 PROVE r[i] = d
    <3>1. i - 2 \in 0 .. 9 /\ (i - 2) + 2 = i
      OBVIOUS
    <3>2. r[(i - 2) + 2] = d
      BY <2>3, <3>1
    <3> QED
      BY <3>1, <3>2
  <2> QED
    BY <2>4
<1>10. 11 \in 2 .. 11
  OBVIOUS
<1> QED
  BY <1>2, <1>9, <1>10 DEF c, d

-----------------------------------------------------------------------------
(* What enable and disable leave behind: the first `enabled' line says     *)
(* what the last of them asked for, and the file loads; a file that was    *)
(* created has the lines it was created with.                              *)
AskedInv ==
  /\ asked # "none" => /\ file # "missing" /\ Loads(text)
                       /\ Places(text) # {} /\ text[First(text)] = Enabled(asked = "yes")
  /\ file = "created" => text = CreatedWith(asked # "no")

LEMMA CreatedEdited ==
  ASSUME NEW x \in BOOLEAN, NEW on \in BOOLEAN
  PROVE  setEnabledInFile(CreatedWith(x), on) = CreatedWith(on)
<1> DEFINE c == CreatedWith(x)
<1>1. c \in Seq(Lines) /\ Places(c) = {2}
  BY CreatedLines
<1>2. First(c) = 2
  <2>1. First(c) \in Places(c)
    BY <1>1, FirstIsFirst
  <2> QED
    BY <1>1, <2>1
<1>3. setEnabledInFile(c, on) = [c EXCEPT ![2] = Enabled(on)]
  BY <1>1, <1>2 DEF setEnabledInFile, Places, First
<1>4. [c EXCEPT ![2] = Enabled(on)] = CreatedWith(on)
  BY DEF CreatedWith
<1> QED
  BY <1>3, <1>4

LEMMA ExistingIsCreated ==
  ASSUME StartInv, AskedInv, OnceRead = "created"
  PROVE  \E x \in BOOLEAN : Existing = CreatedWith(x)
<1>1. CASE file = "missing"
  BY <1>1, CreatedFromDefaults DEF Existing
<1>2. CASE file = "created"
  BY <1>2 DEF AskedInv, Existing
<1> QED
  BY <1>1, <1>2 DEF OnceRead

LEMMA EditOfAsked ==
  ASSUME StartInv, AskedInv, NEW on \in BOOLEAN, Edit(on)
  PROVE  AskedInv'
<1>1. /\ text' = setEnabledInFile(Existing, on) /\ Loads(Existing)
      /\ file' = OnceRead /\ asked' = (IF on THEN "yes" ELSE "no")
  BY DEF Edit
<1>2. Existing \in Seq(Lines) /\ OnceRead \in {"written", "created"}
  BY ExistingTyped
<1>3. /\ text' \in Seq(Lines) /\ SameOtherLines(Existing, text')
      /\ Places(text') # {} /\ text'[First(text')] = Enabled(on)
  BY <1>1, <1>2, EditedLines
<1>4. Loads(text')
  BY <1>1, <1>2, <1>3, SameOthersParseAlike, AgreedLoads
<1>5. Enabled(asked' = "yes") = Enabled(on) /\ (asked' # "no") = on
  BY <1>1
<1>6. file' = "created" => text' = CreatedWith(asked' # "no")
  BY <1>1, <1>5, ExistingIsCreated, CreatedEdited
<1> QED
  BY <1>1, <1>2, <1>3, <1>4, <1>5, <1>6 DEF AskedInv

LEMMA AskedKept ==
  ASSUME AskedInv, UNCHANGED <<text, file, asked>>
  PROVE  AskedInv'
BY DEF AskedInv

LEMMA AskedStep == StartInv /\ AskedInv /\ [StartNext]_startVars => AskedInv'
<1> SUFFICES ASSUME StartInv, AskedInv, [StartNext]_startVars PROVE AskedInv'
  OBVIOUS
<1>1. ASSUME NEW on \in BOOLEAN, Edit(on) PROVE AskedInv'
  BY <1>1, EditOfAsked
<1>2. CASE Load
  <2>1. text' = Existing /\ file' = OnceRead /\ asked' = asked
    BY <1>2 DEF Load
  <2>2. CASE file = "missing"
    <3>1. text' = CreatedWith(TRUE) /\ file' = "created" /\ asked = "none"
      BY <2>1, <2>2, CreatedFromDefaults DEF Existing, OnceRead, AskedInv
    <3>2. (asked # "no") = TRUE
      BY <3>1
    <3> QED
      BY <2>1, <3>1, <3>2 DEF AskedInv
  <2>3. CASE file # "missing"
    BY <2>1, <2>3, AskedKept DEF Existing, OnceRead
  <2> QED
    BY <2>2, <2>3
<1>3. CASE Validate \/ Resolve \/ Exit \/ Tick
  BY <1>3, AskedKept DEF Validate, Resolve, Exit, Tick
<1>4. ASSUME NEW busy, NEW through, LinuxSample(busy, through) \/ IostatSample(through, busy)
      PROVE  AskedInv'
  BY <1>4, CountedTraces, AskedKept DEF LinuxSample, IostatSample
<1>5. ASSUME NEW names, Command(names) PROVE AskedInv'
  BY <1>5, AskedKept DEF Command
<1>6. CASE UNCHANGED startVars
  BY <1>6, AskedKept DEF startVars
<1> QED
  BY <1>1, <1>2, <1>3, <1>4, <1>5, <1>6 DEF StartNext, DaemonSleep, SleepNow, SleepPool

LEMMA AskedInvAlways == StartSpec => []AskedInv
<1>1. StartInit => AskedInv
  BY StartAssumption DEF StartInit, AskedInv
<1> QED
  BY <1>1, AskedStep, StartInvAlways, PTL DEF StartSpec

(* Of a file with one readable `enabled' line, whatever else it says, the  *)
(* next load takes what the last of enable and disable asked for, and no   *)
(* daemon runs against it; a file that the program created is loaded as    *)
(* the defaults.                                                           *)
THEOREM AskedIsWhatLoads == StartSpec => []AskedIsLoaded
<1>1. StartInv /\ AskedInv => AskedIsLoaded
  <2> SUFFICES ASSUME StartInv, AskedInv PROVE AskedIsLoaded
    OBVIOUS
  <2>1. text \in Seq(Lines)
    BY DEF StartInv, Stored
  <2>2. ASSUME asked # "none", NEW i \in DOMAIN text, Readable(text) = {i}
        PROVE  /\ Loads(text) /\ parseConfig(text).cfg.enabled = (asked = "yes")
               /\ status # (IF asked = "yes" THEN "disabled" ELSE "managing")
    <3>1. /\ Loads(text) /\ Places(text) # {} /\ text[First(text)] = Enabled(asked = "yes")
          /\ (asked = "yes") \in BOOLEAN
      BY <2>2 DEF AskedInv
    <3>2. First(text) \in Places(text)
      BY <2>1, <3>1, FirstIsFirst
    <3>3. First(text) \in Readable(text)
      BY <3>1, <3>2, EnabledLines DEF Readable, Places
    <3>4. text[i].value = (asked = "yes")
      BY <2>2, <3>1, <3>3, EnabledLines
    <3>5. parseConfig(text).cfg.enabled = (asked = "yes")
      BY <2>1, <2>2, <3>1, <3>4, ReadableCounts DEF Loads
    <3>6. status \in {"disabled", "managing"} => cfg = parseConfig(text).cfg
      BY DEF StartInv, FileSays
    <3>7. status # (IF asked = "yes" THEN "disabled" ELSE "managing")
      BY <3>5, <3>6 DEF StartInv, Resolved
    <3> QED
      BY <3>1, <3>5, <3>7
  <2>3. ASSUME file = "created"
        PROVE  parseConfig(text) = [ok |-> TRUE, cfg |-> [defaultConfig EXCEPT !.enabled = (asked # "no")]]
    BY <2>3, CreatedParses DEF AskedInv
  <2> QED
    BY <2>2, <2>3 DEF AskedIsLoaded, Readable
<1> QED
  BY <1>1, StartInvAlways, AskedInvAlways, PTL

(* enable.go:86-87: enable and disable touch no line but those of          *)
(* `enabled', however long the file, asking again changes nothing, and no  *)
(* other step writes to a file that exists.                                *)
THEOREM EditsKeepEveryLine == StartSpec => EditsKeepTheRest
<1> DEFINE Kept == file # "missing" => SameOtherLines(text, text') /\ (asked' = asked => text' = text)
<1>1. StartInv /\ AskedInv /\ [StartNext]_startVars => [Kept]_startVars
  <2> SUFFICES ASSUME StartInv, AskedInv, StartNext, file # "missing"
               PROVE  SameOtherLines(text, text') /\ (asked' = asked => text' = text)
    OBVIOUS
  <2>1. text \in Seq(Lines) /\ Existing = text
    BY DEF StartInv, Stored, Existing
  <2>2. ASSUME text' = text PROVE SameOtherLines(text, text')
    BY <2>2 DEF SameOtherLines
  <2>3. ASSUME NEW on \in BOOLEAN, Edit(on)
        PROVE  SameOtherLines(text, text') /\ (asked' = asked => text' = text)
    <3>1. text' = setEnabledInFile(text, on) /\ asked' = IF on THEN "yes" ELSE "no"
      BY <2>1, <2>3 DEF Edit
    <3>2. SameOtherLines(text, text')
      BY <2>1, <3>1, EditedLines
    <3>3. ASSUME asked' = asked PROVE text' = text
      <4>1. asked # "none" /\ (asked = "yes") = on
        BY <3>1, <3>3
      <4>2. Places(text) # {} /\ text[First(text)] = Enabled(on)
        BY <4>1 DEF AskedInv
      <4> QED
        BY <2>1, <3>1, <4>2, EditedAgain
    <3> QED
      BY <3>2, <3>3
  <2>4. CASE Load
    BY <2>1, <2>2, <2>4 DEF Load
  <2>5. CASE Validate \/ Resolve \/ Exit \/ Tick
    BY <2>2, <2>5 DEF Validate, Resolve, Exit, Tick
  <2>6. ASSUME NEW busy, NEW through, LinuxSample(busy, through) \/ IostatSample(through, busy)
        PROVE  text' = text
    BY <2>6, CountedTraces DEF LinuxSample, IostatSample
  <2>7. ASSUME NEW names, Command(names) PROVE text' = text
    BY <2>7 DEF Command
  <2> QED
    BY <2>2, <2>3, <2>4, <2>5, <2>6, <2>7 DEF StartNext, DaemonSleep, SleepNow, SleepPool
<1> QED
  BY <1>1, StartInvAlways, AskedInvAlways, PTL DEF StartSpec, EditsKeepTheRest

-----------------------------------------------------------------------------
(* What a sampler reads: counters of names, and what it makes of them. *)
CounterSet == [name : Name, busy : BOOLEAN]
Seen == [sampled : SUBSET Normals, active : SUBSET Normals]
CountOp == [x \in Seen \X CounterSet |-> Count(x[1], x[2])]
CountWholeOp == [x \in Seen \X CounterSet |-> CountWhole(x[1], x[2])]

LEMMA CountsTyped ==
  /\ CountOp \in [Seen \X CounterSet -> Seen]
  /\ CountWholeOp \in [Seen \X CounterSet -> Seen]
<1>1. ASSUME NEW x \in Seen, NEW c \in CounterSet PROVE Count(x, c) \in Seen
  <2>1. Normalize(c.name) \in Normals
    BY DEF CounterSet, Normals
  <2> QED
    BY <2>1 DEF Count, Seen
<1>2. \A x \in Seen, c \in CounterSet : CountWhole(x, c) \in Seen
  BY <1>1 DEF CountWhole
<1> QED
  BY <1>1, <1>2 DEF CountOp, CountWholeOp

(* Counters and linuxSample are where the run over the counters ends. *)
LEMMA CountersFold ==
  ASSUME NEW cs \in Seq(CounterSet), NEW end, Folded(Seen, CountOp, NoCounters, cs, end)
  PROVE  Counters(cs) = end
<1> DEFINE n == Len(cs)
           Folds(F) == F = [s \in SUBSET DOMAIN cs |->
                              IF s = {} THEN NoCounters ELSE Count(F[s \ {Max(s)}], cs[Max(s)])]
<1>1. n \in Nat /\ DOMAIN cs = 1 .. n /\ \A i \in 1 .. n : cs[i] \in CounterSet
  BY LenProperties, ElementOfSeq
<1>2. NoCounters \in Seen
  BY DEF NoCounters, Seen
<1>3. \E F : Folds(F)
  <2>1. PICK F \in [SUBSET (1 .. n) -> Seen] : Iterates(F, n, CountOp, NoCounters, cs)
    BY <1>2, CountsTyped, IterationExists
  <2>2. ASSUME NEW s \in SUBSET (1 .. n)
        PROVE  F[s] = IF s = {} THEN NoCounters ELSE Count(F[s \ {Max(s)}], cs[Max(s)])
    <3>1. F[s] = IF s = {} THEN NoCounters ELSE CountOp[<<F[s \ {Max(s)}], cs[Max(s)]>>]
      BY <2>1 DEF Iterates
    <3>2. ASSUME s # {}
          PROVE  CountOp[<<F[s \ {Max(s)}], cs[Max(s)]>>] = Count(F[s \ {Max(s)}], cs[Max(s)])
      <4>1. Max(s) \in 1 .. n /\ s \ {Max(s)} \in SUBSET (1 .. n)
        BY <1>1, <3>2, LargestExists
      <4> QED
        BY <1>1, <2>1, <4>1 DEF CountOp
    <3> QED
      BY <3>1, <3>2
  <2>3. Folds(F)
    BY <1>1, <2>1, <2>2
  <2> QED
    BY <2>3
<1>4. PICK F : Folds(F) /\ Counters(cs) = F[DOMAIN cs]
  BY <1>3 DEF Counters, NoCounters, FoldLeft, MapThenFoldSet
<1>5. F[1 .. 0] = NoCounters
  <2>1. 1 .. 0 = {} /\ {} \in SUBSET DOMAIN cs
    OBVIOUS
  <2> QED
    BY <1>4, <2>1
<1>6. ASSUME NEW i \in 1 .. n PROVE F[1 .. i] = Count(F[1 .. (i - 1)], cs[i])
  <2>1. i \in Nat /\ 1 .. i \in SUBSET DOMAIN cs /\ i \in 1 .. i
    BY <1>1
  <2>2. Max(1 .. i) = i /\ (1 .. i) \ {i} = 1 .. (i - 1)
    BY <2>1, LargestOfPrefix
  <2> QED
    BY <1>4, <2>1, <2>2
<1>7. Follows(F, Seen, CountOp, cs)
  BY <1>1, <1>6 DEF Follows, CountOp
<1>8. F[1 .. n] = end
  BY <1>2, <1>5, <1>7, CountsTyped, FoldEnds
<1> QED
  BY <1>1, <1>4, <1>8

LEMMA LinuxFold ==
  ASSUME NEW cs \in Seq(CounterSet), NEW end, Folded(Seen, CountWholeOp, NoCounters, cs, end)
  PROVE  linuxSample(cs) = end
<1> DEFINE n == Len(cs)
           Folds(F) == F = [s \in SUBSET DOMAIN cs |->
                              IF s = {} THEN NoCounters ELSE CountWhole(F[s \ {Max(s)}], cs[Max(s)])]
<1>1. n \in Nat /\ DOMAIN cs = 1 .. n /\ \A i \in 1 .. n : cs[i] \in CounterSet
  BY LenProperties, ElementOfSeq
<1>2. NoCounters \in Seen
  BY DEF NoCounters, Seen
<1>3. \E F : Folds(F)
  <2>1. PICK F \in [SUBSET (1 .. n) -> Seen] : Iterates(F, n, CountWholeOp, NoCounters, cs)
    BY <1>2, CountsTyped, IterationExists
  <2>2. ASSUME NEW s \in SUBSET (1 .. n)
        PROVE  F[s] = IF s = {} THEN NoCounters ELSE CountWhole(F[s \ {Max(s)}], cs[Max(s)])
    <3>1. F[s] = IF s = {} THEN NoCounters ELSE CountWholeOp[<<F[s \ {Max(s)}], cs[Max(s)]>>]
      BY <2>1 DEF Iterates
    <3>2. ASSUME s # {}
          PROVE  CountWholeOp[<<F[s \ {Max(s)}], cs[Max(s)]>>] = CountWhole(F[s \ {Max(s)}], cs[Max(s)])
      <4>1. Max(s) \in 1 .. n /\ s \ {Max(s)} \in SUBSET (1 .. n)
        BY <1>1, <3>2, LargestExists
      <4> QED
        BY <1>1, <2>1, <4>1 DEF CountWholeOp
    <3> QED
      BY <3>1, <3>2
  <2>3. Folds(F)
    BY <1>1, <2>1, <2>2
  <2> QED
    BY <2>3
<1>4. PICK F : Folds(F) /\ linuxSample(cs) = F[DOMAIN cs]
  BY <1>3 DEF linuxSample, NoCounters, FoldLeft, MapThenFoldSet
<1>5. F[1 .. 0] = NoCounters
  <2>1. 1 .. 0 = {} /\ {} \in SUBSET DOMAIN cs
    OBVIOUS
  <2> QED
    BY <1>4, <2>1
<1>6. ASSUME NEW i \in 1 .. n PROVE F[1 .. i] = CountWhole(F[1 .. (i - 1)], cs[i])
  <2>1. i \in Nat /\ 1 .. i \in SUBSET DOMAIN cs /\ i \in 1 .. i
    BY <1>1
  <2>2. Max(1 .. i) = i /\ (1 .. i) \ {i} = 1 .. (i - 1)
    BY <2>1, LargestOfPrefix
  <2> QED
    BY <1>4, <2>1, <2>2
<1>7. Follows(F, Seen, CountWholeOp, cs)
  BY <1>1, <1>6 DEF Follows, CountWholeOp
<1>8. F[1 .. n] = end
  BY <1>2, <1>5, <1>7, CountsTyped, FoldEnds
<1> QED
  BY <1>1, <1>4, <1>8

(* A whole disk is known by its own name, and its counter by that name. *)
Wholes(K) == {Whole(d) : d \in K}
After(x, K, b) ==
  [sampled |-> x.sampled \cup Wholes(K),
   active |-> (x.active \ Wholes(K)) \cup Wholes(K \cap b)]

LEMMA WholeCounter ==
  ASSUME NEW d \in Disk, NEW b
  PROVE  /\ Whole(d) \in Normals /\ Normalize(Whole(d)) = Whole(d) /\ wholeLinux(Whole(d))
         /\ CounterOf(Whole(d), b) \in CounterSet
         /\ CounterOf(Whole(d), b).name = Whole(d) /\ (CounterOf(Whole(d), b).busy <=> d \in b)
<1>1. Whole(d) \in [disk : {d}, part : PartsOf(d), dressed : BOOLEAN]
  BY DEF Whole, PartsOf
<1>2. Whole(d) \in Name
  BY <1>1 DEF Name
<1>3. Whole(d).part = "none" /\ Whole(d).disk = d
  BY DEF Whole
<1>4. Whole(d) \in Regular
  BY <1>2, <1>3 DEF Regular
<1>5. Normalize(Whole(d)) = Whole(d) /\ wholeLinux(Whole(d))
  BY <1>3, <1>4, RegularIsWhole DEF wholeLinux
<1>6. Whole(d) \in Normals
  BY <1>2, <1>5 DEF Normals
<1>7. (d \in b) \in BOOLEAN
  OBVIOUS
<1> QED
  BY <1>2, <1>3, <1>5, <1>6, <1>7 DEF CounterOf, CounterSet

LEMMA AfterTyped ==
  ASSUME NEW x \in Seen, NEW K \in SUBSET Disk, NEW b
  PROVE  After(x, K, b) \in Seen
<1>1. Wholes(K) \in SUBSET Normals /\ Wholes(K \cap b) \in SUBSET Normals
  BY WholeCounter DEF Wholes
<1> QED
  BY <1>1 DEF After, Seen

(* A further disk is counted, and a later report replaces an earlier one. *)
LEMMA AfterOneMore ==
  ASSUME NEW x \in Seen, NEW K \in SUBSET Disk, NEW b, NEW d \in Disk
  PROVE  Count(After(x, K, b), CounterOf(Whole(d), b)) = After(x, K \cup {d}, b)
<1> DEFINE c == CounterOf(Whole(d), b)
           y == After(x, K, b)
<1>1. c.name = Whole(d) /\ (c.busy <=> d \in b) /\ Normalize(c.name) = Whole(d)
  BY WholeCounter
<1>2. Wholes(K \cup {d}) = Wholes(K) \cup {Whole(d)}
  BY DEF Wholes
<1>3. \A e \in K : Whole(e) = Whole(d) => e = d
  BY WholeIsItsDisk
<1>4. y.sampled = x.sampled \cup Wholes(K) /\ y.active = (x.active \ Wholes(K)) \cup Wholes(K \cap b)
  BY DEF After
<1> HIDE DEF c, y
<1>5. Count(y, c) = [sampled |-> y.sampled \cup {Whole(d)},
                     active |-> IF d \in b THEN y.active \cup {Whole(d)} ELSE y.active \ {Whole(d)}]
  BY <1>1 DEF Count
<1>6. CASE d \in b
  <2>1. Wholes((K \cup {d}) \cap b) = Wholes(K \cap b) \cup {Whole(d)}
    BY <1>6 DEF Wholes
  <2>2. y.active \cup {Whole(d)} = (x.active \ Wholes(K \cup {d})) \cup Wholes((K \cup {d}) \cap b)
    BY <1>2, <1>4, <2>1
  <2>3. y.sampled \cup {Whole(d)} = x.sampled \cup Wholes(K \cup {d})
    BY <1>2, <1>4
  <2> QED
    BY <1>5, <1>6, <2>2, <2>3 DEF After, c, y
<1>7. CASE d \notin b
  <2>1. (K \cup {d}) \cap b = K \cap b /\ Whole(d) \notin Wholes(K \cap b)
    BY <1>3, <1>7 DEF Wholes
  <2>2. y.active \ {Whole(d)} = (x.active \ Wholes(K \cup {d})) \cup Wholes((K \cup {d}) \cap b)
    BY <1>2, <1>4, <2>1
  <2>3. y.sampled \cup {Whole(d)} = x.sampled \cup Wholes(K \cup {d})
    BY <1>2, <1>4
  <2> QED
    BY <1>5, <1>7, <2>2, <2>3 DEF After, c, y
<1> QED
  BY <1>6, <1>7

(* The first k of the disks listed. *)
FirstOf(disks, k) == {disks[i] : i \in 1 .. k}

LEMMA DisksListed ==
  ASSUME NEW D \in SUBSET Disk
  PROVE  LET disks == SetToSeq(D)
         IN  /\ Len(disks) \in Nat /\ DOMAIN disks = 1 .. Len(disks)
             /\ \A i \in 1 .. Len(disks) : disks[i] \in Disk
             /\ FirstOf(disks, 0) = {} /\ FirstOf(disks, Len(disks)) = D
             /\ \A k \in 0 .. Len(disks) : FirstOf(disks, k) \in SUBSET Disk
             /\ \A i \in 1 .. Len(disks) : FirstOf(disks, i) = FirstOf(disks, i - 1) \cup {disks[i]}
<1> DEFINE disks == SetToSeq(D)
<1>1. IsFiniteSet(D)
  BY NamesAssumption, FS_Subset
<1>2. disks \in Seq(D) /\ {disks[i] : i \in DOMAIN disks} = D
  BY <1>1, SetToSeqListsAll
<1> HIDE DEF disks
<1>3. Len(disks) \in Nat /\ DOMAIN disks = 1 .. Len(disks) /\ \A i \in 1 .. Len(disks) : disks[i] \in D
  BY <1>2, LenProperties, ElementOfSeq
<1>4. FirstOf(disks, 0) = {} /\ FirstOf(disks, Len(disks)) = D
  BY <1>2, <1>3 DEF FirstOf
<1>5. \A k \in 0 .. Len(disks) : FirstOf(disks, k) \in SUBSET Disk
  BY <1>3 DEF FirstOf
<1>6. ASSUME NEW i \in 1 .. Len(disks) PROVE FirstOf(disks, i) = FirstOf(disks, i - 1) \cup {disks[i]}
  <2>1. \A j : j \in 1 .. i <=> j \in 1 .. (i - 1) \/ j = i
    BY <1>3
  <2> QED
    BY <2>1 DEF FirstOf
<1> QED
  BY <1>3, <1>4, <1>5, <1>6 DEF disks

(* One report of iostat: the counters of all the disks. *)
LEMMA RatesFold ==
  ASSUME NEW D \in SUBSET Disk, NEW b, NEW x \in Seen
  PROVE  LET rates == [i \in DOMAIN SetToSeq(D) |-> CounterOf(Whole(SetToSeq(D)[i]), b)]
         IN  rates \in Seq(CounterSet) /\ Folded(Seen, CountOp, x, rates, After(x, D, b))
<1> DEFINE disks == SetToSeq(D)
           rates == [i \in DOMAIN disks |-> CounterOf(Whole(disks[i]), b)]
           n == Len(disks)
           r == [k \in 0 .. n |-> After(x, FirstOf(disks, k), b)]
<1>1. /\ n \in Nat /\ DOMAIN disks = 1 .. n
      /\ \A i \in 1 .. n : disks[i] \in Disk
      /\ FirstOf(disks, 0) = {} /\ FirstOf(disks, n) = D
      /\ \A k \in 0 .. n : FirstOf(disks, k) \in SUBSET Disk
      /\ \A i \in 1 .. n : FirstOf(disks, i) = FirstOf(disks, i - 1) \cup {disks[i]}
  BY DisksListed
<1> HIDE DEF disks, n
<1>2. rates \in [1 .. n -> CounterSet]
  BY <1>1, WholeCounter
<1>3. rates \in Seq(CounterSet) /\ Len(rates) = n /\ \A i \in 1 .. n : rates[i] \in CounterSet
  <2> HIDE DEF rates
  <2> QED
    BY <1>1, <1>2
<1>4. r \in [0 .. n -> Seen]
  BY <1>1, AfterTyped
<1>5. r[0] = x /\ r[n] = After(x, D, b)
  <2>1. After(x, {}, b) = x
    BY DEF After, Wholes, Seen
  <2> QED
    BY <1>1, <2>1
<1>6. ASSUME NEW i \in 1 .. n PROVE r[i] = CountOp[<<r[i - 1], rates[i]>>]
  <2>1. i \in 0 .. n /\ i - 1 \in 0 .. n
    BY <1>1
  <2>2. r[i] = After(x, FirstOf(disks, i - 1) \cup {disks[i]}, b) /\ r[i - 1] = After(x, FirstOf(disks, i - 1), b)
    BY <1>1, <2>1
  <2>3. r[i] = Count(r[i - 1], CounterOf(Whole(disks[i]), b))
    BY <1>1, <2>1, <2>2, AfterOneMore
  <2>4. rates[i] = CounterOf(Whole(disks[i]), b) /\ rates[i] \in CounterSet /\ r[i - 1] \in Seen
    BY <1>1, <1>3, <1>4, <2>1
  <2> HIDE DEF r, rates
  <2> QED
    BY <2>3, <2>4 DEF CountOp
<1>7. Folded(Seen, CountOp, x, rates, After(x, D, b))
  <2> HIDE DEF r, rates
  <2> QED
    BY <1>3, <1>4, <1>5, <1>6 DEF Folded
<1> QED
  BY <1>3, <1>7 DEF disks

(* Two reports: what the second says is what is seen. *)
LEMMA IostatSees ==
  ASSUME NEW D \in SUBSET Disk, NEW before, NEW b
  PROVE  LET rates(now) == [i \in DOMAIN SetToSeq(D) |-> CounterOf(Whole(SetToSeq(D)[i]), now)]
         IN  iostatSample(rates(before), rates(b)) = [sampled |-> Wholes(D), active |-> Wholes(D \cap b)]
<1> DEFINE rates(now) == [i \in DOMAIN SetToSeq(D) |-> CounterOf(Whole(SetToSeq(D)[i]), now)]
           first == After(NoCounters, D, before)
           last == After(first, D, b)
<1>1. NoCounters \in Seen
  BY DEF NoCounters, Seen
<1>2. rates(before) \in Seq(CounterSet) /\ Folded(Seen, CountOp, NoCounters, rates(before), first)
  BY <1>1, RatesFold
<1>3. first \in Seen
  BY <1>1, AfterTyped
<1>4. rates(b) \in Seq(CounterSet) /\ Folded(Seen, CountOp, first, rates(b), last)
  <2> HIDE DEF first
  <2> QED
    BY <1>3, RatesFold
<1>5. last = [sampled |-> Wholes(D), active |-> Wholes(D \cap b)]
  <2>1. Wholes(D \cap before) \subseteq Wholes(D)
    BY DEF Wholes
  <2> QED
    BY <2>1 DEF After, NoCounters
<1> HIDE DEF rates, first, last
<1>6. rates(before) \o rates(b) \in Seq(CounterSet)
  BY <1>2, <1>4, ConcatProperties
<1>7. Folded(Seen, CountOp, NoCounters, rates(before) \o rates(b), last)
  BY <1>2, <1>4, FoldedConcat
<1>8. Counters(rates(before) \o rates(b)) = last
  BY <1>6, <1>7, CountersFold
<1> QED
  BY <1>5, <1>8 DEF iostatSample, rates

(* On Linux the counters of the partitions stand between those of the      *)
(* disks, and are passed over.                                             *)
PartOf(d) == [Whole(d) EXCEPT !.part = IF d \in Lettered THEN "bare1" ELSE "mark1"]

LEMMA PartCounter ==
  ASSUME NEW d \in Disk, NEW b
  PROVE  CounterOf(PartOf(d), b) \in CounterSet /\ ~wholeLinux(CounterOf(PartOf(d), b).name)
<1> DEFINE p == IF d \in Lettered THEN "bare1" ELSE "mark1"
<1>1. Whole(d) \in [disk : {d}, part : PartsOf(d), dressed : BOOLEAN]
  BY DEF Whole, PartsOf
<1>2. p \in PartsOf(d) /\ p # "none" /\ PartOf(d) = [Whole(d) EXCEPT !.part = p]
  BY DEF PartsOf, Bare, Marked, PartOf
<1> HIDE DEF p
<1>3. PartOf(d) \in [disk : {d}, part : PartsOf(d), dressed : BOOLEAN] /\ PartOf(d).part # "none"
  BY <1>1, <1>2
<1>4. PartOf(d) \in Name
  BY <1>3 DEF Name
<1>5. (PartOf(d).disk \in b) \in BOOLEAN
  OBVIOUS
<1> QED
  BY <1>3, <1>4, <1>5 DEF CounterOf, CounterSet, wholeLinux

LEMMA PairCounted ==
  ASSUME NEW x \in Seen, NEW K \in SUBSET Disk, NEW d \in Disk, NEW b, NEW through
  PROVE  LET pair == <<CounterOf(Whole(d), b), CounterOf(PartOf(d), through)>>
         IN  /\ pair \in Seq(CounterSet)
             /\ Folded(Seen, CountWholeOp, After(x, K, b), pair, After(x, K \cup {d}, b))
<1> DEFINE c == CounterOf(Whole(d), b)
           e == CounterOf(PartOf(d), through)
           y == After(x, K, b)
           z == After(x, K \cup {d}, b)
<1>1. c \in CounterSet /\ e \in CounterSet /\ wholeLinux(c.name) /\ ~wholeLinux(e.name)
  BY WholeCounter, PartCounter
<1>2. y \in Seen /\ z \in Seen
  BY AfterTyped
<1>3. Count(y, c) = z
  BY AfterOneMore
<1> HIDE DEF c, e, y, z
<1>4. CountWholeOp[<<y, c>>] = z /\ CountWholeOp[<<z, e>>] = z
  BY <1>1, <1>2, <1>3 DEF CountWholeOp, CountWhole
<1>5. Folded(Seen, CountWholeOp, y, <<c>>, z) /\ Folded(Seen, CountWholeOp, z, <<e>>, z)
  <2>1. \A v \in Seen, a \in CounterSet : Folded(Seen, CountWholeOp, v, <<a>>, CountWholeOp[<<v, a>>])
    BY CountsTyped, FoldedOne
  <2>2. Folded(Seen, CountWholeOp, y, <<c>>, CountWholeOp[<<y, c>>])
    BY <1>1, <1>2, <2>1
  <2>3. Folded(Seen, CountWholeOp, z, <<e>>, CountWholeOp[<<z, e>>])
    BY <1>1, <1>2, <2>1
  <2> QED
    BY <1>4, <2>2, <2>3
<1>6. /\ <<c>> \in Seq(CounterSet) /\ <<e>> \in Seq(CounterSet) /\ <<c, e>> \in Seq(CounterSet)
      /\ <<c>> \o <<e>> = <<c, e>>
  <2>1. <<c>> \in Seq(CounterSet) /\ <<e>> \in Seq(CounterSet) /\ <<c, e>> \in Seq(CounterSet)
    BY <1>1
  <2>2. <<c>> \o <<e>> \in Seq(CounterSet) /\ Len(<<c>> \o <<e>>) = 2
    BY <2>1, ConcatProperties
  <2>3. (<<c>> \o <<e>>)[1] = c /\ (<<c>> \o <<e>>)[2] = e
    BY <2>1, ConcatProperties
  <2> DEFINE l == <<c>> \o <<e>>
             r == <<c, e>>
  <2>4. Len(l) = Len(r) /\ \A i \in 1 .. Len(l) : l[i] = r[i]
    <3>1. Len(r) = 2 /\ r[1] = c /\ r[2] = e
      OBVIOUS
    <3> HIDE DEF l, r
    <3>2. \A i \in 1 .. 2 : i = 1 \/ i = 2
      OBVIOUS
    <3> QED
      BY <2>2, <2>3, <3>1, <3>2 DEF l
  <2>5. l \in Seq(CounterSet) /\ r \in Seq(CounterSet)
    BY <2>1, <2>2
  <2> HIDE DEF l, r
  <2>6. l = r
    BY <2>4, <2>5, SeqEqual
  <2> QED
    BY <2>1, <2>6 DEF l, r
<1>7. Folded(Seen, CountWholeOp, y, <<c>> \o <<e>>, z)
  BY <1>5, <1>6, FoldedConcat
<1> QED
  BY <1>6, <1>7 DEF c, e, y, z

LEMMA LinuxSees ==
  ASSUME NEW D \in SUBSET Disk, NEW b, NEW through
  PROVE  linuxSample(FlattenSeq([i \in DOMAIN SetToSeq(D) |->
           <<CounterOf(Whole(SetToSeq(D)[i]), b), CounterOf(PartOf(SetToSeq(D)[i]), through)>>]))
           = [sampled |-> Wholes(D), active |-> Wholes(D \cap b)]
<1> DEFINE disks == SetToSeq(D)
           ss == [i \in DOMAIN disks |->
                    <<CounterOf(Whole(disks[i]), b), CounterOf(PartOf(disks[i]), through)>>]
           n == Len(disks)
           v == [k \in 0 .. n |-> After(NoCounters, FirstOf(disks, k), b)]
<1>1. /\ n \in Nat /\ DOMAIN disks = 1 .. n
      /\ \A i \in 1 .. n : disks[i] \in Disk
      /\ FirstOf(disks, 0) = {} /\ FirstOf(disks, n) = D
      /\ \A k \in 0 .. n : FirstOf(disks, k) \in SUBSET Disk
      /\ \A i \in 1 .. n : FirstOf(disks, i) = FirstOf(disks, i - 1) \cup {disks[i]}
  BY DisksListed
<1>2. NoCounters \in Seen
  BY DEF NoCounters, Seen
<1>3. v[0] = NoCounters /\ v[n] = [sampled |-> Wholes(D), active |-> Wholes(D \cap b)]
  <2>1. After(NoCounters, {}, b) = NoCounters
    BY DEF After, Wholes, NoCounters
  <2>2. After(NoCounters, D, b) = [sampled |-> Wholes(D), active |-> Wholes(D \cap b)]
    BY DEF After, NoCounters
  <2> HIDE DEF disks, n
  <2>3. /\ v[0] = After(NoCounters, FirstOf(disks, 0), b)
        /\ v[n] = After(NoCounters, FirstOf(disks, n), b)
    BY <1>1
  <2> HIDE DEF v
  <2> QED
    BY <1>1, <2>1, <2>2, <2>3
<1> HIDE DEF disks, n
<1>4. v \in [0 .. n -> Seen]
  BY <1>1, <1>2, AfterTyped
<1>5. ASSUME NEW i \in 1 .. n
      PROVE  ss[i] \in Seq(CounterSet) /\ Folded(Seen, CountWholeOp, v[i - 1], ss[i], v[i])
  <2>1. i \in 0 .. n /\ i - 1 \in 0 .. n
    BY <1>1
  <2>2. /\ v[i] = After(NoCounters, FirstOf(disks, i - 1) \cup {disks[i]}, b)
        /\ v[i - 1] = After(NoCounters, FirstOf(disks, i - 1), b)
    BY <1>1, <2>1
  <2>3. ss[i] = <<CounterOf(Whole(disks[i]), b), CounterOf(PartOf(disks[i]), through)>>
    BY <1>1
  <2>4. FirstOf(disks, i - 1) \in SUBSET Disk /\ disks[i] \in Disk
    BY <1>1, <2>1
  <2> HIDE DEF v, ss
  <2> QED
    BY <1>2, <2>2, <2>3, <2>4, PairCounted
<1>6. ss \in Seq(Seq(CounterSet)) /\ Len(ss) = n
  <2>1. ss \in [1 .. n -> Seq(CounterSet)]
    BY <1>1, <1>5
  <2> HIDE DEF ss
  <2> QED
    BY <1>1, <2>1
<1> HIDE DEF v, ss
<1>7. FlattenSeq(ss) \in Seq(CounterSet) /\ Folded(Seen, CountWholeOp, v[0], FlattenSeq(ss), v[n])
  BY <1>4, <1>5, <1>6, FoldedFlatten
<1>8. linuxSample(FlattenSeq(ss)) = v[n]
  BY <1>3, <1>7, LinuxFold
<1> QED
  BY <1>3, <1>8 DEF ss, disks

(* What a sample leaves behind is right for the devices managed. *)
LEMMA HostDisksTyped ==
  ASSUME StartInv
  PROVE  HostDisks \in SUBSET Disk
<1>1. host.free \in SUBSET Disk /\ host.boot \in SUBSET Name
  BY DEF StartInv, Stored, Hosts
<1>2. \A q \in Pool, c \in Range(Classes) : host.pools[q][c] \in SUBSET Name
  BY HostTyped
<1>3. \A m \in Name : m.disk \in Disk
  <2> SUFFICES ASSUME NEW m \in Name PROVE m.disk \in Disk
    OBVIOUS
  <2>1. PICK d \in Disk : m \in [disk : {d}, part : PartsOf(d), dressed : BOOLEAN]
    BY DEF Name
  <2> QED
    BY <2>1
<1>4. UNION {host.pools[q][c] : q \in Pool, c \in Range(Classes)} \in SUBSET Name
  BY <1>2
<1> QED
  BY <1>1, <1>3, <1>4 DEF HostDisks

LEMMA CountedIsSeen ==
  ASSUME StartInv, NEW busy \in SUBSET HostDisks, NEW seen, Counted(seen, busy),
         seen = [sampled |-> Wholes(HostDisks), active |-> Wholes(HostDisks \cap busy)]
  PROVE  BusyDiskIsSeen'
<1>1. /\ report' = [busy |-> busy, sampled |-> Wholes(HostDisks), active |-> managed \cap Wholes(busy)]
      /\ cfg' = cfg /\ host' = host /\ managed' = managed /\ status = "managing"
  <2>1. HostDisks \cap busy = busy
    OBVIOUS
  <2> QED
    BY <2>1 DEF Counted, config, devices
<1>2. AllNames' = AllNames /\ HostDisks' = HostDisks
  BY <1>1, ProtectionKept DEF HostDisks
<1> SUFFICES ASSUME AllNames \subseteq Regular
             PROVE  /\ {d \in managed : d.disk \in HostDisks} \subseteq Wholes(HostDisks)
                    /\ managed \cap Wholes(busy) = {d \in managed : d.disk \in busy}
  BY <1>1, <1>2 DEF BusyDiskIsSeen
<1>3. \A d \in managed : d = Whole(d.disk)
  BY <1>1, NamesKeepTheirDisk DEF StartInv, Resolved
<1>4. \A K : \A d \in managed : d \in Wholes(K) <=> d.disk \in K
  BY <1>3, WholeIsItsDisk DEF Wholes
<1> QED
  BY <1>4

(* sysio_linux.go:58-79, iostat_parse.go: whatever I/O the disks of the    *)
(* host had, through partitions or not, and whatever iostat says of the    *)
(* time before, the sampler has a counter for each managed name of a disk  *)
(* that is there, and reports those with I/O and no other.                 *)
THEOREM SamplesAreRight == StartSpec => []BusyDiskIsSeen
<1>1. StartInit => BusyDiskIsSeen
  BY DEF StartInit, BusyDiskIsSeen
<1>2. StartInv /\ BusyDiskIsSeen /\ [StartNext]_startVars => BusyDiskIsSeen'
  <2> SUFFICES ASSUME StartInv, BusyDiskIsSeen, [StartNext]_startVars PROVE BusyDiskIsSeen'
    OBVIOUS
  <2>1. ASSUME report' = NoReport PROVE BusyDiskIsSeen'
    <3>1. NoReport' = NoReport
      BY DEF NoReport
    <3> QED
      BY <2>1, <3>1 DEF BusyDiskIsSeen
  <2>2. ASSUME NEW on \in BOOLEAN, Edit(on) PROVE BusyDiskIsSeen'
    BY <2>1, <2>2 DEF Edit, NoEffect
  <2>3. CASE Load \/ Validate \/ Resolve \/ Exit \/ Tick
    BY <2>1, <2>3 DEF Load, Validate, Resolve, Exit, Tick, NoEffect
  <2>4. ASSUME NEW busy \in SUBSET HostDisks, NEW through, LinuxSample(busy, through)
        PROVE  BusyDiskIsSeen'
    <3>1. PICK seen : /\ Counted(seen, busy)
                      /\ seen = [sampled |-> Wholes(HostDisks), active |-> Wholes(HostDisks \cap busy)]
      BY <2>4, HostDisksTyped, LinuxSees DEF LinuxSample, PartOf
    <3> QED
      BY <3>1, CountedIsSeen
  <2>5. ASSUME NEW busy \in SUBSET HostDisks, NEW before, IostatSample(before, busy)
        PROVE  BusyDiskIsSeen'
    <3>1. PICK seen : /\ Counted(seen, busy)
                      /\ seen = [sampled |-> Wholes(HostDisks), active |-> Wholes(HostDisks \cap busy)]
      <4> DEFINE rates(now) == [i \in DOMAIN SetToSeq(HostDisks) |->
                                  CounterOf(Whole(SetToSeq(HostDisks)[i]), now)]
                 seen == iostatSample(rates(before), rates(busy))
      <4>1. Counted(seen, busy)
        BY <2>5 DEF IostatSample
      <4>2. seen = [sampled |-> Wholes(HostDisks), active |-> Wholes(HostDisks \cap busy)]
        BY HostDisksTyped, IostatSees
      <4> QED
        BY <4>1, <4>2
    <3> QED
      BY <3>1, CountedIsSeen
  <2>6. ASSUME NEW names, Command(names) PROVE BusyDiskIsSeen'
    BY <2>1, <2>6 DEF Command
  <2>7. CASE UNCHANGED startVars
    <3>1. report' = report /\ managed' = managed /\ host' = host /\ cfg' = cfg
      BY <2>7 DEF startVars
    <3>2. AllNames' = AllNames /\ HostDisks' = HostDisks /\ NoReport' = NoReport
      BY <3>1, ProtectionKept DEF HostDisks, NoReport
    <3> QED
      BY <3>1, <3>2 DEF BusyDiskIsSeen
  <2> QED
    BY <2>2, <2>3, <2>4, <2>5, <2>6, <2>7 DEF StartNext, DaemonSleep, SleepNow, SleepPool
<1> QED
  BY <1>1, <1>2, StartInvAlways, PTL DEF StartSpec
=============================================================================
