--------------------------- MODULE DiagnosticsProofs ---------------------------
(***************************************************************************)
(* Proofs about the diagnostics: the engine and the page.                  *)
(*                                                                         *)
(* DiagnosticsRun, for any machines whose sources answer with values of    *)
(* their types, however many batteries, disks, devices, sensors and mounts *)
(* they have: its types, when it prompts, what its report says.            *)
(* DiagnosticsPage, for any set of reports, a file system that may fail at *)
(* any call and a program killed at any moment: what is exported.          *)
(***************************************************************************)
EXTENDS DiagnosticsRun, DiagnosticsPage, FiniteSetTheorems, WellFoundedInduction, TLAPS

-----------------------------------------------------------------------------
(* Loops.  FoldLeft recurs on the set of positions of its list; each loop   *)
(* below is shown to be a sequence of turns, h[0], h[1], ..., and what it   *)
(* computes by induction on them.                                          *)

\* Induction over the turns of a loop: a set of numbers that holds 0 and, with a
\* number, the next one, holds them all.
LEMMA NatInductionSet ==
  ASSUME NEW P, 0 \in P, \A n \in Nat : n \in P => n + 1 \in P
  PROVE  Nat \subseteq P
  <1> SUFFICES ASSUME Nat \ P # {} PROVE FALSE
    OBVIOUS
  <1> DEFINE T == Nat \ P
  <1>1. PICK n \in T : \A y \in T : ~(<<y, n>> \in OpToRel(<, Nat))
    <2>1. T \subseteq Nat /\ T # {}
      OBVIOUS
    <2> HIDE DEF T
    <2>2. QED
      BY <2>1, NatLessThanWellFounded, WFMin
  <1>2. n \in Nat \ {0}
    OBVIOUS
  <1>3. n - 1 \in Nat /\ (n - 1) + 1 = n
    BY <1>2
  <1>4. n - 1 \in T
    BY <1>3
  <1>5. <<n - 1, n>> \in OpToRel(<, Nat)
    BY <1>2, <1>3 DEF OpToRel
  <1>6. QED
    BY <1>1, <1>4, <1>5

\* A loop of n turns: what holds before the first one and is kept by each holds
\* after the last.
LEMMA LoopInduction ==
  ASSUME NEW n \in Nat, NEW P, 0 \in P, \A k \in 1 .. n : k - 1 \in P => k \in P
  PROVE  n \in P
  <1> DEFINE Q == {k \in Nat : k <= n => k \in P}
  <1>1. 0 \in Q
    OBVIOUS
  <1>2. ASSUME NEW k \in Nat, k \in Q PROVE k + 1 \in Q
    <2>1. SUFFICES ASSUME k + 1 <= n PROVE k + 1 \in P
      OBVIOUS
    <2>2. k + 1 \in 1 .. n /\ (k + 1) - 1 = k /\ k <= n
      BY <2>1
    <2>3. k \in P
      BY <1>2, <2>2
    <2>4. QED
      BY <2>2, <2>3
  <1>3. n \in Q
    <2> HIDE DEF Q
    <2>1. QED
      BY <1>1, <1>2, NatInductionSet
  <1>4. QED
    BY <1>3

\* The positions of a list, taken from the last one down.
LEMMA MaxIsLast ==
  ASSUME NEW m \in Nat, NEW s \in SUBSET (1 .. m + 1), m + 1 \in s
  PROVE  Max(s) = m + 1
  <1>1. \A x \in s : m + 1 >= x
    OBVIOUS
  <1>2. \A x \in s : (\A y \in s : x >= y) => x = m + 1
    OBVIOUS
  <1>3. QED
    BY <1>1, <1>2 DEF Max

\* The function a fold recurs on, over the sets of positions of a list.
FoldsOn(f, n, base, step) ==
  \A s \in SUBSET (1 .. n) : s # {} =>
    Max(s) \in s /\ f[s] = step[<<f[s \ {Max(s)}], Max(s)>>]

\* It exists, whatever a turn of the loop does.
LEMMA FoldExists ==
  ASSUME NEW n \in Nat, NEW B, NEW base \in B, NEW step \in [B \X (1 .. n) -> B]
  PROVE  \E f \in [SUBSET (1 .. n) -> B] : f[{}] = base /\ FoldsOn(f, n, base, step)
  <1> DEFINE Upto(m, f) == f \in [SUBSET (1 .. m) -> B] /\ f[{}] = base /\ FoldsOn(f, m, base, step)
             Q(m) == m <= n => \E f : Upto(m, f)
             P == {m \in Nat : Q(m)}
  <1>1. Q(0)
    <2> DEFINE f == [s \in SUBSET (1 .. 0) |-> base]
    <2>1. 1 .. 0 = {} /\ {} \in SUBSET (1 .. 0)
      OBVIOUS
    <2>2. f \in [SUBSET (1 .. 0) -> B] /\ f[{}] = base
      BY <2>1
    <2>3. FoldsOn(f, 0, base, step)
      BY <2>1 DEF FoldsOn
    <2> HIDE DEF f
    <2>4. QED
      BY <2>2, <2>3
  <1>2. ASSUME NEW m \in Nat, Q(m) PROVE Q(m + 1)
    <2>1. SUFFICES ASSUME m + 1 <= n PROVE \E f : Upto(m + 1, f)
      OBVIOUS
    <2>a. m <= n
      BY <2>1
    <2>2. PICK g : Upto(m, g)
      BY <1>2, <2>a
    <2> DEFINE f == [s \in SUBSET (1 .. m + 1) |->
                       IF m + 1 \in s THEN step[<<g[s \ {m + 1}], m + 1>>] ELSE g[s]]
    <2>3. ASSUME NEW s \in SUBSET (1 .. m + 1)
          PROVE  s \ {m + 1} \in SUBSET (1 .. m) /\ (m + 1 \notin s => s \in SUBSET (1 .. m))
      OBVIOUS
    <2>4. m + 1 \in 1 .. n
      BY <2>1
    <2>5. f \in [SUBSET (1 .. m + 1) -> B]
      <3>1. ASSUME NEW s \in SUBSET (1 .. m + 1)
            PROVE  (IF m + 1 \in s THEN step[<<g[s \ {m + 1}], m + 1>>] ELSE g[s]) \in B
        BY <2>2, <2>3, <2>4
      <3>2. QED
        BY <3>1
    <2>6. f[{}] = base
      BY <2>2
    <2>7. ASSUME NEW s \in SUBSET (1 .. m + 1), s # {}
          PROVE  Max(s) \in s /\ f[s] = step[<<f[s \ {Max(s)}], Max(s)>>]
      <3>1. CASE m + 1 \in s
        <4>1. Max(s) = m + 1
          BY <3>1, MaxIsLast
        <4>2. s \ {m + 1} \in SUBSET (1 .. m + 1) /\ m + 1 \notin s \ {m + 1}
          OBVIOUS
        <4>3. f[s \ {m + 1}] = g[s \ {m + 1}]
          BY <4>2
        <4>4. QED
          BY <3>1, <4>1, <4>3
      <3>2. CASE m + 1 \notin s
        <4>1. s \in SUBSET (1 .. m)
          BY <3>2, <2>3
        <4>2. Max(s) \in s /\ g[s] = step[<<g[s \ {Max(s)}], Max(s)>>]
          BY <4>1, <2>2, <2>7 DEF FoldsOn
        <4>3. s \ {Max(s)} \in SUBSET (1 .. m + 1) /\ m + 1 \notin s \ {Max(s)}
          BY <3>2
        <4>4. f[s \ {Max(s)}] = g[s \ {Max(s)}] /\ f[s] = g[s]
          BY <4>3, <3>2
        <4>5. QED
          BY <4>2, <4>4
      <3>3. QED
        BY <3>1, <3>2
    <2>8. FoldsOn(f, m + 1, base, step)
      <3> HIDE DEF f
      <3>1. QED
        BY <2>7 DEF FoldsOn
    <2> HIDE DEF f
    <2>9. QED
      BY <2>5, <2>6, <2>8
  <1>3. n \in P
    <2> HIDE DEF Q
    <2>1. 0 \in P /\ \A m \in Nat : m \in P => m + 1 \in P
      BY <1>1, <1>2
    <2> HIDE DEF P
    <2>2. QED
      BY <2>1, NatInductionSet
  <1>4. Q(n)
    <2> HIDE DEF Q
    <2>1. QED
      BY <1>3
  <1>5. PICK f : Upto(n, f)
    <2> HIDE DEF Upto
    <2>1. QED
      BY <1>4
  <1>6. QED
    BY <1>5

\* The positions up to the k-th, of which that one is taken first.
LEMMA Positions ==
  ASSUME NEW n \in Nat, NEW k \in 1 .. n
  PROVE  /\ 1 .. k \in SUBSET (1 .. n) /\ 1 .. k # {}
         /\ Max(1 .. k) = k /\ (1 .. k) \ {k} = 1 .. k - 1
  <1>1. 1 .. k \in SUBSET (1 .. n) /\ k \in 1 .. k /\ (1 .. k) \ {k} = 1 .. k - 1
    OBVIOUS
  <1>2. k - 1 \in Nat /\ (k - 1) + 1 = k
    OBVIOUS
  <1>3. Max(1 .. k) = k
    BY <1>1, <1>2, MaxIsLast
  <1>4. QED
    BY <1>1, <1>3

-----------------------------------------------------------------------------
(* Types.                                                                  *)

Battery == [full : Optional, design : Optional]
Drive == [disk : Nat, verdict : Verdict, pending : Optional, used : Optional]
Name == STRING \cup {Pseudo, "none"}
MountLine == [source : Name, mount : Name, free : Optional, total : Nat]

\* The result of a check that measured something.
Measure == {"ok", "warning", "critical"}
Judgement(evidence) ==
    [status : Measure, confidence : Confidence, skip : {"none"}, metrics : Seq(evidence)]

\* A row of the table in docs/health-score-calibration.md.
Grade(measured, critical, warning) ==
    IF ~measured THEN "skipped"
    ELSE IF critical THEN "critical" ELSE IF warning THEN "warning" ELSE "ok"

-----------------------------------------------------------------------------
(* check_battery_wear.  Wear is a fraction, so the loop's comparison and    *)
(* the limits are inequalities between products.                           *)

\* A common factor is cancelled, an inequality is scaled by one.
LEMMA CancelFactor ==
  ASSUME NEW c \in Nat \ {0}, NEW x \in Int, NEW y \in Int, c * x <= c * y
  PROVE  x <= y
  <1> SUFFICES ASSUME y + 1 <= x PROVE FALSE
    OBVIOUS
  <1>1. \E d \in Nat : x = y + 1 + d
    <2>1. x - (y + 1) \in Nat /\ x = y + 1 + (x - (y + 1))
      OBVIOUS
    <2>2. QED
      BY <2>1
  <1>2. PICK d \in Nat : x = y + 1 + d
    BY <1>1
  <1>3. c * x = c * y + c + c * d
    BY <1>2
  <1>4. c * d \in Nat /\ c * y \in Int
    OBVIOUS
  <1>5. QED
    BY <1>3, <1>4

LEMMA Scale ==
  ASSUME NEW c \in Nat, NEW x \in Int, NEW y \in Int, x <= y
  PROVE  c * x <= c * y
  <1>1. PICK d \in Nat : y = x + d
    <2>1. y - x \in Nat /\ y = x + (y - x)
      OBVIOUS
    <2>2. QED
      BY <2>1
  <1>2. c * y = c * x + c * d /\ c * d \in Nat /\ c * x \in Int
    BY <1>1
  <1>3. QED
    BY <1>2

\* A wear that is known is a fraction of two numbers.
LEMMA KnownType ==
  ASSUME NEW b \in Battery, WearKnown(b)
  PROVE  b.full \in Nat /\ b.design \in Nat \ {0} /\ Lost(b) \in Nat
  BY DEF Battery, Optional, WearKnown, Unknown, Lost

\* No battery that wears less replaces the worst so far.
LEMMA WearsMoreTransitive ==
  ASSUME NEW a \in Battery, NEW b \in Battery, NEW c \in Battery,
         WearKnown(a), WearKnown(b), WearKnown(c), ~WearsMore(a, b), WearsMore(c, b)
  PROVE  ~WearsMore(a, c)
  <1> DEFINE la == Lost(a)  lb == Lost(b)  lc == Lost(c)
             da == a.design  db == b.design  dc == c.design
  <1>1. /\ la \in Nat /\ lb \in Nat /\ lc \in Nat
        /\ da \in Nat \ {0} /\ db \in Nat \ {0} /\ dc \in Nat \ {0}
    BY KnownType
  <1>2. ~(la * db > lb * da) /\ lc * db > lb * dc
    BY DEF WearsMore
  <1> SUFFICES ~(la * dc > lc * da)
    BY DEF WearsMore
  <1> HIDE DEF la, lb, lc, da, db, dc
  <1>3. la * db \in Int /\ lb * da \in Int /\ lc * db \in Int /\ lb * dc \in Int /\ la * dc \in Int /\ lc * da \in Int
    BY <1>1
  <1>4. la * db <= lb * da /\ lb * dc <= lc * db
    BY <1>2, <1>3
  <1>5. dc * (la * db) <= dc * (lb * da)
    BY <1>1, <1>3, <1>4, Scale
  <1>6. da * (lb * dc) <= da * (lc * db)
    BY <1>1, <1>3, <1>4, Scale
  <1>7. dc * (lb * da) = da * (lb * dc)
    BY <1>1
  <1>8. dc * (la * db) = db * (la * dc) /\ da * (lc * db) = db * (lc * da)
    BY <1>1
  <1>9. db * (la * dc) <= db * (lc * da)
    <2>1. dc * (la * db) \in Int /\ dc * (lb * da) \in Int /\ da * (lc * db) \in Int
      BY <1>1, <1>3
    <2>2. QED
      BY <1>5, <1>6, <1>7, <1>8, <2>1
  <1>10. la * dc <= lc * da
    BY <1>1, <1>3, <1>9, CancelFactor
  <1>11. QED
    BY <1>3, <1>10

\* A limit that some battery has reached, the worst one has.
LEMMA WorstReaches ==
  ASSUME NEW a \in Battery, NEW b \in Battery, WearKnown(a), WearKnown(b), ~WearsMore(a, b),
         NEW p \in Nat, WearAtLeast(a, p)
  PROVE  WearAtLeast(b, p)
  <1> DEFINE la == Lost(a)  lb == Lost(b)  da == a.design  db == b.design
  <1>1. la \in Nat /\ lb \in Nat /\ da \in Nat \ {0} /\ db \in Nat \ {0}
    BY KnownType
  <1>2. ~(la * db > lb * da) /\ la * 100 >= p * da
    BY DEF WearsMore, WearAtLeast
  <1> SUFFICES lb * 100 >= p * db
    BY DEF WearAtLeast
  <1> HIDE DEF la, lb, da, db
  <1>3. la * db \in Int /\ lb * da \in Int /\ la * 100 \in Int /\ p * da \in Int /\ lb * 100 \in Int /\ p * db \in Int
    BY <1>1
  <1>4. p * da <= la * 100 /\ la * db <= lb * da
    BY <1>2, <1>3
  <1>5. db * (p * da) <= db * (la * 100)
    BY <1>1, <1>3, <1>4, Scale
  <1>6. 100 * (la * db) <= 100 * (lb * da)
    BY <1>3, <1>4, Scale
  <1>7. /\ db * (la * 100) = 100 * (la * db) /\ db * (p * da) = da * (p * db)
        /\ 100 * (lb * da) = da * (lb * 100)
    BY <1>1
  <1>8. da * (p * db) <= da * (lb * 100)
    <2>1. da * (p * db) \in Int /\ 100 * (la * db) \in Int /\ da * (lb * 100) \in Int
      BY <1>1, <1>3
    <2>2. QED
      BY <1>5, <1>6, <1>7, <2>1
  <1>9. p * db <= lb * 100
    BY <1>1, <1>3, <1>8, CancelFactor
  <1>10. QED
    BY <1>3, <1>9

\* The two limits, multiplied out.
LEMMA Limits ==
  ASSUME NEW b \in Battery, WearKnown(b)
  PROVE  /\ WearAtLeast(b, FairMaxWear) <=> b.full * 10 <= 7 * b.design
         /\ WearAtLeast(b, GoodMaxWear) <=> b.full * 20 <= 17 * b.design
  <1>1. b.full \in Nat /\ b.design \in Nat \ {0}
    BY KnownType
  <1>2. CASE b.full > b.design
    BY <1>1, <1>2 DEF WearAtLeast, Lost, FairMaxWear, GoodMaxWear
  <1>3. CASE ~(b.full > b.design)
    BY <1>1, <1>3 DEF WearAtLeast, Lost, FairMaxWear, GoodMaxWear
  <1>4. QED
    BY <1>2, <1>3

\* One turn keeps a battery.
LEMMA WearTurn == ASSUME NEW b \in Battery, NEW e \in Battery PROVE WithWear(b, e) \in Battery
  BY DEF WithWear

\* The loop over the batteries.
AllWears(base, seq) == FoldLeft(WithWear, base, seq)

\* The loop is a sequence of such turns.
LEMMA WearFold ==
  ASSUME NEW base \in Battery, NEW seq \in Seq(Battery)
  PROVE  \E h : /\ DOMAIN h = 0 .. Len(seq) /\ h[0] = base /\ h[Len(seq)] = AllWears(base, seq)
               /\ \A k \in 1 .. Len(seq) : h[k] = WithWear(h[k - 1], seq[k])
  <1> DEFINE n == Len(seq)
             step == [x \in Battery \X (1 .. n) |-> WithWear(x[1], seq[x[2]])]
             Turns(f) == f = [s \in SUBSET (1 .. n) |->
                            IF s = {} THEN base ELSE WithWear(f[s \ {Max(s)}], seq[Max(s)])]
             iter == CHOOSE f : Turns(f)
             h == [k \in 0 .. n |-> iter[1 .. k]]
  <1>1. n \in Nat /\ DOMAIN seq = 1 .. n /\ \A k \in 1 .. n : seq[k] \in Battery
    OBVIOUS
  <1>2. h[n] = AllWears(base, seq)
    BY <1>1 DEF AllWears, FoldLeft, MapThenFoldSet
  <1> HIDE DEF n
  <1>3. step \in [Battery \X (1 .. n) -> Battery]
    BY <1>1, WearTurn
  <1>4. \A b \in Battery, k \in 1 .. n : step[<<b, k>>] = WithWear(b, seq[k])
    OBVIOUS
  <1> HIDE DEF step
  <1>5. PICK f \in [SUBSET (1 .. n) -> Battery] : f[{}] = base /\ FoldsOn(f, n, base, step)
    BY <1>1, <1>3, FoldExists
  <1>6. Turns(f)
    <2>1. ASSUME NEW s \in SUBSET (1 .. n), s # {}
          PROVE  f[s] = WithWear(f[s \ {Max(s)}], seq[Max(s)])
      <3>1. Max(s) \in s /\ f[s] = step[<<f[s \ {Max(s)}], Max(s)>>]
        BY <2>1, <1>5 DEF FoldsOn
      <3>2. Max(s) \in 1 .. n /\ f[s \ {Max(s)}] \in Battery
        BY <3>1
      <3>3. QED
        BY <1>4, <3>1, <3>2
    <2>2. QED
      BY <1>5, <2>1
  <1>7. Turns(iter)
    BY <1>6
  <1> HIDE DEF iter
  <1>8. h[0] = base
    <2>1. 1 .. 0 = {} /\ {} \in SUBSET (1 .. n) /\ 0 \in 0 .. n
      BY <1>1
    <2>2. QED
      BY <1>7, <2>1
  <1>9. ASSUME NEW k \in 1 .. n PROVE h[k] = WithWear(h[k - 1], seq[k])
    <2>1. 1 .. k \in SUBSET (1 .. n) /\ 1 .. k # {} /\ Max(1 .. k) = k /\ (1 .. k) \ {k} = 1 .. k - 1
      BY <1>1, Positions
    <2>2. iter[1 .. k] = WithWear(iter[1 .. k - 1], seq[k])
      BY <1>7, <2>1
    <2>3. k \in 0 .. n /\ k - 1 \in 0 .. n
      BY <1>1
    <2>4. QED
      BY <2>2, <2>3
  <1>10. DOMAIN h = 0 .. n
    OBVIOUS
  <1> HIDE DEF h
  <1>11. QED
    BY <1>2, <1>8, <1>9, <1>10 DEF n

\* What the loop finds: a battery whose wear is known and that no other
\* exceeds, if there is one.
LEMMA WearLoop ==
  ASSUME NEW seq \in Seq(Battery)
  PROVE  LET worst == AllWears(NoBattery, seq)
         IN /\ worst \in Battery
            /\ WearKnown(worst) => \E k \in 1 .. Len(seq) : worst = seq[k]
            /\ \A k \in 1 .. Len(seq) : WearKnown(seq[k]) => WearKnown(worst) /\ ~WearsMore(seq[k], worst)
  <1> DEFINE n == Len(seq)
             base == NoBattery
             worst == AllWears(base, seq)
             So(b, m) ==
               /\ b \in Battery
               /\ WearKnown(b) => \E k \in 1 .. m : b = seq[k]
               /\ \A k \in 1 .. m : WearKnown(seq[k]) => WearKnown(b) /\ ~WearsMore(seq[k], b)
  <1>1. n \in Nat /\ \A k \in 1 .. n : seq[k] \in Battery
    OBVIOUS
  <1>2. base \in Battery /\ ~WearKnown(base)
    BY DEF NoBattery, Battery, Optional, WearKnown, Unknown
  <1>3. PICK h : /\ h[0] = base /\ h[n] = worst
                 /\ \A k \in 1 .. n : h[k] = WithWear(h[k - 1], seq[k])
    <2>1. \E h : /\ DOMAIN h = 0 .. Len(seq) /\ h[0] = base /\ h[Len(seq)] = AllWears(base, seq)
                 /\ \A k \in 1 .. Len(seq) : h[k] = WithWear(h[k - 1], seq[k])
      <3> HIDE DEF n, worst, base
      <3>1. QED
        BY <1>2, WearFold, Zenon
    <2>2. QED
      BY <2>1
  <1> HIDE DEF n, base
  <1> HIDE DEF So
  <1> DEFINE P == {m \in Nat : So(h[m], m)}
  <1>4. 0 \in P
    BY <1>2, <1>3 DEF So
  <1>5. ASSUME NEW m \in 1 .. n, m - 1 \in P PROVE m \in P
    <2> DEFINE b == h[m - 1]
               e == seq[m]
               x == h[m]
    <2>1. So(b, m - 1) /\ m \in Nat
      BY <1>1, <1>5
    <2>2. x = WithWear(b, e) /\ e \in Battery /\ b \in Battery
      BY <1>1, <1>3, <2>1 DEF So
    <2>3. \A k \in 1 .. m : k \in 1 .. m - 1 \/ k = m
      BY <2>1
    <2>4. m \in 1 .. m /\ \A k \in 1 .. m - 1 : k \in 1 .. m /\ seq[k] \in Battery
      BY <1>1, <2>1
    <2> HIDE DEF b, x
    <2>5. CASE WearKnown(e) /\ (WearKnown(b) => WearsMore(e, b))
      <3>1. x = e
        BY <2>2, <2>5 DEF WithWear
      <3>2. ~WearsMore(e, e)
        BY <2>2, <2>5, KnownType DEF WearsMore
      <3>3. ASSUME NEW k \in 1 .. m - 1, WearKnown(seq[k]) PROVE ~WearsMore(seq[k], e)
        <4>1. WearKnown(b) /\ ~WearsMore(seq[k], b) /\ seq[k] \in Battery
          BY <2>1, <2>4, <3>3 DEF So
        <4>2. QED
          BY <2>2, <2>5, <3>3, <4>1, WearsMoreTransitive
      <3>4. \A k \in 1 .. m : WearKnown(seq[k]) => WearKnown(x) /\ ~WearsMore(seq[k], x)
        BY <2>3, <2>5, <3>1, <3>2, <3>3
      <3>5. \E k \in 1 .. m : x = seq[k]
        BY <2>4, <3>1
      <3>6. So(x, m)
        BY <2>2, <3>1, <3>4, <3>5 DEF So
      <3>7. QED
        BY <2>1, <3>6 DEF x
    <2>6. CASE ~(WearKnown(e) /\ (WearKnown(b) => WearsMore(e, b)))
      <3>1. x = b
        BY <2>2, <2>6 DEF WithWear
      <3>2. WearKnown(b) => \E k \in 1 .. m : b = seq[k]
        BY <2>1, <2>4 DEF So
      <3>3. \A k \in 1 .. m : WearKnown(seq[k]) => WearKnown(b) /\ ~WearsMore(seq[k], b)
        BY <2>1, <2>3, <2>6 DEF So
      <3>4. So(x, m)
        BY <2>2, <3>1, <3>2, <3>3 DEF So
      <3>5. QED
        BY <2>1, <3>4 DEF x
    <2>7. QED
      BY <2>5, <2>6
  <1>6. n \in P
    <2> HIDE DEF P
    <2>1. QED
      BY <1>1, <1>4, <1>5, LoopInduction
  <1>7. So(worst, n)
    BY <1>3, <1>6
  <1>8. QED
    BY <1>7 DEF n, base, So

\* check_battery_wear gives the verdict of the table.
LEMMA BatteryVerdict ==
  ASSUME NEW list \in Seq(Battery), NEW answer, answer.list = list, answer.ok \in BOOLEAN,
         ~answer.ok => list = <<>>
  PROVE  LET known == {b \in ToSet(list) : WearKnown(b)}
         IN CheckBatteryWear(answer).status =
              Grade(known # {}, \E b \in known : b.full * 10 <= 7 * b.design,
                                \E b \in known : b.full * 20 <= 17 * b.design)
  <1> DEFINE known == {b \in ToSet(list) : WearKnown(b)}
             worst == AllWears(NoBattery, list)
             Crit(b) == b.full * 10 <= 7 * b.design
             Warn(b) == b.full * 20 <= 17 * b.design
  <1>1. ToSet(list) = {list[k] : k \in 1 .. Len(list)} /\ ToSet(list) \subseteq Battery
    BY DEF ToSet
  <1>2. /\ worst \in Battery
        /\ WearKnown(worst) => \E k \in 1 .. Len(list) : worst = list[k]
        /\ \A k \in 1 .. Len(list) : WearKnown(list[k]) => WearKnown(worst) /\ ~WearsMore(list[k], worst)
    BY WearLoop
  <1>a. CheckBatteryWear(answer) =
          CASE ~answer.ok -> Skipped("unavailable")
            [] answer.ok /\ ~WearKnown(worst) -> Skipped("no-data")
            [] OTHER -> Result(WearStatus(worst), "high", <<<<"wear", worst>>>>)
    BY DEF CheckBatteryWear, AllWears
  <1> HIDE DEF worst
  <1>3. WearKnown(worst) => worst \in known
    BY <1>1, <1>2
  <1>4. \A b \in known : b \in Battery /\ WearKnown(b) /\ WearKnown(worst) /\ ~WearsMore(b, worst)
    BY <1>1, <1>2
  <1> HIDE DEF known
  <1>5. CASE known = {}
    <2>1. ~WearKnown(worst)
      BY <1>3, <1>5
    <2>2. CheckBatteryWear(answer) \in {Skipped("unavailable"), Skipped("no-data")}
      BY <1>a, <2>1
    <2>3. CheckBatteryWear(answer).status = "skipped"
      BY <2>2 DEF Skipped
    <2>4. QED
      BY <1>5, <2>3 DEF Grade, known
  <1>6. CASE known # {}
    <2>1. WearKnown(worst) /\ worst \in known
      BY <1>3, <1>4, <1>6
    <2>2. answer.ok
      BY <1>1, <1>6 DEF known
    <2>3. CheckBatteryWear(answer).status = WearStatus(worst)
      BY <1>a, <2>1, <2>2 DEF Result
    <2>4. ASSUME NEW b \in known
          PROVE  /\ WearAtLeast(b, FairMaxWear) => WearAtLeast(worst, FairMaxWear)
                 /\ WearAtLeast(b, GoodMaxWear) => WearAtLeast(worst, GoodMaxWear)
                 /\ WearAtLeast(b, FairMaxWear) <=> Crit(b)
                 /\ WearAtLeast(b, GoodMaxWear) <=> Warn(b)
      <3>1. FairMaxWear \in Nat /\ GoodMaxWear \in Nat
        BY DEF FairMaxWear, GoodMaxWear
      <3>2. QED
        BY <1>2, <1>4, <3>1, WorstReaches, Limits
    <2>5. WearAtLeast(worst, FairMaxWear) <=> \E b \in known : Crit(b)
      BY <2>1, <2>4
    <2>6. WearAtLeast(worst, GoodMaxWear) <=> \E b \in known : Warn(b)
      BY <2>1, <2>4
    <2> HIDE DEF Crit, Warn
    <2>7. WearStatus(worst) = Grade(known # {}, \E b \in known : Crit(b), \E b \in known : Warn(b))
      BY <1>6, <2>5, <2>6 DEF WearStatus, Grade
    <2>8. QED
      BY <2>3, <2>7 DEF Crit, Warn, known
  <1>7. QED
    BY <1>5, <1>6

-----------------------------------------------------------------------------
(* check_storage_health.                                                   *)

DriveEvidence == {"failing_device", "pending_sectors", "endurance_used_pct"} \X Int

Failing(r) == r.verdict = "failing"
Worn(r) == r.pending > 0 \/ r.used >= EnduranceWarn

\* The evidence of a failing drive goes to the end.
LEMMA EvidenceAdded ==
  ASSUME NEW E, NEW b \in Judgement(E), NEW status \in Measure, NEW key, NEW value, <<key, value>> \in E
  PROVE  /\ WithEvidence(b, status, key, value) \in Judgement(E)
         /\ WithEvidence(b, status, key, value).status = status
         /\ WithEvidence(b, status, key, value).metrics = Append(b.metrics, <<key, value>>)
  <1>1. b.metrics \in Seq(E)
    BY DEF Judgement
  <1> DEFINE m == Append(b.metrics, <<key, value>>)
             x == [b EXCEPT !.status = status, !.metrics = m]
  <1>2. m \in Seq(E)
    BY <1>1
  <1>3. WithEvidence(b, status, key, value) = x
    BY Zenon DEF WithEvidence
  <1> HIDE DEF m
  <1>4. x \in Judgement(E) /\ x.status = status /\ x.metrics = m
    BY <1>2 DEF Judgement
  <1>5. QED
    BY <1>3, <1>4 DEF m

LEMMA DriveEvidenceAdded ==
  ASSUME NEW b \in Judgement(DriveEvidence), NEW status \in Measure, NEW key, NEW value,
         <<key, value>> \in DriveEvidence
  PROVE  /\ WithEvidence(b, status, key, value) \in Judgement(DriveEvidence)
         /\ WithEvidence(b, status, key, value).status = status
         /\ WithEvidence(b, status, key, value).metrics = Append(b.metrics, <<key, value>>)
  BY EvidenceAdded

\* One turn: the verdict so far, this drive's, and the evidence.
LEMMA ReportTurn ==
  ASSUME NEW b \in Judgement(DriveEvidence), NEW r \in Drive
  PROVE  /\ WithReport(b, r) \in Judgement(DriveEvidence)
         /\ WithReport(b, r).status =
              IF Failing(r) \/ b.status = "critical" THEN "critical"
              ELSE IF Worn(r) THEN "warning" ELSE b.status
         /\ \A i \in DOMAIN b.metrics :
              i \in DOMAIN WithReport(b, r).metrics /\ WithReport(b, r).metrics[i] = b.metrics[i]
         /\ Failing(r) => \E i \in DOMAIN WithReport(b, r).metrics :
                            WithReport(b, r).metrics[i] = <<"failing_device", r.disk>>
  <1> DEFINE v == WithVerdict(b, r)
             w == WithWarning(v, r.pending > 0, "pending_sectors", r.pending)
  <1>a. r.disk \in Int /\ r.pending \in Int /\ r.used \in Int
    BY DEF Drive, Optional, Unknown
  <1>b. b.metrics \in Seq(DriveEvidence) /\ b.status \in Measure
    BY DEF Judgement
  <1>c. <<"failing_device", r.disk>> \in DriveEvidence /\ <<"pending_sectors", r.pending>> \in DriveEvidence
          /\ <<"endurance_used_pct", r.used>> \in DriveEvidence
    BY <1>a DEF DriveEvidence
  <1>1. /\ v \in Judgement(DriveEvidence)
        /\ v.status = IF Failing(r) THEN "critical" ELSE b.status
        /\ v.metrics = IF Failing(r) THEN Append(b.metrics, <<"failing_device", r.disk>>) ELSE b.metrics
    <2>1. CASE Failing(r)
      <3>1. v = WithEvidence(b, "critical", "failing_device", r.disk)
        BY <2>1 DEF WithVerdict, Failing
      <3>2. "critical" \in Measure
        BY DEF Measure
      <3>3. QED
        BY <2>1, <3>1, <3>2, <1>c, DriveEvidenceAdded, SMTT(30)
    <2>2. CASE ~Failing(r)
      <3>1. v = b \/ v = [b EXCEPT !.confidence = "medium"]
        BY <2>2, Zenon DEF WithVerdict, Failing
      <3>2. QED
        BY <2>2, <3>1 DEF Judgement, Confidence
    <2>3. QED
      BY <2>1, <2>2
  <1> HIDE DEF v
  <1>2. /\ w \in Judgement(DriveEvidence)
        /\ w.status = IF r.pending > 0 /\ v.status = "ok" THEN "warning" ELSE v.status
        /\ w.metrics = IF r.pending > 0 /\ v.status = "ok"
                       THEN Append(v.metrics, <<"pending_sectors", r.pending>>) ELSE v.metrics
    <2>1. CASE r.pending > 0 /\ v.status = "ok"
      <3>1. w = WithEvidence(v, "warning", "pending_sectors", r.pending)
        BY <2>1 DEF WithWarning
      <3>2. "warning" \in Measure
        BY DEF Measure
      <3>3. /\ w \in Judgement(DriveEvidence) /\ w.status = "warning"
            /\ w.metrics = Append(v.metrics, <<"pending_sectors", r.pending>>)
        <4> DEFINE y == WithEvidence(v, "warning", "pending_sectors", r.pending)
        <4>1. v \in Judgement(DriveEvidence)
          BY <1>1
        <4>2. y \in Judgement(DriveEvidence) /\ y.status = "warning"
          BY <3>2, <4>1, <1>c, DriveEvidenceAdded, SMTT(30)
        <4>3. y.metrics = Append(v.metrics, <<"pending_sectors", r.pending>>)
          BY <3>2, <4>1, <1>c, DriveEvidenceAdded, SMTT(30)
        <4>4. w = y
          BY <3>1
        <4> HIDE DEF w, y
        <4>5. QED
          BY <4>2, <4>3, <4>4
      <3>4. QED
        BY <2>1, <3>3
    <2>2. CASE ~(r.pending > 0 /\ v.status = "ok")
      <3>1. w = v
        BY <2>2 DEF WithWarning
      <3>2. QED
        BY <2>2, <3>1, <1>1
    <2>3. QED
      BY <2>1, <2>2
  <1>3. WithReport(b, r) = WithWarning(w, r.used >= EnduranceWarn, "endurance_used_pct", r.used)
    BY DEF WithReport, v
  <1> HIDE DEF w
  <1> DEFINE x == WithReport(b, r)
  <1>4. /\ x \in Judgement(DriveEvidence)
        /\ x.status = IF r.used >= EnduranceWarn /\ w.status = "ok" THEN "warning" ELSE w.status
        /\ x.metrics = IF r.used >= EnduranceWarn /\ w.status = "ok"
                       THEN Append(w.metrics, <<"endurance_used_pct", r.used>>) ELSE w.metrics
    <2>1. CASE r.used >= EnduranceWarn /\ w.status = "ok"
      <3>1. x = WithEvidence(w, "warning", "endurance_used_pct", r.used)
        BY <2>1, <1>3 DEF WithWarning
      <3>2. "warning" \in Measure
        BY DEF Measure
      <3>3. /\ x \in Judgement(DriveEvidence) /\ x.status = "warning"
            /\ x.metrics = Append(w.metrics, <<"endurance_used_pct", r.used>>)
        <4> DEFINE y == WithEvidence(w, "warning", "endurance_used_pct", r.used)
        <4>1. w \in Judgement(DriveEvidence)
          BY <1>2
        <4>2. y \in Judgement(DriveEvidence) /\ y.status = "warning"
          BY <3>2, <4>1, <1>c, DriveEvidenceAdded, SMTT(30)
        <4>3. y.metrics = Append(w.metrics, <<"endurance_used_pct", r.used>>)
          BY <3>2, <4>1, <1>c, DriveEvidenceAdded, SMTT(30)
        <4>4. x = y
          BY <3>1
        <4> HIDE DEF x, y
        <4>5. QED
          BY <4>2, <4>3, <4>4
      <3>4. QED
        BY <2>1, <3>3
    <2>2. CASE ~(r.used >= EnduranceWarn /\ w.status = "ok")
      <3>1. x = w
        BY <2>2, <1>3 DEF WithWarning
      <3>2. QED
        BY <2>2, <3>1, <1>2
    <2>3. QED
      BY <2>1, <2>2
  <1> HIDE DEF x
  <1>5. x.status = IF Failing(r) \/ b.status = "critical" THEN "critical"
                   ELSE IF Worn(r) THEN "warning" ELSE b.status
    BY <1>1, <1>2, <1>4, <1>b DEF Worn, Measure
  <1>6. /\ b.metrics \in Seq(DriveEvidence) /\ v.metrics \in Seq(DriveEvidence)
        /\ w.metrics \in Seq(DriveEvidence) /\ x.metrics \in Seq(DriveEvidence)
    BY <1>b, <1>1, <1>2, <1>4 DEF Judgement
  <1>7. \A i \in DOMAIN b.metrics : i \in DOMAIN v.metrics /\ v.metrics[i] = b.metrics[i]
    BY <1>6, <1>1, <1>c
  <1>8. \A i \in DOMAIN v.metrics : i \in DOMAIN w.metrics /\ w.metrics[i] = v.metrics[i]
    BY <1>6, <1>2, <1>c
  <1>9. \A i \in DOMAIN w.metrics : i \in DOMAIN x.metrics /\ x.metrics[i] = w.metrics[i]
    BY <1>6, <1>4, <1>c
  <1>10. Failing(r) => \E i \in DOMAIN v.metrics : v.metrics[i] = <<"failing_device", r.disk>>
    <2>1. SUFFICES ASSUME Failing(r)
                   PROVE  \E i \in DOMAIN v.metrics : v.metrics[i] = <<"failing_device", r.disk>>
      OBVIOUS
    <2>2. v.metrics[Len(v.metrics)] = <<"failing_device", r.disk>> /\ Len(v.metrics) \in DOMAIN v.metrics
      BY <2>1, <1>1, <1>6, <1>c
    <2>3. QED
      BY <2>2
  <1>11. Failing(r) => \E i \in DOMAIN x.metrics : x.metrics[i] = <<"failing_device", r.disk>>
    BY <1>8, <1>9, <1>10
  <1>12. \A i \in DOMAIN b.metrics : i \in DOMAIN x.metrics /\ x.metrics[i] = b.metrics[i]
    BY <1>7, <1>8, <1>9
  <1>13. QED
    BY <1>4, <1>5, <1>11, <1>12 DEF x

\* The loop over the reports.
AllReports(base, seq) == FoldLeft(WithReport, base, seq)

\* The loop over the reports is a sequence of such turns.
LEMMA ReportFold ==
  ASSUME NEW base \in Judgement(DriveEvidence), NEW seq \in Seq(Drive)
  PROVE  \E h : /\ DOMAIN h = 0 .. Len(seq) /\ h[0] = base /\ h[Len(seq)] = AllReports(base, seq)
               /\ \A k \in 1 .. Len(seq) : h[k] = WithReport(h[k - 1], seq[k])
  <1> DEFINE n == Len(seq)
             step == [x \in Judgement(DriveEvidence) \X (1 .. n) |-> WithReport(x[1], seq[x[2]])]
             Turns(f) == f = [s \in SUBSET (1 .. n) |->
                            IF s = {} THEN base ELSE WithReport(f[s \ {Max(s)}], seq[Max(s)])]
             iter == CHOOSE f : Turns(f)
             h == [k \in 0 .. n |-> iter[1 .. k]]
  <1>1. n \in Nat /\ DOMAIN seq = 1 .. n /\ \A k \in 1 .. n : seq[k] \in Drive
    OBVIOUS
  <1>2. h[n] = AllReports(base, seq)
    BY <1>1 DEF AllReports, FoldLeft, MapThenFoldSet
  <1> HIDE DEF n
  <1>3. step \in [Judgement(DriveEvidence) \X (1 .. n) -> Judgement(DriveEvidence)]
    BY <1>1, ReportTurn
  <1>4. \A b \in Judgement(DriveEvidence), k \in 1 .. n : step[<<b, k>>] = WithReport(b, seq[k])
    OBVIOUS
  <1> HIDE DEF step
  <1>5. PICK f \in [SUBSET (1 .. n) -> Judgement(DriveEvidence)] : f[{}] = base /\ FoldsOn(f, n, base, step)
    BY <1>1, <1>3, FoldExists
  <1>6. Turns(f)
    <2>1. ASSUME NEW s \in SUBSET (1 .. n), s # {}
          PROVE  f[s] = WithReport(f[s \ {Max(s)}], seq[Max(s)])
      <3>1. Max(s) \in s /\ f[s] = step[<<f[s \ {Max(s)}], Max(s)>>]
        BY <2>1, <1>5 DEF FoldsOn
      <3>2. Max(s) \in 1 .. n /\ f[s \ {Max(s)}] \in Judgement(DriveEvidence)
        BY <3>1
      <3>3. QED
        BY <1>4, <3>1, <3>2
    <2>2. QED
      BY <1>5, <2>1
  <1>7. Turns(iter)
    BY <1>6
  <1> HIDE DEF iter
  <1>8. h[0] = base
    <2>1. 1 .. 0 = {} /\ {} \in SUBSET (1 .. n) /\ 0 \in 0 .. n
      BY <1>1
    <2>2. QED
      BY <1>7, <2>1
  <1>9. ASSUME NEW k \in 1 .. n PROVE h[k] = WithReport(h[k - 1], seq[k])
    <2>1. 1 .. k \in SUBSET (1 .. n) /\ 1 .. k # {} /\ Max(1 .. k) = k /\ (1 .. k) \ {k} = 1 .. k - 1
      BY <1>1, Positions
    <2>2. iter[1 .. k] = WithReport(iter[1 .. k - 1], seq[k])
      BY <1>7, <2>1
    <2>3. k \in 0 .. n /\ k - 1 \in 0 .. n
      BY <1>1
    <2>4. QED
      BY <2>2, <2>3
  <1>10. DOMAIN h = 0 .. n
    OBVIOUS
  <1> HIDE DEF h
  <1>11. QED
    BY <1>2, <1>8, <1>9, <1>10 DEF n

\* What the loop finds: the verdict of the worst drive, and every failing one.
LEMMA ReportLoop ==
  ASSUME NEW seq \in Seq(Drive)
  PROVE  LET judged == AllReports(Result("ok", "high", <<>>), seq)
         IN /\ judged \in Judgement(DriveEvidence)
            /\ judged.status = IF \E k \in 1 .. Len(seq) : Failing(seq[k]) THEN "critical"
                               ELSE IF \E k \in 1 .. Len(seq) : Worn(seq[k]) THEN "warning" ELSE "ok"
            /\ \A k \in 1 .. Len(seq) : Failing(seq[k]) =>
                 \E i \in DOMAIN judged.metrics : judged.metrics[i] = <<"failing_device", seq[k].disk>>
  <1> DEFINE n == Len(seq)
             base == Result("ok", "high", <<>>)
             judged == AllReports(base, seq)
             So(b, m) ==
               /\ b \in Judgement(DriveEvidence)
               /\ b.status = IF \E k \in 1 .. m : Failing(seq[k]) THEN "critical"
                             ELSE IF \E k \in 1 .. m : Worn(seq[k]) THEN "warning" ELSE "ok"
               /\ \A k \in 1 .. m : Failing(seq[k]) =>
                    \E i \in DOMAIN b.metrics : b.metrics[i] = <<"failing_device", seq[k].disk>>
  <1>1. n \in Nat /\ \A k \in 1 .. n : seq[k] \in Drive
    OBVIOUS
  <1>2. base \in Judgement(DriveEvidence) /\ base.status = "ok"
    BY DEF Result, Judgement, Measure, Confidence
  <1>3. PICK h : /\ h[0] = base /\ h[n] = judged
                 /\ \A k \in 1 .. n : h[k] = WithReport(h[k - 1], seq[k])
    <2>1. \E h : /\ DOMAIN h = 0 .. Len(seq) /\ h[0] = base /\ h[Len(seq)] = AllReports(base, seq)
                 /\ \A k \in 1 .. Len(seq) : h[k] = WithReport(h[k - 1], seq[k])
      <3> HIDE DEF n, judged, base
      <3>1. QED
        BY <1>2, ReportFold, Zenon
    <2>2. QED
      BY <2>1
  <1> HIDE DEF n, base
  <1> HIDE DEF So
  <1> DEFINE P == {m \in Nat : So(h[m], m)}
  <1>4. 0 \in P
    BY <1>2, <1>3 DEF So
  <1>5. ASSUME NEW m \in 1 .. n, m - 1 \in P PROVE m \in P
    <2> DEFINE b == h[m - 1]
               x == h[m]
    <2>1. So(b, m - 1) /\ m \in Nat
      BY <1>1, <1>5
    <2>2. x = WithReport(b, seq[m]) /\ seq[m] \in Drive
      BY <1>1, <1>3
    <2> HIDE DEF b, x
    <2>3. /\ x \in Judgement(DriveEvidence)
          /\ x.status = IF Failing(seq[m]) \/ b.status = "critical" THEN "critical"
                        ELSE IF Worn(seq[m]) THEN "warning" ELSE b.status
          /\ \A i \in DOMAIN b.metrics : i \in DOMAIN x.metrics /\ x.metrics[i] = b.metrics[i]
          /\ Failing(seq[m]) =>
               \E i \in DOMAIN x.metrics : x.metrics[i] = <<"failing_device", seq[m].disk>>
      <3>1. b \in Judgement(DriveEvidence)
        BY <2>1 DEF So
      <3>2. QED
        BY <2>2, <3>1, ReportTurn
    <2>4. \A k \in 1 .. m : k \in 1 .. m - 1 \/ k = m
      BY <2>1
    <2>a. \A k \in 1 .. m - 1 : k \in 1 .. m
      BY <2>1
    <2>b. m \in 1 .. m
      BY <2>1
    <2>5. (\E k \in 1 .. m : Failing(seq[k])) <=> (\E k \in 1 .. m - 1 : Failing(seq[k])) \/ Failing(seq[m])
      BY <2>4, <2>a, <2>b, Zenon
    <2>6. (\E k \in 1 .. m : Worn(seq[k])) <=> (\E k \in 1 .. m - 1 : Worn(seq[k])) \/ Worn(seq[m])
      BY <2>4, <2>a, <2>b, Zenon
    <2> USE DEF So
    <2>7. x.status = IF \E k \in 1 .. m : Failing(seq[k]) THEN "critical"
                     ELSE IF \E k \in 1 .. m : Worn(seq[k]) THEN "warning" ELSE "ok"
      BY <2>1, <2>3, <2>5, <2>6
    <2>8. \A k \in 1 .. m : Failing(seq[k]) =>
            \E i \in DOMAIN x.metrics : x.metrics[i] = <<"failing_device", seq[k].disk>>
      BY <2>1, <2>3, <2>4
    <2>9. QED
      BY <2>1, <2>3, <2>7, <2>8 DEF x
  <1>6. n \in P
    <2> HIDE DEF P
    <2>1. QED
      BY <1>1, <1>4, <1>5, LoopInduction
  <1>7. QED
    BY <1>3, <1>6 DEF n, base, So

-----------------------------------------------------------------------------
(* list_temperatures.                                                      *)

\* One turn: the reading of a slot is added, or none.
LEMMA SlotTurn == ASSUME NEW b \in Seq(Int), NEW t \in Int PROVE WithSlot(b, t) \in Seq(Int)
  BY DEF WithSlot

\* The loop over the slots.
AllSlots(base, seq) == FoldLeft(WithSlot, base, seq)

\* The loop over the slots is a sequence of such turns.
LEMMA SlotFold ==
  ASSUME NEW base \in Seq(Int), NEW seq \in Seq(Int)
  PROVE  \E h : /\ DOMAIN h = 0 .. Len(seq) /\ h[0] = base /\ h[Len(seq)] = AllSlots(base, seq)
               /\ \A k \in 1 .. Len(seq) : h[k] = WithSlot(h[k - 1], seq[k])
  <1> DEFINE n == Len(seq)
             step == [x \in Seq(Int) \X (1 .. n) |-> WithSlot(x[1], seq[x[2]])]
             Turns(f) == f = [s \in SUBSET (1 .. n) |->
                            IF s = {} THEN base ELSE WithSlot(f[s \ {Max(s)}], seq[Max(s)])]
             iter == CHOOSE f : Turns(f)
             h == [k \in 0 .. n |-> iter[1 .. k]]
  <1>1. n \in Nat /\ DOMAIN seq = 1 .. n /\ \A k \in 1 .. n : seq[k] \in Int
    OBVIOUS
  <1>2. h[n] = AllSlots(base, seq)
    BY <1>1 DEF AllSlots, FoldLeft, MapThenFoldSet
  <1> HIDE DEF n
  <1>3. step \in [Seq(Int) \X (1 .. n) -> Seq(Int)]
    BY <1>1, SlotTurn
  <1>4. \A b \in Seq(Int), k \in 1 .. n : step[<<b, k>>] = WithSlot(b, seq[k])
    OBVIOUS
  <1> HIDE DEF step
  <1>5. PICK f \in [SUBSET (1 .. n) -> Seq(Int)] : f[{}] = base /\ FoldsOn(f, n, base, step)
    BY <1>1, <1>3, FoldExists
  <1>6. Turns(f)
    <2>1. ASSUME NEW s \in SUBSET (1 .. n), s # {}
          PROVE  f[s] = WithSlot(f[s \ {Max(s)}], seq[Max(s)])
      <3>1. Max(s) \in s /\ f[s] = step[<<f[s \ {Max(s)}], Max(s)>>]
        BY <2>1, <1>5 DEF FoldsOn
      <3>2. Max(s) \in 1 .. n /\ f[s \ {Max(s)}] \in Seq(Int)
        BY <3>1
      <3>3. QED
        BY <1>4, <3>1, <3>2
    <2>2. QED
      BY <1>5, <2>1
  <1>7. Turns(iter)
    BY <1>6
  <1> HIDE DEF iter
  <1>8. h[0] = base
    <2>1. 1 .. 0 = {} /\ {} \in SUBSET (1 .. n) /\ 0 \in 0 .. n
      BY <1>1
    <2>2. QED
      BY <1>7, <2>1
  <1>9. ASSUME NEW k \in 1 .. n PROVE h[k] = WithSlot(h[k - 1], seq[k])
    <2>1. 1 .. k \in SUBSET (1 .. n) /\ 1 .. k # {} /\ Max(1 .. k) = k /\ (1 .. k) \ {k} = 1 .. k - 1
      BY <1>1, Positions
    <2>2. iter[1 .. k] = WithSlot(iter[1 .. k - 1], seq[k])
      BY <1>7, <2>1
    <2>3. k \in 0 .. n /\ k - 1 \in 0 .. n
      BY <1>1
    <2>4. QED
      BY <2>2, <2>3
  <1>10. DOMAIN h = 0 .. n
    OBVIOUS
  <1> HIDE DEF h
  <1>11. QED
    BY <1>2, <1>8, <1>9, <1>10 DEF n

\* What it answers are temperatures.
LEMMA ReadingsType == ASSUME NEW slots \in Seq(Int) PROVE ListTemperatures(slots) \in Seq(Int)
  <1> DEFINE n == Len(slots)
             base == <<>>
             readings == AllSlots(base, slots)
  <1>1. n \in Nat /\ \A k \in 1 .. n : slots[k] \in Int
    OBVIOUS
  <1>2. base \in Seq(Int)
    OBVIOUS
  <1>3. ListTemperatures(slots) = readings
    BY DEF ListTemperatures, AllSlots
  <1>4. PICK h : /\ h[0] = base /\ h[n] = readings
                 /\ \A k \in 1 .. n : h[k] = WithSlot(h[k - 1], slots[k])
    <2>1. \E h : /\ DOMAIN h = 0 .. Len(slots) /\ h[0] = base /\ h[Len(slots)] = AllSlots(base, slots)
                 /\ \A k \in 1 .. Len(slots) : h[k] = WithSlot(h[k - 1], slots[k])
      <3> HIDE DEF n, readings, base
      <3>1. QED
        BY <1>2, SlotFold, Zenon
    <2>2. QED
      BY <2>1
  <1> HIDE DEF n, base
  <1> DEFINE P == {m \in Nat : h[m] \in Seq(Int)}
  <1>5. 0 \in P
    BY <1>2, <1>4
  <1>6. ASSUME NEW m \in 1 .. n, m - 1 \in P PROVE m \in P
    <2>1. h[m - 1] \in Seq(Int) /\ m \in Nat
      BY <1>1, <1>6
    <2>2. h[m] = WithSlot(h[m - 1], slots[m]) /\ slots[m] \in Int
      BY <1>1, <1>4
    <2>3. QED
      BY <2>1, <2>2, SlotTurn
  <1>7. n \in P
    <2> HIDE DEF P
    <2>1. QED
      BY <1>1, <1>5, <1>6, LoopInduction
  <1>8. QED
    BY <1>3, <1>4, <1>7

-----------------------------------------------------------------------------
(* check_thermal.                                                          *)

\* Of finitely many plausible temperatures one is the hottest.
LEMMA HottestExists ==
  ASSUME NEW S, S # {}, \A t \in S : t \in Int /\ Plausible(t)
  PROVE  Max(S) \in S /\ \A t \in S : Max(S) >= t
  <1> DEFINE T == {PlausibleMax - t : t \in S}
  <1>1. T \subseteq Nat /\ T # {}
    BY DEF Plausible, PlausibleMax
  <1> HIDE DEF T
  <1>2. PICK m \in T : \A y \in T : ~(<<y, m>> \in OpToRel(<, Nat))
    BY <1>1, NatLessThanWellFounded, WFMin
  <1>3. ASSUME NEW y \in T PROVE m <= y
    <2>1. y \in Nat /\ m \in Nat
      BY <1>1
    <2>2. ~(y < m)
      BY <1>2, <2>1 DEF OpToRel
    <2>3. QED
      BY <2>1, <2>2
  <1>4. PICK t \in S : m = PlausibleMax - t
    BY DEF T
  <1>5. ASSUME NEW u \in S PROVE t >= u
    <2>1. PlausibleMax - u \in T
      BY DEF T
    <2>2. QED
      BY <1>3, <1>4, <2>1 DEF PlausibleMax
  <1>6. QED
    BY <1>5 DEF Max

\* check_thermal gives the verdict of the table: that of the hottest reading.
LEMMA ThermalVerdict ==
  ASSUME NEW list \in Seq(Int), NEW answer, answer.list = list, answer.ok \in BOOLEAN,
         ~answer.ok => list = <<>>
  PROVE  LET sensor == {t \in ToSet(list) : 1 < t /\ t < 119}
         IN CheckThermal(answer).status =
              Grade(sensor # {}, \E t \in sensor : t >= 95, \E t \in sensor : t >= 85)
  <1> DEFINE sensor == {t \in ToSet(list) : 1 < t /\ t < 119}
             hottest == Max(sensor)
  <1>1. sensor = {t \in ToSet(list) : Plausible(t)} /\ ToSet(list) \subseteq Int
    BY DEF Plausible, PlausibleMin, PlausibleMax, ToSet
  <1>2. \A t \in sensor : t \in Int /\ Plausible(t)
    BY <1>1
  <1>3. CheckThermal(answer) =
          CASE ~answer.ok -> Skipped("unavailable")
            [] answer.ok /\ sensor = {} -> Skipped("no-data")
            [] OTHER -> Result(CASE hottest >= ThermalCrit -> "critical"
                                 [] ThermalWarn <= hottest /\ hottest < ThermalCrit -> "warning"
                                 [] OTHER -> "ok",
                               "medium", <<<<"max_temp_c", hottest>>>>)
    BY <1>1 DEF CheckThermal
  <1>a. sensor # {} => answer.ok
    BY DEF ToSet
  <1> HIDE DEF sensor
  <1>4. CASE sensor = {}
    <2>1. CheckThermal(answer) \in {Skipped("unavailable"), Skipped("no-data")}
      BY <1>3, <1>4
    <2>2. CheckThermal(answer).status = "skipped"
      BY <2>1 DEF Skipped
    <2>3. QED
      BY <1>4, <2>2 DEF Grade, sensor
  <1>5. CASE sensor # {}
    <2>1. hottest \in sensor /\ \A t \in sensor : hottest >= t
      BY <1>2, <1>5, HottestExists
    <2>2. hottest \in Int /\ \A t \in sensor : t \in Int
      BY <1>2, <2>1
    <2> HIDE DEF hottest
    <2>3. CheckThermal(answer).status = (CASE hottest >= ThermalCrit -> "critical"
                                 [] ThermalWarn <= hottest /\ hottest < ThermalCrit -> "warning"
                                 [] OTHER -> "ok")
      BY <1>3, <1>a, <1>5 DEF Result
    <2>4. (hottest >= 95 <=> \E t \in sensor : t >= 95) /\ (hottest >= 85 <=> \E t \in sensor : t >= 85)
      BY <2>1, <2>2
    <2>5. CheckThermal(answer).status = IF hottest >= 95 THEN "critical" ELSE IF hottest >= 85 THEN "warning" ELSE "ok"
      BY <2>2, <2>3 DEF ThermalCrit, ThermalWarn
    <2>6. QED
      BY <1>5, <2>4, <2>5 DEF Grade, sensor
  <1>6. QED
    BY <1>4, <1>5

-----------------------------------------------------------------------------
(* check_firmware_currency.                                                *)

\* check_firmware_currency gives the verdict of the table.
LEMMA FirmwareVerdict ==
  ASSUME NEW answer
  PROVE  CheckFirmwareCurrency(answer).status =
           Grade(answer.ok, "critical" \in ToSet(answer.list), answer.list # <<>>)
  <1>1. CASE ~answer.ok
    <2>1. CheckFirmwareCurrency(answer) = Skipped("unavailable")
      BY <1>1, Zenon DEF CheckFirmwareCurrency
    <2>2. QED
      BY <1>1, <2>1 DEF Grade, Skipped
  <1>2. CASE answer.ok /\ answer.list = <<>>
    <2>1. CheckFirmwareCurrency(answer) = Result("ok", "medium", <<>>)
      BY <1>2, Zenon DEF CheckFirmwareCurrency
    <2>2. ToSet(answer.list) = {}
      BY <1>2 DEF ToSet
    <2>3. QED
      BY <1>2, <2>1, <2>2 DEF Grade, Result
  <1>3. CASE answer.ok /\ answer.list # <<>>
    <2> DEFINE critical == "critical" \in ToSet(answer.list)
    <2>1. CheckFirmwareCurrency(answer).status = IF critical THEN "critical" ELSE "warning"
      BY <1>3 DEF CheckFirmwareCurrency, Result
    <2>2. QED
      BY <1>3, <2>1 DEF Grade
  <1>4. QED
    BY <1>1, <1>2, <1>3

-----------------------------------------------------------------------------
(* list_usage.                                                             *)

MountsRead == [seen : SUBSET Name, usages : Seq(MountLine)]

\* One turn: the usage of a line is added, or none.
LEMMA LineTurn == ASSUME NEW b \in MountsRead, NEW e \in MountLine PROVE WithLine(b, e) \in MountsRead
  <1>1. e.source \in Name /\ b.seen \in SUBSET Name /\ b.usages \in Seq(MountLine)
    BY DEF MountsRead, MountLine
  <1>2. Append(b.usages, e) \in Seq(MountLine) /\ b.seen \cup {e.source} \in SUBSET Name
    BY <1>1
  <1>3. QED
    BY <1>1, <1>2 DEF WithLine, MountsRead

\* The loop over the lines of /proc/mounts.
AllLines(base, seq) == FoldLeft(WithLine, base, seq)

\* The loop over the lines is a sequence of such turns.
LEMMA LineFold ==
  ASSUME NEW base \in MountsRead, NEW seq \in Seq(MountLine)
  PROVE  \E h : /\ DOMAIN h = 0 .. Len(seq) /\ h[0] = base /\ h[Len(seq)] = AllLines(base, seq)
               /\ \A k \in 1 .. Len(seq) : h[k] = WithLine(h[k - 1], seq[k])
  <1> DEFINE n == Len(seq)
             step == [x \in MountsRead \X (1 .. n) |-> WithLine(x[1], seq[x[2]])]
             Turns(f) == f = [s \in SUBSET (1 .. n) |->
                            IF s = {} THEN base ELSE WithLine(f[s \ {Max(s)}], seq[Max(s)])]
             iter == CHOOSE f : Turns(f)
             h == [k \in 0 .. n |-> iter[1 .. k]]
  <1>1. n \in Nat /\ DOMAIN seq = 1 .. n /\ \A k \in 1 .. n : seq[k] \in MountLine
    OBVIOUS
  <1>2. h[n] = AllLines(base, seq)
    BY <1>1 DEF AllLines, FoldLeft, MapThenFoldSet
  <1> HIDE DEF n
  <1>3. step \in [MountsRead \X (1 .. n) -> MountsRead]
    BY <1>1, LineTurn
  <1>4. \A b \in MountsRead, k \in 1 .. n : step[<<b, k>>] = WithLine(b, seq[k])
    OBVIOUS
  <1> HIDE DEF step
  <1>5. PICK f \in [SUBSET (1 .. n) -> MountsRead] : f[{}] = base /\ FoldsOn(f, n, base, step)
    BY <1>1, <1>3, FoldExists
  <1>6. Turns(f)
    <2>1. ASSUME NEW s \in SUBSET (1 .. n), s # {}
          PROVE  f[s] = WithLine(f[s \ {Max(s)}], seq[Max(s)])
      <3>1. Max(s) \in s /\ f[s] = step[<<f[s \ {Max(s)}], Max(s)>>]
        BY <2>1, <1>5 DEF FoldsOn
      <3>2. Max(s) \in 1 .. n /\ f[s \ {Max(s)}] \in MountsRead
        BY <3>1
      <3>3. QED
        BY <1>4, <3>1, <3>2
    <2>2. QED
      BY <1>5, <2>1
  <1>7. Turns(iter)
    BY <1>6
  <1> HIDE DEF iter
  <1>8. h[0] = base
    <2>1. 1 .. 0 = {} /\ {} \in SUBSET (1 .. n) /\ 0 \in 0 .. n
      BY <1>1
    <2>2. QED
      BY <1>7, <2>1
  <1>9. ASSUME NEW k \in 1 .. n PROVE h[k] = WithLine(h[k - 1], seq[k])
    <2>1. 1 .. k \in SUBSET (1 .. n) /\ 1 .. k # {} /\ Max(1 .. k) = k /\ (1 .. k) \ {k} = 1 .. k - 1
      BY <1>1, Positions
    <2>2. iter[1 .. k] = WithLine(iter[1 .. k - 1], seq[k])
      BY <1>7, <2>1
    <2>3. k \in 0 .. n /\ k - 1 \in 0 .. n
      BY <1>1
    <2>4. QED
      BY <2>2, <2>3
  <1>10. DOMAIN h = 0 .. n
    OBVIOUS
  <1> HIDE DEF h
  <1>11. QED
    BY <1>2, <1>8, <1>9, <1>10 DEF n

\* The elements of a list with one more at its end.
LEMMA AppendedSet ==
  ASSUME NEW S, NEW s \in Seq(S), NEW e \in S
  PROVE  ToSet(Append(s, e)) = ToSet(s) \cup {e}
  <1> DEFINE n == Len(s)
             t == Append(s, e)
  <1>1. n \in Nat /\ DOMAIN s = 1 .. n /\ DOMAIN t = 1 .. n + 1
    OBVIOUS
  <1>2. t[n + 1] = e /\ \A i \in 1 .. n : t[i] = s[i]
    OBVIOUS
  <1> HIDE DEF t, n
  <1>3. 1 .. n + 1 = (1 .. n) \cup {n + 1}
    BY <1>1
  <1>4. ToSet(t) = {t[i] : i \in 1 .. n + 1} /\ ToSet(s) = {s[i] : i \in 1 .. n}
    BY <1>1 DEF ToSet
  <1>5. ToSet(t) = ToSet(s) \cup {e}
    BY <1>2, <1>3, <1>4
  <1>6. QED
    BY <1>5 DEF t

\* A line whose device is listed for the first time, and whose mount point
\* answers.
Counts(seq, i) ==
    /\ seq[i].source # Pseudo /\ ~Stale(seq[i])
    /\ \A j \in 1 .. i - 1 : seq[j].source # seq[i].source

\* What the loop reads: the lines that count.
LEMMA LineLoop ==
  ASSUME NEW seq \in Seq(MountLine)
  PROVE  /\ ListUsage(seq) \in Seq(MountLine)
         /\ ToSet(ListUsage(seq)) = {seq[i] : i \in {i \in 1 .. Len(seq) : Counts(seq, i)}}
  <1> DEFINE n == Len(seq)
             base == [seen |-> {}, usages |-> <<>>]
             read == AllLines(base, seq)
             Sources(m) == {s \in Name : s # Pseudo /\ \E i \in 1 .. m : seq[i].source = s}
             Counted(m) == {seq[i] : i \in {i \in 1 .. m : Counts(seq, i)}}
             So(b, m) == b \in MountsRead /\ b.seen = Sources(m) /\ ToSet(b.usages) = Counted(m)
  <1>1. n \in Nat /\ \A k \in 1 .. n : seq[k] \in MountLine
    OBVIOUS
  <1>2. base \in MountsRead /\ base.seen = {} /\ ToSet(base.usages) = {}
    BY DEF MountsRead, ToSet
  <1>a. ListUsage(seq) = read.usages
    BY DEF ListUsage, AllLines
  <1>3. PICK h : /\ h[0] = base /\ h[n] = read
                 /\ \A k \in 1 .. n : h[k] = WithLine(h[k - 1], seq[k])
    <2>1. \E h : /\ DOMAIN h = 0 .. Len(seq) /\ h[0] = base /\ h[Len(seq)] = AllLines(base, seq)
                 /\ \A k \in 1 .. Len(seq) : h[k] = WithLine(h[k - 1], seq[k])
      <3> HIDE DEF n, read, base
      <3>1. QED
        BY <1>2, LineFold, Zenon
    <2>2. QED
      BY <2>1
  <1> HIDE DEF n, base
  <1> HIDE DEF So
  <1> DEFINE P == {m \in Nat : So(h[m], m)}
  <1>4. 0 \in P
    BY <1>2, <1>3 DEF So
  <1>5. ASSUME NEW m \in 1 .. n, m - 1 \in P PROVE m \in P
    <2> DEFINE b == h[m - 1]
               e == seq[m]
               x == h[m]
    <2>1. So(b, m - 1) /\ m \in Nat
      BY <1>1, <1>5
    <2>2. x = WithLine(b, e) /\ e \in MountLine /\ b \in MountsRead
      BY <1>1, <1>3, <2>1 DEF So
    <2>3. m \in 1 .. m /\ (\A k \in 1 .. m : k \in 1 .. m - 1 \/ k = m) /\ (\A k \in 1 .. m - 1 : k \in 1 .. m)
      BY <2>1
    <2>4. e.source \in Name /\ b.usages \in Seq(MountLine) /\ x \in MountsRead
      BY <2>2, LineTurn DEF MountLine, MountsRead
    <2> HIDE DEF b, x
    <2>5. b.seen = Sources(m - 1) /\ ToSet(b.usages) = Counted(m - 1)
      BY <2>1 DEF So
    <2>6. Sources(m) = Sources(m - 1) \cup (IF e.source = Pseudo THEN {} ELSE {e.source})
      BY <2>3, <2>4
    <2>7. Counted(m) = Counted(m - 1) \cup (IF Counts(seq, m) THEN {e} ELSE {})
      BY <2>3
    <2>8. Counts(seq, m) <=> e.source # Pseudo /\ ~Stale(e) /\ e.source \notin b.seen
      BY <2>4, <2>5 DEF Counts
    <2> HIDE DEF Sources, Counted
    <2>9. CASE e.source = Pseudo \/ e.source \in b.seen
      <3>1. x = b
        BY <2>2, <2>9 DEF WithLine
      <3>2. Sources(m) = b.seen /\ Counted(m) = ToSet(b.usages)
        BY <2>5, <2>6, <2>7, <2>8, <2>9
      <3>3. So(x, m)
        BY <2>2, <3>1, <3>2 DEF So
      <3>4. QED
        BY <2>1, <3>3 DEF x
    <2>10. CASE ~(e.source = Pseudo \/ e.source \in b.seen)
      <3>1. x = [seen |-> b.seen \cup {e.source},
                 usages |-> IF Stale(e) THEN b.usages ELSE Append(b.usages, e)]
        BY <2>2, <2>10 DEF WithLine
      <3>2. x.seen = Sources(m)
        BY <2>5, <2>6, <2>10, <3>1
      <3>3. ToSet(x.usages) = Counted(m)
        <4>1. CASE Stale(e)
          BY <2>5, <2>7, <2>8, <3>1, <4>1
        <4>2. CASE ~Stale(e)
          <5>1. x.usages = Append(b.usages, e)
            BY <3>1, <4>2
          <5>2. ToSet(Append(b.usages, e)) = ToSet(b.usages) \cup {e}
            BY <2>2, <2>4, AppendedSet
          <5>3. Counts(seq, m)
            BY <2>8, <2>10, <4>2
          <5>4. QED
            BY <2>5, <2>7, <5>1, <5>2, <5>3
        <4>3. QED
          BY <4>1, <4>2
      <3>4. So(x, m)
        BY <2>4, <3>2, <3>3 DEF So
      <3>5. QED
        BY <2>1, <3>4 DEF x
    <2>11. QED
      BY <2>9, <2>10
  <1>6. n \in P
    <2> HIDE DEF P
    <2>1. QED
      BY <1>1, <1>4, <1>5, LoopInduction
  <1>7. So(read, n)
    BY <1>3, <1>6
  <1>8. QED
    BY <1>a, <1>7 DEF n, base, So, MountsRead

-----------------------------------------------------------------------------
(* check_disk_space.                                                       *)

MountEvidence == {"critical_mount", "low_mount"} \X Name
DiskJudged == [result : Judgement(MountEvidence), fullest : MountLine]

LEMMA MountEvidenceAdded ==
  ASSUME NEW b \in Judgement(MountEvidence), NEW status \in Measure, NEW key, NEW value,
         <<key, value>> \in MountEvidence
  PROVE  /\ WithEvidence(b, status, key, value) \in Judgement(MountEvidence)
         /\ WithEvidence(b, status, key, value).status = status
  BY EvidenceAdded

\* One turn: a mount of no size changes nothing.
LEMMA UsageTurn ==
  ASSUME NEW b \in DiskJudged, NEW u \in MountLine
  PROVE  /\ WithUsage(b, u) \in DiskJudged
         /\ ~Measured(u) => WithUsage(b, u) = b
         /\ Measured(u) =>
              /\ Measured(WithUsage(b, u).fullest)
              /\ WithUsage(b, u).result.status =
                   IF FreeBelow(u, DiskCritFree) THEN "critical"
                   ELSE IF FreeBelow(u, DiskWarnFree) /\ b.result.status = "ok" THEN "warning"
                   ELSE b.result.status
  <1> DEFINE r == IF FreeBelow(u, DiskCritFree)
                  THEN WithEvidence(b.result, "critical", "critical_mount", u.mount)
                  ELSE WithWarning(b.result, FreeBelow(u, DiskWarnFree), "low_mount", u.mount)
             f == IF Measured(b.fullest) => Fuller(u, b.fullest) THEN u ELSE b.fullest
             was == b.result
  <1>1. was \in Judgement(MountEvidence) /\ b.fullest \in MountLine /\ u.mount \in Name
    BY DEF DiskJudged, MountLine
  <1>2. <<"critical_mount", u.mount>> \in MountEvidence /\ <<"low_mount", u.mount>> \in MountEvidence
    BY <1>1 DEF MountEvidence
  <1>3. "critical" \in Measure /\ "warning" \in Measure
    BY DEF Measure
  <1> HIDE DEF was
  <1>4. /\ r \in Judgement(MountEvidence)
        /\ r.status = IF FreeBelow(u, DiskCritFree) THEN "critical"
                      ELSE IF FreeBelow(u, DiskWarnFree) /\ was.status = "ok" THEN "warning"
                      ELSE was.status
    <2>1. CASE FreeBelow(u, DiskCritFree)
      <3>1. r = WithEvidence(was, "critical", "critical_mount", u.mount)
        BY <2>1 DEF was
      <3> HIDE DEF r
      <3>2. /\ WithEvidence(was, "critical", "critical_mount", u.mount) \in Judgement(MountEvidence)
            /\ WithEvidence(was, "critical", "critical_mount", u.mount).status = "critical"
        BY <1>1, <1>2, <1>3, MountEvidenceAdded
      <3>3. QED
        BY <2>1, <3>1, <3>2
    <2>2. CASE ~FreeBelow(u, DiskCritFree) /\ FreeBelow(u, DiskWarnFree) /\ was.status = "ok"
      <3>1. r = WithEvidence(was, "warning", "low_mount", u.mount)
        BY <2>2 DEF was, WithWarning
      <3> HIDE DEF r
      <3>2. /\ WithEvidence(was, "warning", "low_mount", u.mount) \in Judgement(MountEvidence)
            /\ WithEvidence(was, "warning", "low_mount", u.mount).status = "warning"
        BY <1>1, <1>2, <1>3, MountEvidenceAdded
      <3>3. QED
        BY <2>2, <3>1, <3>2
    <2>3. CASE ~FreeBelow(u, DiskCritFree) /\ ~(FreeBelow(u, DiskWarnFree) /\ was.status = "ok")
      <3>1. r = was
        BY <2>3 DEF was, WithWarning
      <3> HIDE DEF r
      <3>2. QED
        BY <1>1, <2>3, <3>1
    <2>4. QED
      BY <2>1, <2>2, <2>3
  <1>5. WithUsage(b, u) = IF ~Measured(u) THEN b ELSE [result |-> r, fullest |-> f]
    BY DEF WithUsage
  <1>6. f \in MountLine /\ (Measured(u) => Measured(f))
    BY <1>1
  <1> HIDE DEF r, f
  <1>7. CASE ~Measured(u)
    BY <1>5, <1>7
  <1>8. CASE Measured(u)
    <2>1. WithUsage(b, u) = [result |-> r, fullest |-> f]
      BY <1>5, <1>8
    <2>2. WithUsage(b, u).result = r /\ WithUsage(b, u).fullest = f
      BY <2>1
    <2>3. WithUsage(b, u) \in DiskJudged
      BY <1>4, <1>6, <2>1 DEF DiskJudged
    <2>4. QED
      BY <1>4, <1>6, <1>8, <2>2, <2>3 DEF was
  <1>9. QED
    BY <1>7, <1>8

\* The loop over the usages.
AllUsages(base, seq) == FoldLeft(WithUsage, base, seq)

\* The loop over the usages is a sequence of such turns.
LEMMA UsageFold ==
  ASSUME NEW base \in DiskJudged, NEW seq \in Seq(MountLine)
  PROVE  \E h : /\ DOMAIN h = 0 .. Len(seq) /\ h[0] = base /\ h[Len(seq)] = AllUsages(base, seq)
               /\ \A k \in 1 .. Len(seq) : h[k] = WithUsage(h[k - 1], seq[k])
  <1> DEFINE n == Len(seq)
             step == [x \in DiskJudged \X (1 .. n) |-> WithUsage(x[1], seq[x[2]])]
             Turns(f) == f = [s \in SUBSET (1 .. n) |->
                            IF s = {} THEN base ELSE WithUsage(f[s \ {Max(s)}], seq[Max(s)])]
             iter == CHOOSE f : Turns(f)
             h == [k \in 0 .. n |-> iter[1 .. k]]
  <1>1. n \in Nat /\ DOMAIN seq = 1 .. n /\ \A k \in 1 .. n : seq[k] \in MountLine
    OBVIOUS
  <1>2. h[n] = AllUsages(base, seq)
    BY <1>1 DEF AllUsages, FoldLeft, MapThenFoldSet
  <1> HIDE DEF n
  <1>3. step \in [DiskJudged \X (1 .. n) -> DiskJudged]
    BY <1>1, UsageTurn
  <1>4. \A b \in DiskJudged, k \in 1 .. n : step[<<b, k>>] = WithUsage(b, seq[k])
    OBVIOUS
  <1> HIDE DEF step
  <1>5. PICK f \in [SUBSET (1 .. n) -> DiskJudged] : f[{}] = base /\ FoldsOn(f, n, base, step)
    BY <1>1, <1>3, FoldExists
  <1>6. Turns(f)
    <2>1. ASSUME NEW s \in SUBSET (1 .. n), s # {}
          PROVE  f[s] = WithUsage(f[s \ {Max(s)}], seq[Max(s)])
      <3>1. Max(s) \in s /\ f[s] = step[<<f[s \ {Max(s)}], Max(s)>>]
        BY <2>1, <1>5 DEF FoldsOn
      <3>2. Max(s) \in 1 .. n /\ f[s \ {Max(s)}] \in DiskJudged
        BY <3>1
      <3>3. QED
        BY <1>4, <3>1, <3>2
    <2>2. QED
      BY <1>5, <2>1
  <1>7. Turns(iter)
    BY <1>6
  <1> HIDE DEF iter
  <1>8. h[0] = base
    <2>1. 1 .. 0 = {} /\ {} \in SUBSET (1 .. n) /\ 0 \in 0 .. n
      BY <1>1
    <2>2. QED
      BY <1>7, <2>1
  <1>9. ASSUME NEW k \in 1 .. n PROVE h[k] = WithUsage(h[k - 1], seq[k])
    <2>1. 1 .. k \in SUBSET (1 .. n) /\ 1 .. k # {} /\ Max(1 .. k) = k /\ (1 .. k) \ {k} = 1 .. k - 1
      BY <1>1, Positions
    <2>2. iter[1 .. k] = WithUsage(iter[1 .. k - 1], seq[k])
      BY <1>7, <2>1
    <2>3. k \in 0 .. n /\ k - 1 \in 0 .. n
      BY <1>1
    <2>4. QED
      BY <2>2, <2>3
  <1>10. DOMAIN h = 0 .. n
    OBVIOUS
  <1> HIDE DEF h
  <1>11. QED
    BY <1>2, <1>8, <1>9, <1>10 DEF n

LowOn(u, percent) == Measured(u) /\ FreeBelow(u, percent)

\* What the loop finds: the verdict of the worst mount that has a size.
LEMMA UsageLoop ==
  ASSUME NEW seq \in Seq(MountLine)
  PROVE  LET judged == AllUsages([result |-> Result("ok", "high", <<>>), fullest |-> NoUsage], seq)
         IN /\ judged \in DiskJudged
            /\ Measured(judged.fullest) <=> \E k \in 1 .. Len(seq) : Measured(seq[k])
            /\ judged.result.status =
                 IF \E k \in 1 .. Len(seq) : LowOn(seq[k], DiskCritFree) THEN "critical"
                 ELSE IF \E k \in 1 .. Len(seq) : LowOn(seq[k], DiskWarnFree) THEN "warning" ELSE "ok"
  <1> DEFINE n == Len(seq)
             base == [result |-> Result("ok", "high", <<>>), fullest |-> NoUsage]
             judged == AllUsages(base, seq)
             Some(m) == \E k \in 1 .. m : Measured(seq[k])
             Crit(m) == \E k \in 1 .. m : LowOn(seq[k], DiskCritFree)
             Warn(m) == \E k \in 1 .. m : LowOn(seq[k], DiskWarnFree)
             So(b, m) ==
               /\ b \in DiskJudged
               /\ Measured(b.fullest) <=> Some(m)
               /\ b.result.status = IF Crit(m) THEN "critical" ELSE IF Warn(m) THEN "warning" ELSE "ok"
  <1>1. n \in Nat /\ \A k \in 1 .. n : seq[k] \in MountLine
    OBVIOUS
  <1>2. base \in DiskJudged /\ ~Measured(base.fullest) /\ base.result.status = "ok"
    <2>1. Result("ok", "high", <<>>) \in Judgement(MountEvidence) /\ Result("ok", "high", <<>>).status = "ok"
      BY DEF Result, Judgement, Measure, Confidence
    <2>2. NoUsage \in MountLine /\ ~Measured(NoUsage)
      BY DEF NoUsage, MountLine, Name, Pseudo, Optional, Unknown, Measured
    <2>3. QED
      BY <2>1, <2>2 DEF DiskJudged
  <1>3. PICK h : /\ h[0] = base /\ h[n] = judged
                 /\ \A k \in 1 .. n : h[k] = WithUsage(h[k - 1], seq[k])
    <2>1. \E h : /\ DOMAIN h = 0 .. Len(seq) /\ h[0] = base /\ h[Len(seq)] = AllUsages(base, seq)
                 /\ \A k \in 1 .. Len(seq) : h[k] = WithUsage(h[k - 1], seq[k])
      <3> HIDE DEF n, judged, base
      <3>1. QED
        BY <1>2, UsageFold, Zenon
    <2>2. QED
      BY <2>1
  <1> HIDE DEF n, base
  <1> HIDE DEF So
  <1> DEFINE P == {m \in Nat : So(h[m], m)}
  <1>4. 0 \in P
    BY <1>2, <1>3 DEF So
  <1>5. ASSUME NEW m \in 1 .. n, m - 1 \in P PROVE m \in P
    <2> DEFINE b == h[m - 1]
               e == seq[m]
               x == h[m]
    <2>1. So(b, m - 1) /\ m \in Nat
      BY <1>1, <1>5
    <2>2. x = WithUsage(b, e) /\ e \in MountLine /\ b \in DiskJudged
      BY <1>1, <1>3, <2>1 DEF So
    <2>3. m \in 1 .. m /\ (\A k \in 1 .. m : k \in 1 .. m - 1 \/ k = m) /\ (\A k \in 1 .. m - 1 : k \in 1 .. m)
      BY <2>1
    <2> HIDE DEF b, x
    <2>4. /\ x \in DiskJudged
          /\ ~Measured(e) => x = b
          /\ Measured(e) =>
               /\ Measured(x.fullest)
               /\ x.result.status = IF FreeBelow(e, DiskCritFree) THEN "critical"
                                    ELSE IF FreeBelow(e, DiskWarnFree) /\ b.result.status = "ok" THEN "warning"
                                    ELSE b.result.status
      BY <2>2, UsageTurn
    <2>5. /\ Some(m) <=> Some(m - 1) \/ Measured(e)
          /\ Crit(m) <=> Crit(m - 1) \/ LowOn(e, DiskCritFree)
          /\ Warn(m) <=> Warn(m - 1) \/ LowOn(e, DiskWarnFree)
      BY <2>3, Zenon
    <2> HIDE DEF Some, Crit, Warn
    <2>6. /\ Measured(b.fullest) <=> Some(m - 1)
          /\ b.result.status = IF Crit(m - 1) THEN "critical" ELSE IF Warn(m - 1) THEN "warning" ELSE "ok"
      BY <2>1 DEF So
    <2>7. Measured(x.fullest) <=> Some(m)
      BY <2>4, <2>5, <2>6
    <2>8. x.result.status = IF Crit(m) THEN "critical" ELSE IF Warn(m) THEN "warning" ELSE "ok"
      BY <2>4, <2>5, <2>6 DEF LowOn
    <2>9. So(x, m)
      BY <2>4, <2>7, <2>8 DEF So
    <2>10. QED
      BY <2>1, <2>9 DEF x
  <1>6. n \in P
    <2> HIDE DEF P
    <2>1. QED
      BY <1>1, <1>4, <1>5, LoopInduction
  <1>7. So(judged, n)
    BY <1>3, <1>6
  <1>8. QED
    BY <1>7 DEF n, base, So

\* The mounts of the lines that count, and the row of the table for them.
RealLines(seq) == {seq[i] : i \in {i \in 1 .. Len(seq) : Counts(seq, i) /\ Measured(seq[i])}}
DiskGrade(asked, real) ==
    Grade(asked /\ real # {}, \E u \in real : u.free * 20 < u.total,
                              \E u \in real : u.free * 10 < u.total)

\* check_disk_space gives the verdict of the table.
LEMMA DiskVerdict ==
  ASSUME NEW seq \in Seq(MountLine), NEW answer, answer \in {NoData, Data(ListUsage(seq))}
  PROVE  CheckDiskSpace(answer).status = DiskGrade(answer.ok, RealLines(seq))
  <1> DEFINE mount == RealLines(seq)
             list == ListUsage(seq)
             base == [result |-> Result("ok", "high", <<>>), fullest |-> NoUsage]
             judged == AllUsages(base, list)
             Crit(u) == u.free * 20 < u.total
             Warn(u) == u.free * 10 < u.total
  <1>1. CASE answer = NoData
    <2>1. ~answer.ok
      BY <1>1 DEF NoData
    <2>2. CheckDiskSpace(answer) = Skipped("unavailable")
      BY <2>1, Zenon DEF CheckDiskSpace
    <2>3. QED
      BY <2>1, <2>2 DEF Skipped, Grade, DiskGrade
  <1>2. CASE answer = Data(list)
    <2>1. answer.ok = TRUE /\ answer.list = list
      BY <1>2 DEF Data
    <2>2. CheckDiskSpace(answer) =
            IF ~Measured(judged.fullest) THEN Skipped("no-data")
            ELSE [judged.result EXCEPT !.metrics = Append(@, <<"min_free_mount", judged.fullest.mount>>)]
      BY <2>1 DEF CheckDiskSpace, AllUsages
    <2>3. list \in Seq(MountLine)
          /\ ToSet(list) = {seq[i] : i \in {i \in 1 .. Len(seq) : Counts(seq, i)}}
      BY LineLoop
    <2> HIDE DEF list
    <2>4. /\ judged \in DiskJudged
          /\ Measured(judged.fullest) <=> \E k \in 1 .. Len(list) : Measured(list[k])
          /\ judged.result.status =
               IF \E k \in 1 .. Len(list) : LowOn(list[k], DiskCritFree) THEN "critical"
               ELSE IF \E k \in 1 .. Len(list) : LowOn(list[k], DiskWarnFree) THEN "warning" ELSE "ok"
      BY <2>3, UsageLoop
    <2> HIDE DEF judged
    <2>5. ToSet(list) = {list[k] : k \in 1 .. Len(list)}
      BY <2>3 DEF ToSet
    <2>6. mount = {u \in ToSet(list) : Measured(u)} /\ ToSet(list) \subseteq MountLine
      <3>1. mount = {u \in ToSet(list) : Measured(u)}
        BY <2>3 DEF RealLines
      <3>2. ToSet(list) \subseteq MountLine
        BY <2>3, <2>5
      <3>3. QED
        BY <3>1, <3>2
    <2> HIDE DEF mount
    <2>7. ASSUME NEW u \in mount
          PROVE  (FreeBelow(u, DiskCritFree) <=> Crit(u)) /\ (FreeBelow(u, DiskWarnFree) <=> Warn(u))
      <3>1. u.free \in Int /\ u.total \in Int
        BY <2>6, <2>7 DEF MountLine, Optional, Unknown
      <3>2. \A f, t \in Int : (f * 100 < 5 * t <=> f * 20 < t) /\ (f * 100 < 10 * t <=> f * 10 < t)
        OBVIOUS
      <3>3. QED
        BY <3>1, <3>2 DEF FreeBelow, DiskCritFree, DiskWarnFree
    <2>8. /\ Measured(judged.fullest) <=> mount # {}
          /\ (\E k \in 1 .. Len(list) : LowOn(list[k], DiskCritFree)) <=> \E u \in mount : FreeBelow(u, DiskCritFree)
          /\ (\E k \in 1 .. Len(list) : LowOn(list[k], DiskWarnFree)) <=> \E u \in mount : FreeBelow(u, DiskWarnFree)
      BY <2>4, <2>5, <2>6 DEF LowOn
    <2> HIDE DEF Crit, Warn
    <2>9. judged.result.status = IF \E u \in mount : Crit(u) THEN "critical"
                                 ELSE IF \E u \in mount : Warn(u) THEN "warning" ELSE "ok"
      BY <2>4, <2>7, <2>8
    <2>10. CASE mount = {}
      <3>1. CheckDiskSpace(answer).status = "skipped"
        BY <2>2, <2>8, <2>10 DEF Skipped
      <3>2. QED
        BY <2>10, <3>1 DEF Grade, DiskGrade, mount
    <2>11. CASE mount # {}
      <3>1. judged.result \in Judgement(MountEvidence)
        BY <2>4 DEF DiskJudged
      <3>2. CheckDiskSpace(answer) =
              [judged.result EXCEPT !.metrics = Append(@, <<"min_free_mount", judged.fullest.mount>>)]
        BY <2>2, <2>8, <2>11
      <3>3. CheckDiskSpace(answer).status = judged.result.status
        BY <3>1, <3>2 DEF Judgement
      <3>4. QED
        BY <2>1, <2>9, <2>11, <3>3 DEF Grade, DiskGrade, Crit, Warn, mount
    <2>12. QED
      BY <2>10, <2>11
  <1>3. QED
    BY <1>1, <1>2

-----------------------------------------------------------------------------
(* The run.                                                                *)

Stages == {"battery", "drives", "drive", "firmware", "upgrades", "thermal", "disk", "checks", "done", "raised"}
Answers == [kind : {"report"} \cup Failure, report : Drive \cup {NoReport}]

\* What was gathered, of the types the checks expect.
InputsOK ==
    /\ machine \in DOMAIN Machines /\ include \in BOOLEAN /\ stage \in Stages
    /\ wears \in Source(M.batteries) /\ wears.list \in Seq(Battery)
    /\ wears.ok \in BOOLEAN /\ (~wears.ok => wears.list = <<>>)
    /\ temps.list \in Seq(Int) /\ temps.ok \in BOOLEAN /\ (~temps.ok => temps.list = <<>>)
    /\ mounts \in Seq(MountLine) /\ mounts \in M.mounts \cup {<<>>}
    /\ usages = NoData \/ usages = Data(ListUsage(mounts))
    /\ reports.list \in Seq(Drive) /\ reports.ok \in BOOLEAN /\ answers \in Seq(Answers)
    /\ \A i \in 1 .. Len(reports.list) : reports.list[i] \in DriveReport(i)
    /\ skip \in {"not-requested", "unavailable", "declined"}

\* Every disk asked so far answered, and reports holds what it answered.
AllAnswered ==
    /\ include /\ skip = "not-requested" /\ reports.ok
    /\ Len(answers) = Len(reports.list)
    /\ \A i \in 1 .. Len(answers) : answers[i] = Reported(reports.list[i])

\* One LapcareError has discarded the reports.
GivenUp ==
    /\ include /\ reports = NoData
    /\ \/ answers = <<>> /\ skip = "unavailable"
       \/ \E f \in CoreError :
            /\ answers # <<>> /\ answers[Len(answers)] = Failed(f)
            /\ skip = IF f = "denied" THEN "declined" ELSE "unavailable"

NotAsked == ~include /\ reports = NoData /\ skip = "not-requested" /\ answers = <<>>

\* The storage block of run(), from what it has not begun to how it ended.
StorageOK ==
    /\ Len(answers) <= M.drives
    /\ stage \in {"battery", "drives"} =>
         reports = NoData /\ skip = "not-requested" /\ answers = <<>>
    /\ stage = "drive" =>
         /\ AllAnswered
         /\ todo \in Seq(Nat) /\ Len(answers) + Len(todo) <= M.drives
         /\ \A i \in 1 .. Len(todo) : todo[i] = Len(answers) + i
    /\ stage \in {"firmware", "upgrades", "thermal", "disk", "checks", "done"} =>
         AllAnswered \/ GivenUp \/ NotAsked

\* The checks are made once, of what was gathered.
OutcomeOK ==
    /\ stage # "done" => results = <<>> /\ total = NoScore
    /\ stage = "done" =>
        /\ results = <<CheckBatteryWear(wears), CheckStorageHealth(reports, skip),
                       CheckFirmwareCurrency(pending), CheckThermal(temps), CheckDiskSpace(usages)>>
        /\ total = Score(results)

Inv == InputsOK /\ StorageOK /\ OutcomeOK /\ PromptsWhenAsked

\* The machine of the run is one of the assumption.
LEMMA MachineType == ASSUME machine \in DOMAIN Machines PROVE M \in Machine
  BY MachinesAssumption DEF M

LEMMA InitInv == Init => Inv
  <1> SUFFICES ASSUME Init PROVE Inv
    OBVIOUS
  <1>1. M \in Machine
    BY MachineType DEF Init
  <1>2. M.drives \in Nat /\ wears \in Source(M.batteries) /\ stage = "battery" /\ answers = <<>>
    BY <1>1 DEF Init, Machine, Source
  <1>3. wears.list = <<>> /\ wears.ok = FALSE /\ temps.list = <<>> /\ temps.ok = FALSE
          /\ reports.list = <<>> /\ reports.ok = FALSE
    BY DEF Init, NoData
  <1>a. Len(reports.list) = 0 /\ reports.list \in Seq(Drive) /\ temps.list \in Seq(Int)
          /\ wears.list \in Seq(Battery) /\ answers \in Seq(Answers)
    BY <1>2, <1>3
  <1>b. /\ mounts = <<>> /\ usages = NoData /\ skip = "not-requested"
        /\ machine \in DOMAIN Machines /\ include \in BOOLEAN
    BY DEF Init
  <1>c. mounts \in Seq(MountLine) /\ mounts \in M.mounts \cup {<<>>}
    BY <1>b
  <1>d. \A i \in 1 .. Len(reports.list) : reports.list[i] \in DriveReport(i)
    BY <1>a
  <1>4. InputsOK
    BY <1>2, <1>3, <1>a, <1>b, <1>c, <1>d DEF InputsOK, Stages
  <1>5. StorageOK
    BY <1>2 DEF Init, StorageOK
  <1>6. OutcomeOK /\ PromptsWhenAsked
    BY <1>2 DEF Init, OutcomeOK, PromptsWhenAsked
  <1>7. QED
    BY <1>4, <1>5, <1>6 DEF Inv

\* A source that is one call answers nothing or one of its lists.
LEMMA SourceType ==
  ASSUME NEW S, NEW lists \in SUBSET Seq(S), NEW x \in Source(lists)
  PROVE  x.list \in Seq(S) /\ x.ok \in BOOLEAN /\ (~x.ok => x.list = <<>>)
  <1>1. CASE x = NoData
    BY <1>1 DEF NoData
  <1>2. CASE x # NoData
    <2>1. PICK list \in lists : x = Data(list)
      BY <1>2 DEF Source
    <2>2. x.list = list /\ x.ok = TRUE
      BY <2>1 DEF Data
    <2>3. QED
      BY <2>2
  <1>3. QED
    BY <1>1, <1>2

\* A step that leaves the storage block and the outcome as they are.
LEMMA Elsewhere ==
  ASSUME Inv, InputsOK', UNCHANGED <<machine, include, reports, skip, answers, results, total>>,
         stage' \in {"firmware", "upgrades", "thermal", "disk", "checks"},
         stage \in {"firmware", "upgrades", "thermal", "disk"}
  PROVE  Inv'
  <1>1. AllAnswered' = AllAnswered /\ GivenUp' = GivenUp /\ NotAsked' = NotAsked /\ M' = M
    BY DEF AllAnswered, GivenUp, NotAsked, M
  <1>2. StorageOK'
    BY <1>1 DEF Inv, StorageOK
  <1>3. OutcomeOK' /\ PromptsWhenAsked'
    BY DEF Inv, OutcomeOK, PromptsWhenAsked
  <1>4. QED
    BY <1>2, <1>3 DEF Inv

LEMMA BatteryStep == ASSUME Inv, GatherBattery PROVE Inv'
  <1>1. M' = M /\ M.batteries \in SUBSET Seq(Battery)
    BY MachineType DEF GatherBattery, M, Machine, Battery, Inv, InputsOK
  <1>2. wears' \in Source(M.batteries)
    BY DEF GatherBattery
  <1>3. wears'.list \in Seq(Battery) /\ wears'.ok \in BOOLEAN /\ (~wears'.ok => wears'.list = <<>>)
    BY <1>1, <1>2, SourceType
  <1>4. InputsOK'
    BY <1>1, <1>2, <1>3 DEF GatherBattery, Inv, InputsOK, Stages, DriveReport
  <1>5. StorageOK'
    BY <1>1 DEF GatherBattery, Inv, StorageOK
  <1>6. OutcomeOK' /\ PromptsWhenAsked'
    BY DEF GatherBattery, Inv, OutcomeOK, PromptsWhenAsked
  <1>7. QED
    BY <1>4, <1>5, <1>6 DEF Inv

LEMMA ListDrivesStep == ASSUME Inv, ListDrives PROVE Inv'
  <1>1. M' = M /\ M.drives \in Nat
    BY MachineType DEF ListDrives, M, Machine, Inv, InputsOK
  <1>2. /\ stage = "drives" /\ reports = NoData /\ skip = "not-requested" /\ answers = <<>>
        /\ UNCHANGED <<machine, include, wears, temps, usages, results, total, answers, mounts>>
    BY DEF ListDrives, Inv, StorageOK
  <1>a. OutcomeOK' /\ PromptsWhenAsked'
    BY <1>2 DEF ListDrives, Inv, OutcomeOK, PromptsWhenAsked
  <1>3. CASE stage' = "firmware"
    <2>1. reports' = NoData /\ (NotAsked \/ GivenUp)' /\ skip' \in {"not-requested", "unavailable"}
      BY <1>2, <1>3 DEF ListDrives, NotAsked, GivenUp
    <2>2. reports'.list = <<>> /\ reports'.ok = FALSE
      BY <2>1 DEF NoData
    <2>3. InputsOK'
      BY <1>1, <1>2, <1>3, <2>1, <2>2 DEF Inv, InputsOK, Stages
    <2>4. StorageOK'
      BY <1>1, <1>2, <1>3, <2>1 DEF StorageOK
    <2>5. QED
      BY <1>a, <2>3, <2>4 DEF Inv
  <1>4. CASE stage' # "firmware"
    <2>1. PICK n \in 0 .. M.drives : todo' = [i \in 1 .. n |-> i]
      BY <1>4 DEF ListDrives
    <2>2. include /\ stage' = "drive" /\ reports' = Data(<<>>) /\ skip' = skip
      BY <1>4 DEF ListDrives
    <2>3. reports'.list = <<>> /\ reports'.ok
      BY <2>2 DEF Data
    <2>4. reports'.ok = TRUE
      BY <2>2 DEF Data
    <2>a. reports'.list \in Seq(Drive) /\ Len(reports'.list) = 0
      BY <2>3
    <2>b. (\A i \in 1 .. Len(reports.list) : reports.list[i] \in DriveReport(i))'
      BY <2>a
    <2>5. InputsOK'
      BY <1>1, <1>2, <2>2, <2>4, <2>a, <2>b DEF Inv, InputsOK, Stages
    <2>6. todo' \in Seq(Nat) /\ Len(todo') = n /\ \A i \in 1 .. n : todo'[i] = i
      BY <1>1, <2>1
    <2>7. AllAnswered'
      BY <1>2, <2>2, <2>3 DEF AllAnswered
    <2>8. Len(answers') = 0 /\ n \in Nat /\ n <= M.drives
      BY <1>1, <1>2
    <2>9. StorageOK'
      BY <1>1, <2>2, <2>6, <2>7, <2>8 DEF StorageOK
    <2>10. QED
      BY <1>a, <2>5, <2>9 DEF Inv
  <1>5. QED
    BY <1>3, <1>4

\* What holds while the disks are read.
LEMMA Reading ==
  ASSUME Inv, stage = "drive"
  PROVE  /\ include = TRUE /\ skip = "not-requested" /\ reports.ok = TRUE
         /\ reports.list \in Seq(Drive) /\ answers \in Seq(Answers) /\ todo \in Seq(Nat)
         /\ Len(answers) = Len(reports.list) /\ Len(answers) + Len(todo) <= M.drives
         /\ \A i \in 1 .. Len(answers) : answers[i] = Reported(reports.list[i])
         /\ \A i \in 1 .. Len(todo) : todo[i] = Len(answers) + i
         /\ M.drives \in Nat
  <1>1. M.drives \in Nat
    BY MachineType DEF Inv, InputsOK, Machine
  <1>2. AllAnswered /\ include \in BOOLEAN /\ reports.ok \in BOOLEAN
    BY DEF Inv, InputsOK, StorageOK
  <1>3. QED
    BY <1>1, <1>2 DEF Inv, InputsOK, StorageOK, AllAnswered

\* What a disk of this machine may say of itself is a report of it.
LEMMA ReportType == ASSUME M \in Machine, NEW d \in Nat, NEW r \in DriveReport(d) PROVE r \in Drive /\ r.disk = d
  <1>1. PICK h \in M.health : r = [disk |-> d, verdict |-> h.verdict, pending |-> h.pending, used |-> h.used]
    BY DEF DriveReport
  <1>2. h \in [verdict : Verdict, pending : Optional, used : Optional]
    BY DEF Machine
  <1>3. QED
    BY <1>1, <1>2 DEF Drive

LEMMA ReportedKind == \A r : Reported(r).kind = "report"
  BY DEF Reported

LEMMA ReadDriveStep == ASSUME Inv, ReadDrive PROVE Inv'
  <1>1. M' = M /\ M \in Machine /\ stage = "drive" /\ stage' = stage /\ todo # <<>>
    BY MachineType DEF ReadDrive, M, Inv, InputsOK
  <1> DEFINE list == reports.list
             n == Len(list)
  <1>2. PICK r \in DriveReport(Head(todo)) :
          reports' = Data(Append(reports.list, r)) /\ answers' = Append(answers, Reported(r))
    BY DEF ReadDrive
  <1>3. todo' = Tail(todo) /\ UNCHANGED <<machine, include, wears, skip, temps, usages, results, total, mounts>>
    BY DEF ReadDrive
  <1>4. /\ n \in Nat /\ Len(answers) = n /\ list \in Seq(Drive) /\ Len(todo) \in Nat \ {0} /\ Head(todo) = n + 1
    <2>1. n \in Nat /\ Len(answers) = n /\ list \in Seq(Drive) /\ todo \in Seq(Nat)
      BY <1>1, Reading
    <2>2. Len(todo) \in Nat \ {0} /\ Head(todo) = todo[1]
      BY <1>1, <2>1
    <2>3. todo[1] = Len(answers) + 1
      BY <1>1, <2>2, Reading
    <2>4. QED
      BY <2>1, <2>2, <2>3
  <1>5. r \in Drive /\ reports'.ok = TRUE /\ reports'.list = Append(list, r)
    BY <1>1, <1>2, <1>4, ReportType DEF Data
  <1>6. reports'.list \in Seq(Drive) /\ Len(reports'.list) = n + 1
    BY <1>4, <1>5
  <1>7. Reported(r) \in Answers
    BY <1>5 DEF Reported, Answers
  <1>8. answers' \in Seq(Answers) /\ Len(answers') = n + 1
    BY <1>1, <1>2, <1>4, <1>7, Reading
  <1>9. (\A i \in 1 .. Len(reports.list) : reports.list[i] \in DriveReport(i))'
    <2>1. ASSUME NEW i \in 1 .. n + 1 PROVE reports'.list[i] \in DriveReport(i)
      <3>1. CASE i \in 1 .. n
        <4>1. reports'.list[i] = list[i]
          BY <1>4, <1>5, <3>1
        <4>2. QED
          BY <4>1, <3>1 DEF Inv, InputsOK
      <3>2. CASE i = n + 1
        <4>1. reports'.list[i] = r
          BY <1>4, <1>5, <3>2
        <4>2. QED
          BY <1>2, <1>4, <4>1, <3>2
      <3>3. QED
        BY <1>4, <3>1, <3>2
    <2>2. DriveReport(1)' = DriveReport(1) /\ \A i \in Nat : DriveReport(i)' = DriveReport(i)
      BY <1>1 DEF DriveReport
    <2>3. QED
      BY <1>6, <2>1, <2>2, <1>1 DEF DriveReport
  <1>10. InputsOK'
    BY <1>1, <1>3, <1>5, <1>6, <1>8, <1>9 DEF Inv, InputsOK
  <1>11. \A i \in 1 .. n + 1 : answers'[i] = Reported(reports'.list[i])
    <2>1. ASSUME NEW i \in 1 .. n + 1 PROVE answers'[i] = Reported(reports'.list[i])
      <3>1. CASE i \in 1 .. n
        <4>1. reports'.list[i] = list[i]
          BY <1>4, <1>5, <3>1
        <4>2. answers'[i] = answers[i] /\ answers[i] = Reported(list[i])
          BY <1>1, <1>2, <1>4, <3>1, Reading
        <4>3. QED
          BY <4>1, <4>2
      <3>2. CASE i = n + 1
        <4>1. reports'.list[i] = r
          BY <1>4, <1>5, <3>2
        <4>2. answers'[i] = Reported(r)
          BY <1>1, <1>2, <1>4, <3>2, Reading
        <4>3. QED
          BY <4>1, <4>2
      <3>3. QED
        BY <1>4, <3>1, <3>2
    <2>2. QED
      BY <2>1
  <1>12. AllAnswered'
    BY <1>1, <1>3, <1>5, <1>6, <1>8, <1>11, Reading DEF AllAnswered
  <1>13. /\ todo' \in Seq(Nat) /\ Len(todo') = Len(todo) - 1
         /\ \A i \in 1 .. Len(todo') : todo'[i] = n + 1 + i
    BY <1>1, <1>3, <1>4, Reading
  <1>14. Len(answers') + Len(todo') <= M.drives /\ Len(answers') <= M.drives
    BY <1>1, <1>4, <1>8, <1>13, Reading
  <1>15. StorageOK'
    BY <1>1, <1>8, <1>12, <1>13, <1>14 DEF StorageOK
  <1>16. OutcomeOK'
    BY <1>1, <1>3 DEF Inv, OutcomeOK
  <1>17. PromptsWhenAsked'
    <2>1. include' = TRUE
      BY <1>1, <1>3, Reading
    <2>2. \A i \in 1 .. n : answers'[i].kind = "report"
      BY <1>4, <1>11, ReportedKind
    <2>3. QED
      BY <1>4, <1>8, <2>1, <2>2 DEF PromptsWhenAsked
  <1>18. QED
    BY <1>10, <1>15, <1>16, <1>17 DEF Inv

\* The disk asked next does not answer: answers grows by a failure.
LEMMA FailureAdded ==
  ASSUME Inv, stage = "drive", todo # <<>>, NEW f \in Failure
  PROVE  LET more == Append(answers, Failed(f))
         IN /\ more \in Seq(Answers) /\ more # <<>> /\ more[Len(more)] = Failed(f)
            /\ Len(more) <= M.drives
            /\ \A i \in 1 .. Len(more) - 1 : more[i].kind = "report"
  <1> DEFINE more == Append(answers, Failed(f))
             n == Len(answers)
  <1>1. answers \in Seq(Answers) /\ todo \in Seq(Nat) /\ n \in Nat /\ n + Len(todo) <= M.drives /\ M.drives \in Nat
    BY Reading
  <1>2. \A i \in 1 .. n : answers[i].kind = "report"
    BY Reading, ReportedKind
  <1>3. Failed(f) \in Answers
    BY DEF Failed, Answers
  <1>4. Len(todo) \in Nat \ {0}
    BY <1>1
  <1>5. more \in Seq(Answers) /\ Len(more) = n + 1 /\ more[n + 1] = Failed(f)
          /\ \A i \in 1 .. n : more[i] = answers[i]
    BY <1>1, <1>3
  <1> HIDE DEF more, n
  <1>6. more # <<>> /\ n + 1 <= M.drives /\ (n + 1) - 1 = n
    BY <1>1, <1>4, <1>5
  <1>7. QED
    BY <1>2, <1>5, <1>6 DEF more, n

LEMMA DriveFailsStep == ASSUME Inv, DriveFails PROVE Inv'
  <1>1. M' = M /\ M \in Machine /\ stage = "drive" /\ stage' = "firmware" /\ todo # <<>>
    BY MachineType DEF DriveFails, M, Inv, InputsOK
  <1>2. PICK f \in CoreError : /\ answers' = Append(answers, Failed(f))
                               /\ skip' = IF f = "denied" THEN "declined" ELSE "unavailable"
    BY DEF DriveFails
  <1>3. reports' = NoData /\ UNCHANGED <<machine, include, wears, temps, usages, results, total, mounts>>
    BY DEF DriveFails
  <1>4. f \in Failure
    BY DEF Failure
  <1>5. /\ answers' \in Seq(Answers) /\ answers' # <<>> /\ answers'[Len(answers')] = Failed(f)
        /\ Len(answers') <= M.drives
        /\ \A i \in 1 .. Len(answers') - 1 : answers'[i].kind = "report"
    BY <1>1, <1>2, <1>4, FailureAdded
  <1>6. include' = TRUE
    BY <1>1, <1>3, Reading
  <1>7. reports'.list = <<>> /\ reports'.ok = FALSE
    BY <1>3 DEF NoData
  <1>8. reports'.list \in Seq(Drive) /\ Len(reports'.list) = 0
    BY <1>7
  <1>9. (\A i \in 1 .. Len(reports.list) : reports.list[i] \in DriveReport(i))'
    BY <1>8
  <1>10. skip' \in {"unavailable", "declined"}
    BY <1>2
  <1>11. InputsOK'
    BY <1>1, <1>3, <1>5, <1>6, <1>7, <1>8, <1>9, <1>10 DEF Inv, InputsOK, Stages
  <1>12. GivenUp'
    BY <1>2, <1>3, <1>5, <1>6 DEF GivenUp
  <1>13. StorageOK'
    BY <1>1, <1>5, <1>12 DEF StorageOK
  <1>14. OutcomeOK' /\ PromptsWhenAsked'
    BY <1>1, <1>3, <1>5, <1>6 DEF Inv, OutcomeOK, PromptsWhenAsked
  <1>15. QED
    BY <1>11, <1>13, <1>14 DEF Inv

LEMMA DriveRaisesStep == ASSUME Inv, DriveRaises PROVE Inv'
  <1>1. M' = M /\ stage = "drive" /\ stage' = "raised" /\ todo # <<>> /\ answers' = Append(answers, Failed("oserror"))
    BY DEF DriveRaises, M
  <1>2. UNCHANGED <<machine, include, inputVars, results, total, mounts>>
    BY DEF DriveRaises
  <1>3. "oserror" \in Failure
    BY DEF Failure
  <1>4. /\ answers' \in Seq(Answers) /\ Len(answers') <= M.drives
        /\ \A i \in 1 .. Len(answers') - 1 : answers'[i].kind = "report"
    BY <1>1, <1>3, FailureAdded
  <1>5. include' = TRUE
    BY <1>1, <1>2, Reading
  <1>6. InputsOK'
    BY <1>1, <1>2, <1>4 DEF Inv, InputsOK, inputVars, Stages, DriveReport
  <1>7. StorageOK'
    BY <1>1, <1>4 DEF StorageOK
  <1>8. OutcomeOK' /\ PromptsWhenAsked'
    BY <1>1, <1>2, <1>4, <1>5 DEF Inv, OutcomeOK, PromptsWhenAsked
  <1>9. QED
    BY <1>6, <1>7, <1>8 DEF Inv

LEMMA DrivesReadStep == ASSUME Inv, DrivesRead PROVE Inv'
  <1>1. M' = M /\ stage = "drive" /\ stage' = "firmware"
    BY DEF DrivesRead, M
  <1>2. UNCHANGED <<machine, include, inputVars, results, total, answers, mounts>>
    BY DEF DrivesRead
  <1>3. InputsOK'
    BY <1>1, <1>2 DEF Inv, InputsOK, inputVars, Stages, DriveReport
  <1>4. AllAnswered'
    BY <1>1, <1>2 DEF Inv, StorageOK, AllAnswered, inputVars
  <1>5. StorageOK'
    BY <1>1, <1>2, <1>4 DEF Inv, StorageOK
  <1>6. OutcomeOK' /\ PromptsWhenAsked'
    BY <1>1, <1>2 DEF Inv, OutcomeOK, PromptsWhenAsked
  <1>7. QED
    BY <1>3, <1>5, <1>6 DEF Inv

LEMMA FirmwareStep == ASSUME Inv, ListFirmware \/ ListUpgrades \/ UpgradesListed PROVE Inv'
  <1>1. /\ UNCHANGED <<machine, include, wears, reports, skip, temps, usages, answers, results, total, mounts>>
        /\ stage \in {"firmware", "upgrades"} /\ stage' \in {"upgrades", "thermal"}
    BY DEF ListFirmware, ListUpgrades, UpgradesListed, inputVars
  <1>2. InputsOK'
    BY <1>1 DEF Inv, InputsOK, M, Stages, DriveReport
  <1>3. QED
    BY <1>1, <1>2, Elsewhere

LEMMA TempsStep == ASSUME Inv, GatherTemps PROVE Inv'
  <1>1. /\ UNCHANGED <<machine, include, wears, reports, skip, usages, answers, results, total, mounts>>
        /\ stage = "thermal" /\ stage' = "disk"
    BY DEF GatherTemps
  <1>2. M.temps \in SUBSET Seq(Int)
    BY MachineType DEF Inv, InputsOK, Machine
  <1> DEFINE lists == {ListTemperatures(slots) : slots \in M.temps}
  <1>3. lists \in SUBSET Seq(Int)
    BY <1>2, ReadingsType
  <1>4. temps' \in Source(lists)
    BY DEF GatherTemps
  <1> HIDE DEF lists
  <1>5. temps'.list \in Seq(Int) /\ temps'.ok \in BOOLEAN /\ (~temps'.ok => temps'.list = <<>>)
    BY <1>3, <1>4, SourceType
  <1>6. InputsOK'
    BY <1>1, <1>5 DEF Inv, InputsOK, M, Stages, DriveReport
  <1>7. QED
    BY <1>1, <1>6, Elsewhere

LEMMA UsageStep == ASSUME Inv, GatherUsage PROVE Inv'
  <1>1. /\ UNCHANGED <<machine, include, wears, reports, skip, temps, answers, results, total>>
        /\ stage = "disk" /\ stage' = "checks" /\ M' = M
    BY DEF GatherUsage, M
  <1>2. M.mounts \in SUBSET Seq(MountLine)
    <2> DEFINE L == [source : STRING, mount : STRING, free : Optional, total : Nat]
    <2>1. M.mounts \in SUBSET Seq(L)
      BY MachineType DEF Inv, InputsOK, Machine
    <2>2. L \subseteq MountLine
      BY DEF MountLine, Name
    <2> HIDE DEF L
    <2>3. \A s \in Seq(L) : s \in Seq(MountLine)
      BY <2>2
    <2>4. QED
      BY <2>1, <2>3
  <1>3. /\ mounts' \in Seq(MountLine) /\ mounts' \in M.mounts \cup {<<>>}
        /\ usages' = NoData \/ usages' = Data(ListUsage(mounts'))
    BY <1>2 DEF GatherUsage, Inv, InputsOK
  <1>4. InputsOK'
    BY <1>1, <1>3 DEF Inv, InputsOK, Stages, DriveReport
  <1>5. QED
    BY <1>1, <1>4, Elsewhere

LEMMA ChecksStep == ASSUME Inv, Checks PROVE Inv'
  <1>1. UNCHANGED <<machine, include, inputVars, answers, mounts>> /\ stage = "checks" /\ stage' = "done"
    BY DEF Checks
  <1>2. InputsOK' /\ PromptsWhenAsked'
    BY <1>1 DEF Inv, InputsOK, inputVars, M, Stages, DriveReport, PromptsWhenAsked
  <1>3. AllAnswered' = AllAnswered /\ GivenUp' = GivenUp /\ NotAsked' = NotAsked /\ M' = M
    BY <1>1 DEF AllAnswered, GivenUp, NotAsked, M, inputVars
  <1>4. StorageOK'
    BY <1>1, <1>3 DEF Inv, StorageOK
  <1>5. OutcomeOK'
    BY <1>1 DEF Checks, OutcomeOK, inputVars
  <1>6. QED
    BY <1>2, <1>4, <1>5 DEF Inv

LEMMA InvStep == Inv /\ [Next]_vars => Inv'
  <1>1. ASSUME Inv, UNCHANGED vars PROVE Inv'
    <2>1. InputsOK' /\ PromptsWhenAsked'
      BY <1>1 DEF vars, Inv, InputsOK, M, DriveReport, PromptsWhenAsked
    <2>2. StorageOK' /\ OutcomeOK'
      BY <1>1 DEF vars, Inv, StorageOK, OutcomeOK, M, AllAnswered, GivenUp, NotAsked
    <2>3. QED
      BY <2>1, <2>2 DEF Inv
  <1>2. QED
    BY <1>1, BatteryStep, ListDrivesStep, ReadDriveStep, DriveFailsStep, DriveRaisesStep,
      DrivesReadStep,
       FirmwareStep, TempsStep, UsageStep, ChecksStep DEF Next

\* The inductive invariant: the types, how far the storage block has come and
\* how it ended, and the checks made of what was gathered.
THEOREM RunInvHolds == Spec => []Inv
  BY InitInv, InvStep, PTL DEF Spec

\* run() reads no disk that it was not asked to read, and after one read that
\* failed it asks for no further disk.
THEOREM PromptsOnlyWhenAsked == Spec => []PromptsWhenAsked
  <1>1. Inv => PromptsWhenAsked
    BY DEF Inv
  <1>2. QED
    BY <1>1, RunInvHolds, PTL

\* What check_storage_health makes of reports it was given.
LEMMA StorageResult ==
  ASSUME NEW list \in Seq(Drive), list # <<>>, NEW code
  PROVE  LET result == CheckStorageHealth([ok |-> TRUE, list |-> list], code)
         IN /\ result.status = IF \E k \in 1 .. Len(list) : Failing(list[k]) THEN "critical"
                               ELSE IF \E k \in 1 .. Len(list) : Worn(list[k]) THEN "warning" ELSE "ok"
            /\ result \in Judgement(DriveEvidence)
            /\ \A k \in 1 .. Len(list) : Failing(list[k]) =>
                 \E i \in DOMAIN result.metrics : result.metrics[i] = <<"failing_device", list[k].disk>>
  <1>1. CheckStorageHealth([ok |-> TRUE, list |-> list], code)
          = AllReports(Result("ok", "high", <<>>), list)
    BY DEF CheckStorageHealth, AllReports
  <1>2. QED
    BY <1>1, ReportLoop

\* How the storage block ended, and what its result is, when the run is done.
LEMMA StorageOutcome ==
  ASSUME Inv, stage = "done"
  PROVE  \/ /\ AllAnswered /\ reports.list # <<>>
            /\ results[2] = CheckStorageHealth([ok |-> TRUE, list |-> reports.list], skip)
            /\ results[2] \in Judgement(DriveEvidence) /\ results[2].status # "skipped"
         \/ AllAnswered /\ reports.list = <<>> /\ results[2] = Skipped("no-data")
         \/ (GivenUp \/ NotAsked) /\ results[2] = Skipped(skip)
  <1>1. results[2] = CheckStorageHealth(reports, skip)
    BY DEF Inv, OutcomeOK
  <1>2. CASE GivenUp \/ NotAsked
    <2>1. ~reports.ok
      BY <1>2 DEF GivenUp, NotAsked, NoData
    <2>2. CheckStorageHealth(reports, skip) = Skipped(skip)
      BY <2>1, Zenon DEF CheckStorageHealth
    <2>3. QED
      BY <1>1, <1>2, <2>2
  <1>3. CASE AllAnswered /\ reports.list = <<>>
    <2>1. reports.ok
      BY <1>3 DEF AllAnswered
    <2>2. CheckStorageHealth(reports, skip) = Skipped("no-data")
      BY <1>3, <2>1, Zenon DEF CheckStorageHealth
    <2>3. QED
      BY <1>1, <1>3, <2>2
  <1>4. CASE AllAnswered /\ reports.list # <<>>
    <2>1. reports.ok /\ reports.list \in Seq(Drive)
      BY <1>4 DEF AllAnswered, Inv, InputsOK
    <2> DEFINE given == [ok |-> TRUE, list |-> reports.list]
    <2>2. CheckStorageHealth(reports, skip) = AllReports(Result("ok", "high", <<>>), reports.list)
      BY <1>4, <2>1, Zenon DEF CheckStorageHealth, AllReports
    <2>3. CheckStorageHealth(given, skip) = AllReports(Result("ok", "high", <<>>), reports.list)
      BY <1>4 DEF CheckStorageHealth, AllReports
    <2>4. CheckStorageHealth(given, skip) \in Judgement(DriveEvidence)
      BY <1>4, <2>1, StorageResult
    <2>5. results[2] \in Judgement(DriveEvidence) /\ results[2] = CheckStorageHealth(given, skip)
      BY <1>1, <2>2, <2>3, <2>4
    <2>6. results[2].status # "skipped"
      BY <2>5 DEF Judgement, Measure
    <2>7. QED
      BY <1>4, <2>5, <2>6
  <1>5. QED
    BY <1>2, <1>3, <1>4 DEF Inv, StorageOK

\* A skipped storage check says why: it was not asked for, declined, there was
\* no disk, or the source failed.
THEOREM SkipCodeIsTheReason == Spec => []SkipSaysWhy
  <1>1. ASSUME Inv, stage = "done", results[2].status = "skipped"
        PROVE  LET why == results[2].skip
                   declined == answers # <<>> /\ Last(answers).kind = "denied"
               IN /\ (why = "not-requested") = ~include
                  /\ (why = "declined") = declined
                  /\ why = "no-data" => reports.ok /\ answers = <<>>
    <2>1. include \in BOOLEAN /\ answers \in Seq(Answers)
      BY <1>1 DEF Inv, InputsOK
    <2>2. Last(answers) = answers[Len(answers)]
      BY DEF Last
    <2>3. CASE AllAnswered /\ reports.list = <<>> /\ results[2] = Skipped("no-data")
      <3>1. results[2].skip = "no-data" /\ answers = <<>> /\ include /\ reports.ok
        BY <2>1, <2>3 DEF Skipped, AllAnswered
      <3>2. QED
        BY <3>1
    <2>4. CASE NotAsked /\ results[2] = Skipped(skip)
      <3>1. results[2].skip = "not-requested" /\ answers = <<>> /\ ~include
        BY <2>4 DEF Skipped, NotAsked
      <3>2. QED
        BY <3>1
    <2>5. CASE GivenUp /\ results[2] = Skipped(skip)
      <3>1. results[2].skip = skip /\ include
        BY <2>5 DEF Skipped, GivenUp
      <3>2. CASE answers = <<>> /\ skip = "unavailable"
        BY <3>1, <3>2
      <3>3. CASE ~(answers = <<>> /\ skip = "unavailable")
        <4>1. PICK f \in CoreError :
                /\ answers # <<>> /\ answers[Len(answers)] = Failed(f)
                /\ skip = IF f = "denied" THEN "declined" ELSE "unavailable"
          BY <2>5, <3>3 DEF GivenUp
        <4>2. Last(answers).kind = f
          BY <2>2, <4>1 DEF Failed
        <4>3. QED
          BY <3>1, <4>1, <4>2
      <3>4. QED
        BY <3>2, <3>3
    <2>6. QED
      BY <1>1, <2>3, <2>4, <2>5, StorageOutcome
  <1>2. Inv => SkipSaysWhy
    BY <1>1 DEF SkipSaysWhy
  <1>3. QED
    BY <1>2, RunInvHolds, PTL

\* A storage verdict is never one of some of the disks: every one that was
\* listed answered, and each that fails is named in the evidence.
THEOREM EvidenceNamesEveryFailingDrive == Spec => []EvidenceIsComplete
  <1>1. ASSUME Inv, stage = "done", results[2].status # "skipped"
        PROVE  /\ \A a \in ToSet(answers) : a.kind = "report"
               /\ \A a \in ToSet(answers) : a.report.verdict = "failing" =>
                    <<"failing_device", a.report.disk>> \in ToSet(results[2].metrics)
    <2>1. /\ AllAnswered /\ reports.list # <<>>
          /\ results[2] = CheckStorageHealth([ok |-> TRUE, list |-> reports.list], skip)
      BY <1>1, StorageOutcome DEF Skipped
    <2>2. reports.list \in Seq(Drive) /\ answers \in Seq(Answers)
      BY <1>1 DEF Inv, InputsOK
    <2>3. ASSUME NEW a \in ToSet(answers)
          PROVE  \E k \in 1 .. Len(reports.list) : a = Reported(reports.list[k])
      <3>1. PICK k \in DOMAIN answers : a = answers[k]
        BY DEF ToSet
      <3>2. k \in 1 .. Len(answers)
        BY <2>2
      <3>3. QED
        BY <2>1, <3>1, <3>2 DEF AllAnswered
    <2>4. ASSUME NEW a \in ToSet(answers), a.report.verdict = "failing"
          PROVE  <<"failing_device", a.report.disk>> \in ToSet(results[2].metrics)
      <3>1. PICK k \in 1 .. Len(reports.list) : a = Reported(reports.list[k])
        BY <2>3
      <3>2. a.report = reports.list[k]
        BY <3>1 DEF Reported
      <3>3. Failing(reports.list[k])
        BY <2>4, <3>2 DEF Failing
      <3>4. PICK i \in DOMAIN results[2].metrics :
              results[2].metrics[i] = <<"failing_device", reports.list[k].disk>>
        <4> DEFINE list == reports.list
                   judged == CheckStorageHealth([ok |-> TRUE, list |-> list], skip)
        <4>1. list \in Seq(Drive) /\ list # <<>> /\ results[2] = judged
          BY <2>1, <2>2
        <4> HIDE DEF list
        <4>2. \A j \in 1 .. Len(list) : Failing(list[j]) =>
                \E i \in DOMAIN judged.metrics : judged.metrics[i] = <<"failing_device", list[j].disk>>
          BY <4>1, StorageResult
        <4> HIDE DEF judged
        <4>3. QED
          BY <4>1, <4>2, <3>3 DEF list
      <3>5. QED
        BY <3>2, <3>4 DEF ToSet
    <2>5. QED
      BY <2>3, <2>4, ReportedKind
  <1>2. Inv => EvidenceIsComplete
    BY <1>1 DEF EvidenceIsComplete
  <1>3. QED
    BY <1>2, RunInvHolds, PTL

\* The five verdicts of a finished run, of what it gathered.
LEMMA Verdicts ==
  ASSUME Inv, stage = "done"
  PROVE  /\ [i \in 1 .. 5 |-> results[i].status] = Verdict5
         /\ \A i \in 1 .. 5 : results[i].status \in Status
  <1> DEFINE battery == {b \in ToSet(wears.list) : WearKnown(b)}
             drive == ToSet(reports.list)
             sensor == {t \in ToSet(temps.list) : 1 < t /\ t < 119}
             mount == {mounts[i] : i \in {i \in DOMAIN mounts : RealMount(i)}}
             Grade1 == Grade(battery # {}, \E b \in battery : b.full * 10 <= 7 * b.design,
                                           \E b \in battery : b.full * 20 <= 17 * b.design)
             Grade2 == Grade(drive # {}, \E r \in drive : r.verdict = "failing",
                                         \E r \in drive : r.pending > 0 \/ r.used >= 80)
             Grade3 == Grade(pending.ok, "critical" \in ToSet(pending.list), pending.list # <<>>)
             Grade4 == Grade(sensor # {}, \E t \in sensor : t >= 95, \E t \in sensor : t >= 85)
             Grade5 == Grade(usages.ok /\ mount # {}, \E u \in mount : u.free * 20 < u.total,
                                                      \E u \in mount : u.free * 10 < u.total)
  <1>1. Verdict5 = <<Grade1, Grade2, Grade3, Grade4, Grade5>>
    BY DEF Verdict5, Grade
  <1>2. results = <<CheckBatteryWear(wears), CheckStorageHealth(reports, skip),
                    CheckFirmwareCurrency(pending), CheckThermal(temps), CheckDiskSpace(usages)>>
    BY DEF Inv, OutcomeOK
  <1>3. CheckBatteryWear(wears).status = Grade1
    BY BatteryVerdict DEF Inv, InputsOK
  <1>4. results[2].status = Grade2
    <2> DEFINE list == reports.list
    <2>1. list \in Seq(Drive)
      BY DEF Inv, InputsOK
    <2>2. CASE list = <<>>
      <3>1. drive = {}
        BY <2>2 DEF ToSet
      <3>2. results[2].status = "skipped"
        BY <2>2, StorageOutcome DEF Skipped
      <3>3. QED
        BY <3>1, <3>2 DEF Grade
    <2>3. CASE list # <<>>
      <3>1. results[2] = CheckStorageHealth([ok |-> TRUE, list |-> list], skip)
        BY <2>3, StorageOutcome DEF GivenUp, NotAsked, NoData
      <3>2. drive = {list[k] : k \in 1 .. Len(list)} /\ 1 \in 1 .. Len(list)
        BY <2>1, <2>3 DEF ToSet
      <3> HIDE DEF list
      <3>3. results[2].status = IF \E k \in 1 .. Len(list) : Failing(list[k]) THEN "critical"
                                ELSE IF \E k \in 1 .. Len(list) : Worn(list[k]) THEN "warning" ELSE "ok"
        BY <2>1, <2>3, <3>1, StorageResult
      <3> HIDE DEF drive
      <3>4. /\ drive # {}
            /\ (\E k \in 1 .. Len(list) : Failing(list[k])) <=> \E r \in drive : Failing(r)
            /\ (\E k \in 1 .. Len(list) : Worn(list[k])) <=> \E r \in drive : Worn(r)
        BY <3>2
      <3>5. results[2].status = IF \E r \in drive : Failing(r) THEN "critical"
                                ELSE IF \E r \in drive : Worn(r) THEN "warning" ELSE "ok"
        BY <3>3, <3>4
      <3>6. QED
        BY <3>4, <3>5 DEF Grade, Failing, Worn, EnduranceWarn, drive
    <2>4. QED
      BY <2>2, <2>3
  <1>5. CheckFirmwareCurrency(pending).status = Grade3
    BY FirmwareVerdict
  <1>6. CheckThermal(temps).status = Grade4
    BY ThermalVerdict DEF Inv, InputsOK
  <1>7. CheckDiskSpace(usages).status = Grade5
    <2>1. mounts \in Seq(MountLine) /\ usages \in {NoData, Data(ListUsage(mounts))}
      BY DEF Inv, InputsOK
    <2>2. mount = RealLines(mounts)
      BY <2>1 DEF RealMount, RealLines, Counts, Measured
    <2> HIDE DEF mount
    <2>3. CheckDiskSpace(usages).status = DiskGrade(usages.ok, RealLines(mounts))
      BY <2>1, DiskVerdict
    <2>4. QED
      BY <2>2, <2>3 DEF DiskGrade
  <1>a. Grade1 \in Status /\ Grade2 \in Status /\ Grade3 \in Status /\ Grade4 \in Status /\ Grade5 \in Status
    <2>1. ASSUME NEW c, NEW k, NEW w PROVE Grade(c, k, w) \in Status
      BY DEF Grade, Status
    <2>2. QED
      BY <2>1
  <1> HIDE DEF Grade1, Grade2, Grade3, Grade4, Grade5
  <1>8. /\ results[1].status = Grade1 /\ results[3].status = Grade3
        /\ results[4].status = Grade4 /\ results[5].status = Grade5
    BY <1>2, <1>3, <1>5, <1>6, <1>7
  <1>9. \A i \in 1 .. 5 : results[i].status = <<Grade1, Grade2, Grade3, Grade4, Grade5>>[i]
    BY <1>4, <1>8
  <1>10. [i \in 1 .. 5 |-> results[i].status] = <<Grade1, Grade2, Grade3, Grade4, Grade5>>
    BY <1>9
  <1>11. \A i \in 1 .. 5 : results[i].status \in Status
    BY <1>9, <1>a
  <1>12. QED
    BY <1>1, <1>10, <1>11

\* The loops of the five checks keep the worst of what they see, whatever its
\* place in the list: their verdicts are those of the documented table.
THEOREM VerdictsAreTheTable == Spec => []VerdictsMatchTable
  <1>1. Inv => VerdictsMatchTable
    BY Verdicts DEF VerdictsMatchTable
  <1>2. QED
    BY <1>1, RunInvHolds, PTL

-----------------------------------------------------------------------------
(* score.                                                                  *)

Tallies == [points : Nat, measured : Nat]
Graded == {r \in ToSet(results) : r.status \in Status}

\* One turn: the points of a result that counts are added.
LEMMA PointsTurn ==
  ASSUME NEW t \in Tallies, NEW r \in Graded
  PROVE  /\ WithPoints(t, r) \in Tallies
         /\ WithPoints(t, r).measured = t.measured + (IF r.status = "skipped" THEN 0 ELSE 1)
         /\ WithPoints(t, r).points =
              t.points + 2 * (IF r.status = "ok" THEN 1 ELSE 0) + (IF r.status = "warning" THEN 1 ELSE 0)
  <1>1. t.points \in Nat /\ t.measured \in Nat /\ r.status \in {"ok", "warning", "critical", "skipped"}
    BY DEF Tallies, Graded, Status
  <1>2. CASE r.status = "skipped"
    <2>1. WithPoints(t, r) = t
      BY <1>2 DEF WithPoints, IsMeasured
    <2>2. QED
      BY <1>1, <1>2, <2>1
  <1>3. CASE r.status # "skipped"
    <2>1. WithPoints(t, r) = [points |-> t.points + Points(r.status), measured |-> t.measured + 1]
      BY <1>3 DEF WithPoints, IsMeasured
    <2>2. Points(r.status) = 2 * (IF r.status = "ok" THEN 1 ELSE 0) + (IF r.status = "warning" THEN 1 ELSE 0)
      BY <1>1, <1>3 DEF Points
    <2>3. Points(r.status) \in Nat
      BY <1>1, <2>2
    <2>4. QED
      BY <1>1, <1>3, <2>1, <2>2, <2>3 DEF Tallies
  <1>4. QED
    BY <1>2, <1>3

\* The loop over the results.
AllPoints(base, seq) == FoldLeft(WithPoints, base, seq)

\* The loop over the results is a sequence of such turns.
LEMMA PointsFold ==
  ASSUME NEW base \in Tallies, NEW seq \in Seq(Graded)
  PROVE  \E h : /\ DOMAIN h = 0 .. Len(seq) /\ h[0] = base /\ h[Len(seq)] = AllPoints(base, seq)
               /\ \A k \in 1 .. Len(seq) : h[k] = WithPoints(h[k - 1], seq[k])
  <1> DEFINE n == Len(seq)
             step == [x \in Tallies \X (1 .. n) |-> WithPoints(x[1], seq[x[2]])]
             Turns(f) == f = [s \in SUBSET (1 .. n) |->
                            IF s = {} THEN base ELSE WithPoints(f[s \ {Max(s)}], seq[Max(s)])]
             iter == CHOOSE f : Turns(f)
             h == [k \in 0 .. n |-> iter[1 .. k]]
  <1>1. n \in Nat /\ DOMAIN seq = 1 .. n /\ \A k \in 1 .. n : seq[k] \in Graded
    OBVIOUS
  <1>2. h[n] = AllPoints(base, seq)
    BY <1>1 DEF AllPoints, FoldLeft, MapThenFoldSet
  <1> HIDE DEF n
  <1>3. step \in [Tallies \X (1 .. n) -> Tallies]
    BY <1>1, PointsTurn
  <1>4. \A b \in Tallies, k \in 1 .. n : step[<<b, k>>] = WithPoints(b, seq[k])
    OBVIOUS
  <1> HIDE DEF step
  <1>5. PICK f \in [SUBSET (1 .. n) -> Tallies] : f[{}] = base /\ FoldsOn(f, n, base, step)
    BY <1>1, <1>3, FoldExists
  <1>6. Turns(f)
    <2>1. ASSUME NEW s \in SUBSET (1 .. n), s # {}
          PROVE  f[s] = WithPoints(f[s \ {Max(s)}], seq[Max(s)])
      <3>1. Max(s) \in s /\ f[s] = step[<<f[s \ {Max(s)}], Max(s)>>]
        BY <2>1, <1>5 DEF FoldsOn
      <3>2. Max(s) \in 1 .. n /\ f[s \ {Max(s)}] \in Tallies
        BY <3>1
      <3>3. QED
        BY <1>4, <3>1, <3>2
    <2>2. QED
      BY <1>5, <2>1
  <1>7. Turns(iter)
    BY <1>6
  <1> HIDE DEF iter
  <1>8. h[0] = base
    <2>1. 1 .. 0 = {} /\ {} \in SUBSET (1 .. n) /\ 0 \in 0 .. n
      BY <1>1
    <2>2. QED
      BY <1>7, <2>1
  <1>9. ASSUME NEW k \in 1 .. n PROVE h[k] = WithPoints(h[k - 1], seq[k])
    <2>1. 1 .. k \in SUBSET (1 .. n) /\ 1 .. k # {} /\ Max(1 .. k) = k /\ (1 .. k) \ {k} = 1 .. k - 1
      BY <1>1, Positions
    <2>2. iter[1 .. k] = WithPoints(iter[1 .. k - 1], seq[k])
      BY <1>7, <2>1
    <2>3. k \in 0 .. n /\ k - 1 \in 0 .. n
      BY <1>1
    <2>4. QED
      BY <2>2, <2>3
  <1>10. DOMAIN h = 0 .. n
    OBVIOUS
  <1> HIDE DEF h
  <1>11. QED
    BY <1>2, <1>8, <1>9, <1>10 DEF n

\* How many of the first m results have a status.
CountUpto(s, m) == Cardinality({i \in 1 .. m : results[i].status = s})

\* How many of the first m + 1 results have a status.
LEMMA CountTurn ==
  ASSUME NEW s, NEW m \in Nat
  PROVE  /\ CountUpto(s, 0) = 0 /\ CountUpto(s, m) \in Nat
         /\ CountUpto(s, m + 1) = CountUpto(s, m) + (IF results[m + 1].status = s THEN 1 ELSE 0)
  <1> DEFINE S == {i \in 1 .. m : results[i].status = s}
             T == {i \in 1 .. m + 1 : results[i].status = s}
  <1>1. IsFiniteSet(S) /\ Cardinality(S) \in Nat
    <2>1. IsFiniteSet(1 .. m) /\ S \in SUBSET (1 .. m)
      BY FS_Interval
    <2>2. QED
      BY <2>1, FS_Subset, FS_CardinalityType
  <1>2. CountUpto(s, 0) = 0
    <2>1. {i \in 1 .. 0 : results[i].status = s} = {}
      OBVIOUS
    <2>2. QED
      BY <2>1, FS_EmptySet DEF CountUpto
  <1>3. CASE results[m + 1].status = s
    <2>1. T = S \cup {m + 1} /\ m + 1 \notin S
      BY <1>3
    <2>2. Cardinality(T) = Cardinality(S) + 1
      BY <1>1, <2>1, FS_AddElement
    <2>3. QED
      BY <1>1, <1>2, <1>3, <2>2 DEF CountUpto
  <1>4. CASE results[m + 1].status # s
    <2>1. T = S
      BY <1>4
    <2>2. QED
      BY <1>1, <1>2, <1>4, <2>1 DEF CountUpto
  <1>5. QED
    BY <1>3, <1>4

\* What the loop adds up: a result that was skipped counts for nothing.
LEMMA TallyCounts ==
  ASSUME results \in Seq(Graded), NEW n, n = Len(results)
  PROVE  /\ Tally(results).measured = n - CountUpto("skipped", n)
         /\ Tally(results).points = 2 * CountUpto("ok", n) + CountUpto("warning", n)
         /\ Tally(results) \in Tallies /\ Tally(results).points <= 2 * Tally(results).measured
  <1> DEFINE base == [points |-> 0, measured |-> 0]
             tally == AllPoints(base, results)
             So(t, m) == /\ t \in Tallies /\ t.points <= 2 * t.measured
                         /\ t.measured = m - CountUpto("skipped", m)
                         /\ t.points = 2 * CountUpto("ok", m) + CountUpto("warning", m)
  <1>1. n \in Nat /\ \A k \in 1 .. n : results[k] \in Graded
    OBVIOUS
  <1>2. base \in Tallies /\ base.points = 0 /\ base.measured = 0
    BY DEF Tallies
  <1>a. Tally(results) = tally
    BY DEF Tally, AllPoints
  <1> HIDE DEF base
  <1>3. PICK h : /\ h[0] = base /\ h[n] = tally
                 /\ \A k \in 1 .. n : h[k] = WithPoints(h[k - 1], results[k])
    BY <1>2, PointsFold
  <1> HIDE DEF So
  <1> DEFINE P == {m \in Nat : So(h[m], m)}
  <1>4. 0 \in P
    <2>1. CountUpto("skipped", 0) = 0 /\ CountUpto("ok", 0) = 0 /\ CountUpto("warning", 0) = 0
      BY CountTurn
    <2>2. QED
      BY <1>2, <1>3, <2>1 DEF So
  <1>5. ASSUME NEW m \in 1 .. n, m - 1 \in P PROVE m \in P
    <2> DEFINE t == h[m - 1]
               r == results[m]
               x == h[m]
    <2>1. So(t, m - 1) /\ m \in Nat /\ m - 1 \in Nat /\ (m - 1) + 1 = m
      BY <1>1, <1>5
    <2>2. x = WithPoints(t, r) /\ r \in Graded /\ t \in Tallies
      BY <1>1, <1>3, <2>1 DEF So
    <2>3. \A s : /\ CountUpto(s, m - 1) \in Nat
                 /\ CountUpto(s, m) = CountUpto(s, m - 1) + (IF r.status = s THEN 1 ELSE 0)
      <3> DEFINE p == m - 1
      <3>1. p \in Nat /\ p + 1 = m
        BY <2>1
      <3> HIDE DEF p
      <3>2. ASSUME NEW s
            PROVE  /\ CountUpto(s, p) \in Nat
                   /\ CountUpto(s, p + 1) = CountUpto(s, p) + (IF results[p + 1].status = s THEN 1 ELSE 0)
        BY <3>1, CountTurn
      <3>3. QED
        BY <3>1, <3>2 DEF p
    <2> HIDE DEF t, x
    <2>4. /\ x \in Tallies
          /\ x.measured = t.measured + (IF r.status = "skipped" THEN 0 ELSE 1)
          /\ x.points = t.points + 2 * (IF r.status = "ok" THEN 1 ELSE 0) + (IF r.status = "warning" THEN 1 ELSE 0)
      BY <2>2, PointsTurn
    <2>5. /\ t.measured = (m - 1) - CountUpto("skipped", m - 1)
          /\ t.points = 2 * CountUpto("ok", m - 1) + CountUpto("warning", m - 1)
      BY <2>1 DEF So
    <2>6. x.measured = m - CountUpto("skipped", m)
      BY <2>1, <2>3, <2>4, <2>5
    <2>7. x.points = 2 * CountUpto("ok", m) + CountUpto("warning", m)
      <3>1. /\ CountUpto("ok", m - 1) \in Nat /\ CountUpto("warning", m - 1) \in Nat
            /\ CountUpto("ok", m) = CountUpto("ok", m - 1) + (IF r.status = "ok" THEN 1 ELSE 0)
            /\ CountUpto("warning", m) = CountUpto("warning", m - 1)
                                          + (IF r.status = "warning" THEN 1 ELSE 0)
        BY <2>3
      <3>2. QED
        BY <2>4, <2>5, <3>1
    <2>a. x.points <= 2 * x.measured
      <3>1. t.points <= 2 * t.measured /\ t.points \in Nat /\ t.measured \in Nat
        BY <2>1, <2>2 DEF So, Tallies
      <3>2. CASE r.status = "skipped"
        BY <2>4, <3>1, <3>2
      <3>3. CASE r.status # "skipped"
        BY <2>4, <3>1, <3>3
      <3>4. QED
        BY <3>2, <3>3
    <2>8. So(x, m)
      BY <2>4, <2>6, <2>7, <2>a DEF So
    <2>9. QED
      BY <2>1, <2>8 DEF x
  <1>6. n \in P
    <2> HIDE DEF P
    <2>1. QED
      BY <1>1, <1>4, <1>5, LoopInduction
  <1>7. So(tally, n)
    BY <1>3, <1>6
  <1>8. QED
    BY <1>a, <1>7 DEF base, So

\* Rounding to the nearest is off by a half at most.
LEMMA RoundingError ==
  ASSUME NEW a \in Nat, NEW n \in 1 .. 5
  PROVE  /\ RoundHalfEven(a, n) \in Nat
         /\ 2 * (RoundHalfEven(a, n) * n - a) <= n /\ 2 * (a - RoundHalfEven(a, n) * n) <= n
         /\ a <= 100 * n => RoundHalfEven(a, n) <= 100
  <1>1. n = 1 \/ n = 2 \/ n = 3 \/ n = 4 \/ n = 5
    OBVIOUS
  <1>2. CASE n = 1
    BY <1>2 DEF RoundHalfEven
  <1>3. CASE n = 2
    BY <1>3 DEF RoundHalfEven
  <1>4. CASE n = 3
    BY <1>4 DEF RoundHalfEven
  <1>5. CASE n = 4
    BY <1>5 DEF RoundHalfEven
  <1>6. CASE n = 5
    BY <1>6 DEF RoundHalfEven
  <1>7. QED
    BY <1>1, <1>2, <1>3, <1>4, <1>5, <1>6

\* What score makes of the five results of a finished run.
LEMMA ScoreOutcome ==
  ASSUME Inv, stage = "done"
  PROVE  /\ results \in Seq(Graded) /\ Len(results) = 5
         /\ total.measured = 5 - CountUpto("skipped", 5) /\ total.measured \in 0 .. 5
         /\ 2 * CountUpto("ok", 5) + CountUpto("warning", 5) <= 2 * total.measured
         /\ total.measured = 0 => total.score = Unknown
         /\ total.measured > 0 =>
              total.score = RoundHalfEven(50 * (2 * CountUpto("ok", 5) + CountUpto("warning", 5)), total.measured)
         /\ \A s : CountUpto(s, 5) \in Nat
         /\ 2 * CountUpto("ok", 5) + CountUpto("warning", 5) \in Nat
  <1>1. /\ results = <<CheckBatteryWear(wears), CheckStorageHealth(reports, skip),
                       CheckFirmwareCurrency(pending), CheckThermal(temps), CheckDiskSpace(usages)>>
        /\ total = Score(results)
    BY DEF Inv, OutcomeOK
  <1>2. Len(results) = 5 /\ DOMAIN results = 1 .. 5
    BY <1>1
  <1>3. \A i \in 1 .. 5 : results[i].status \in Status
    BY Verdicts
  <1>4. results \in Seq(Graded)
    <2>1. \A i \in 1 .. 5 : results[i] \in Graded
      BY <1>2, <1>3 DEF Graded, ToSet
    <2>2. results = [i \in 1 .. 5 |-> results[i]]
      BY <1>1
    <2>3. QED
      BY <2>1, <2>2
  <1> DEFINE t == Tally(results)
  <1>5. /\ t.measured = 5 - CountUpto("skipped", 5)
        /\ t.points = 2 * CountUpto("ok", 5) + CountUpto("warning", 5)
        /\ t \in Tallies /\ t.points <= 2 * t.measured
    BY <1>2, <1>4, TallyCounts
  <1>6. \A s : CountUpto(s, 5) \in Nat
    BY CountTurn
  <1>7. total = [score |-> IF t.measured = 0 THEN Unknown ELSE RoundHalfEven(50 * t.points, t.measured),
                 measured |-> t.measured]
    BY <1>1 DEF Score
  <1> HIDE DEF t
  <1>8. t.measured \in Nat /\ t.points \in Nat /\ CountUpto("skipped", 5) \in Nat
    BY <1>5, <1>6 DEF Tallies
  <1>9. total.measured = t.measured /\ total.score = IF t.measured = 0 THEN Unknown ELSE RoundHalfEven(50 * t.points, t.measured)
    BY <1>7
  <1>10. total.measured \in 0 .. 5
    BY <1>5, <1>8, <1>9
  <1>11. QED
    BY <1>2, <1>4, <1>5, <1>6, <1>8, <1>9, <1>10

\* The score is the mean of what was measured, to half a point; a check that
\* was skipped changes the coverage and not the score.
THEOREM ScoreIsTheMean == Spec => []ScoreIsMean
  <1>1. ASSUME Inv, stage = "done"
        PROVE  LET Count(s) == Cardinality({i \in DOMAIN results : results[i].status = s})
                   n == 5 - Count("skipped")
                   exact == 100 * Count("ok") + 50 * Count("warning")
               IN /\ total.measured = n
                  /\ (total.score = Unknown) = (n = 0)
                  /\ n > 0 => /\ 2 * (total.score * n - exact) <= n
                              /\ 2 * (exact - total.score * n) <= n
    <2> DEFINE Count(s) == Cardinality({i \in DOMAIN results : results[i].status = s})
               n == total.measured
               a == 50 * (2 * CountUpto("ok", 5) + CountUpto("warning", 5))
    <2>1. DOMAIN results = 1 .. 5
      BY <1>1, ScoreOutcome
    <2>2. \A s : Count(s) = CountUpto(s, 5)
      BY <2>1 DEF CountUpto
    <2> HIDE DEF Count
    <2>3. /\ n = 5 - CountUpto("skipped", 5) /\ n \in 0 .. 5
          /\ n = 0 => total.score = Unknown
          /\ n > 0 => total.score = RoundHalfEven(a, n)
          /\ CountUpto("ok", 5) \in Nat /\ CountUpto("warning", 5) \in Nat
      BY <1>1, ScoreOutcome
    <2>4. a = 100 * CountUpto("ok", 5) + 50 * CountUpto("warning", 5) /\ a \in Nat
      BY <2>3
    <2> HIDE DEF a, n
    <2>5. CASE n = 0
      <3>1. n = 5 - Count("skipped") /\ total.score = Unknown
        BY <2>2, <2>3, <2>5
      <3>2. QED
        BY <2>5, <3>1 DEF Count, n
    <2>6. CASE n > 0
      <3>1. n \in 1 .. 5 /\ total.score = RoundHalfEven(a, n)
        BY <2>3, <2>6
      <3>2. /\ total.score \in Nat
            /\ 2 * (total.score * n - a) <= n /\ 2 * (a - total.score * n) <= n
        <4>1. a \in Nat /\ n \in 1 .. 5
          BY <2>4, <3>1
        <4>2. /\ RoundHalfEven(a, n) \in Nat
              /\ 2 * (RoundHalfEven(a, n) * n - a) <= n /\ 2 * (a - RoundHalfEven(a, n) * n) <= n
          BY <4>1, RoundingError
        <4>3. QED
          BY <3>1, <4>2, Zenon
      <3>3. total.score # Unknown
        BY <3>2 DEF Unknown
      <3>4. n = 5 - Count("skipped") /\ a = 100 * Count("ok") + 50 * Count("warning")
        BY <2>2, <2>3, <2>4
      <3>5. QED
        BY <2>6, <3>2, <3>3, <3>4 DEF Count, n
    <2>7. QED
      BY <2>3, <2>5, <2>6
  <1>2. Inv => ScoreIsMean
    BY <1>1 DEF ScoreIsMean
  <1>3. QED
    BY <1>2, RunInvHolds, PTL

\* Every result, of a check that measured something or was skipped.
ShapeOK(r) ==
    /\ r.status \in Status /\ r.confidence \in Confidence
    /\ (r.status = "skipped") = (r.skip # "none")

LEMMA SkippedShape == ASSUME NEW code \in SkipCode \ {"none"} PROVE ShapeOK(Skipped(code))
  BY DEF ShapeOK, Skipped, Status, Confidence

LEMMA ResultShape ==
  ASSUME NEW status \in Measure, NEW confidence \in Confidence, NEW metrics
  PROVE  ShapeOK(Result(status, confidence, metrics))
  BY DEF ShapeOK, Result, Status, Measure

LEMMA JudgementShape == ASSUME NEW E, NEW r \in Judgement(E) PROVE ShapeOK(r)
  BY DEF ShapeOK, Judgement, Status, Measure

LEMMA Codes == {"no-data", "unavailable", "declined", "not-requested"} = SkipCode \ {"none"}
  BY DEF SkipCode

LEMMA Shapes == ASSUME Inv, stage = "done" PROVE \A i \in 1 .. 5 : ShapeOK(results[i])
  <1>1. results = <<CheckBatteryWear(wears), CheckStorageHealth(reports, skip),
                    CheckFirmwareCurrency(pending), CheckThermal(temps), CheckDiskSpace(usages)>>
    BY DEF Inv, OutcomeOK
  <1>2. ShapeOK(Skipped("no-data")) /\ ShapeOK(Skipped("unavailable"))
    BY SkippedShape, Codes
  <1>3. {"high", "medium", "low"} = Confidence
    BY DEF Confidence
  <1>4. ShapeOK(CheckBatteryWear(wears))
    <2> DEFINE worst == FoldLeft(WithWear, NoBattery, wears.list)
               status == WearStatus(worst)
    <2>1. status \in Measure
      BY DEF WearStatus, Measure
    <2>2. CheckBatteryWear(wears) =
            CASE ~wears.ok -> Skipped("unavailable")
              [] wears.ok /\ ~WearKnown(worst) -> Skipped("no-data")
              [] OTHER -> Result(status, "high", <<<<"wear", worst>>>>)
      BY DEF CheckBatteryWear
    <2> HIDE DEF status, worst
    <2>3. CheckBatteryWear(wears) \in
            {Skipped("unavailable"), Skipped("no-data"), Result(status, "high", <<<<"wear", worst>>>>)}
      BY <2>2
    <2>4. QED
      BY <1>2, <1>3, <2>1, <2>3, ResultShape
  <1>5. ShapeOK(results[2])
    <2>1. skip \in SkipCode \ {"none"}
      BY Codes DEF Inv, InputsOK
    <2>2. QED
      BY <1>2, <2>1, StorageOutcome, SkippedShape, JudgementShape
  <1>6. ShapeOK(CheckFirmwareCurrency(pending))
    <2> DEFINE status == IF "critical" \in ToSet(pending.list) THEN "critical" ELSE "warning"
               evidence == <<<<"pending_updates", Len(pending.list)>>>>
    <2>1. status \in Measure /\ "ok" \in Measure
      BY DEF Measure
    <2>2. CheckFirmwareCurrency(pending) \in
            {Skipped("unavailable"), Result("ok", "medium", <<>>), Result(status, "medium", evidence)}
      BY DEF CheckFirmwareCurrency
    <2> HIDE DEF status, evidence
    <2>3. QED
      BY <1>2, <1>3, <2>1, <2>2, ResultShape
  <1>7. ShapeOK(CheckThermal(temps))
    <2> DEFINE hottest == Max({t \in ToSet(temps.list) : Plausible(t)})
               status == CASE hottest >= ThermalCrit -> "critical"
                           [] ThermalWarn <= hottest /\ hottest < ThermalCrit -> "warning"
                           [] OTHER -> "ok"
               evidence == <<<<"max_temp_c", hottest>>>>
    <2>1. status \in Measure
      BY DEF Measure
    <2>2. CheckThermal(temps) \in
            {Skipped("unavailable"), Skipped("no-data"), Result(status, "medium", evidence)}
      BY DEF CheckThermal
    <2> HIDE DEF status, evidence
    <2>3. QED
      BY <1>2, <1>3, <2>1, <2>2, ResultShape
  <1>8. ShapeOK(CheckDiskSpace(usages))
    <2> DEFINE base == [result |-> Result("ok", "high", <<>>), fullest |-> NoUsage]
               judged == AllUsages(base, usages.list)
    <2>1. usages.list \in Seq(MountLine)
      <3>1. CASE usages = NoData
        BY <3>1 DEF NoData
      <3>2. CASE usages = Data(ListUsage(mounts))
        <4>1. ListUsage(mounts) \in Seq(MountLine)
          BY LineLoop DEF Inv, InputsOK
        <4>2. QED
          BY <3>2, <4>1 DEF Data
      <3>3. QED
        BY <3>1, <3>2 DEF Inv, InputsOK
    <2>2. judged \in DiskJudged
      BY <2>1, UsageLoop
    <2>3. CheckDiskSpace(usages) =
            CASE ~usages.ok -> Skipped("unavailable")
              [] usages.ok /\ ~Measured(judged.fullest) -> Skipped("no-data")
              [] OTHER -> [judged.result EXCEPT !.metrics = Append(@, <<"min_free_mount", judged.fullest.mount>>)]
      BY DEF CheckDiskSpace, AllUsages
    <2> HIDE DEF judged
    <2> DEFINE r == judged.result
               x == [r EXCEPT !.metrics = Append(@, <<"min_free_mount", judged.fullest.mount>>)]
    <2>4. r \in Judgement(MountEvidence)
      BY <2>2 DEF DiskJudged
    <2>5. ShapeOK(x)
      <3>1. ShapeOK(r)
        BY <2>4, JudgementShape
      <3> HIDE DEF r
      <3>2. x.status = r.status /\ x.confidence = r.confidence /\ x.skip = r.skip
        BY <2>4 DEF Judgement
      <3>3. QED
        BY <3>1, <3>2 DEF ShapeOK
    <2>6. CheckDiskSpace(usages) \in {Skipped("unavailable"), Skipped("no-data"), x}
      BY <2>3
    <2> HIDE DEF x
    <2>7. QED
      BY <1>2, <2>5, <2>6
  <1>9. /\ results[1] = CheckBatteryWear(wears) /\ results[3] = CheckFirmwareCurrency(pending)
        /\ results[4] = CheckThermal(temps) /\ results[5] = CheckDiskSpace(usages)
    BY <1>1
  <1>10. ShapeOK(results[1]) /\ ShapeOK(results[3]) /\ ShapeOK(results[4]) /\ ShapeOK(results[5])
    BY <1>4, <1>6, <1>7, <1>8, <1>9
  <1>11. QED
    BY <1>5, <1>10

\* The types of the report: a check is skipped exactly when it says why, the
\* score is a percentage or None, and every usage is of a mount that was read.
THEOREM RunTypes == Spec => []TypeOK
  <1>1. ASSUME Inv PROVE TypeOK
    <2>1. \A i \in DOMAIN temps.list : temps.list[i] \in Int
      BY <1>1 DEF Inv, InputsOK
    <2>2. ToSet(usages.list) \subseteq ToSet(mounts)
      <3>1. CASE usages = NoData
        BY <3>1 DEF NoData, ToSet
      <3>2. CASE usages = Data(ListUsage(mounts))
        <4>1. mounts \in Seq(MountLine) /\ usages.list = ListUsage(mounts)
          BY <1>1, <3>2 DEF Inv, InputsOK, Data
        <4>2. ToSet(usages.list) = {mounts[i] : i \in {i \in 1 .. Len(mounts) : Counts(mounts, i)}}
          BY <4>1, LineLoop
        <4>3. QED
          BY <4>1, <4>2 DEF ToSet
      <3>3. QED
        BY <1>1, <3>1, <3>2 DEF Inv, InputsOK
    <2>3. \A i \in DOMAIN reports.list : reports.list[i] \in DriveReport(i)
      BY <1>1 DEF Inv, InputsOK
    <2>4. /\ \A i \in DOMAIN results : ShapeOK(results[i])
          /\ total.measured \in 0 .. 5 /\ total.score \in {Unknown} \cup 0 .. 100
      <3>1. CASE stage # "done"
        <4>1. results = <<>> /\ total = NoScore
          BY <1>1, <3>1 DEF Inv, OutcomeOK
        <4>2. total.score = Unknown /\ total.measured = 0
          BY <4>1 DEF NoScore
        <4>3. QED
          BY <4>1, <4>2
      <3>2. CASE stage = "done"
        <4> DEFINE a == 50 * (2 * CountUpto("ok", 5) + CountUpto("warning", 5))
                   n == total.measured
        <4>1. /\ DOMAIN results = 1 .. 5 /\ n \in 0 .. 5
              /\ n = 0 => total.score = Unknown
              /\ n > 0 => total.score = RoundHalfEven(a, n)
              /\ 2 * CountUpto("ok", 5) + CountUpto("warning", 5) <= 2 * n
              /\ 2 * CountUpto("ok", 5) + CountUpto("warning", 5) \in Nat
          BY <1>1, <3>2, ScoreOutcome
        <4>2. a \in Nat /\ a <= 100 * n
          BY <4>1
        <4> HIDE DEF a, n
        <4>3. n > 0 => total.score \in 0 .. 100
          <5>1. ASSUME n > 0 PROVE total.score \in 0 .. 100
            <6>1. n \in 1 .. 5 /\ total.score = RoundHalfEven(a, n)
              BY <4>1, <5>1
            <6>2. total.score \in Nat /\ total.score <= 100
              BY <4>2, <6>1, RoundingError
            <6>3. QED
              BY <6>2
          <5>2. QED
            BY <5>1
        <4>4. total.score \in {Unknown} \cup 0 .. 100
          BY <4>1, <4>3
        <4>5. QED
          BY <1>1, <3>2, <4>1, <4>4, Shapes DEF n
      <3>3. QED
        BY <3>1, <3>2
    <2>5. skip \in SkipCode \ {"none", "no-data"}
      BY <1>1 DEF Inv, InputsOK, SkipCode
    <2>6. QED
      BY <1>1, <2>1, <2>2, <2>3, <2>4, <2>5 DEF Inv, InputsOK, StorageOK, TypeOK, ShapeOK, Stages
  <1>2. QED
    BY <1>1, RunInvHolds, PTL

-----------------------------------------------------------------------------
(* DiagnosticsPage.                                                        *)

\* The stages of an export; from mkstemp on it has its document.
Exporting == {"render", "mkstemp", "write", "replace", "unlink", "chmod", "exported", "failed"}
Rendered == Exporting \ {"render"}

\* busy_text names the coroutine, and the dialog is that of the export: no run
\* is under way while it is open.
JobOK ==
    /\ job = "none" => busy = "no"
    /\ job = "run" => busy = "running" /\ dialog = None
    /\ job \in Exporting => busy = "exporting" /\ dialog # None

\* _last_report and the cards are of one run, the one the user saw.
OneReport == last = cards /\ (dialog # None => dialog = cards)

DocumentOK == document = IF job \in Rendered THEN cards ELSE None

\* The rename has happened.
Renamed == job \in {"chmod", "exported"} => target = Whole(document)

PageInv == PageTypeOK /\ JobOK /\ OneReport /\ DocumentOK /\ Renamed /\ TargetWhole

LEMMA FileContents ==
  /\ Part \in Content \ {Old} /\ Absent \in Content \ {Old} /\ Old \in Content
  /\ Old # Part /\ Absent # Part
  /\ \A r \in Report : Whole(r) \in Content \ {Old} /\ Whole(r) # Part
  BY DEF Content, Part, Absent, Old, Whole

LEMMA PageInitInv == PageInit => PageInv
  <1> SUFFICES ASSUME PageInit PROVE PageInv
    OBVIOUS
  <1>1. target \in Content /\ temp \in Content \ {Old} /\ target # Part
    BY FileContents DEF PageInit
  <1>2. QED
    BY <1>1
    DEF PageInit, PageInv, PageTypeOK, Maybe, JobOK, OneReport, DocumentOK, Renamed,
      TargetWhole, Exporting, Rendered

\* While there is a document it is a report, so the file that holds it is whole.
LEMMA DocumentIsReport == ASSUME PageInv, job \in Rendered PROVE document \in Report
  <1>1. document = cards /\ dialog # None
    BY DEF PageInv, DocumentOK, JobOK, Rendered
  <1>2. document # None /\ document \in Maybe
    BY <1>1 DEF PageInv, OneReport, PageTypeOK
  <1>3. QED
    BY <1>2 DEF Maybe

LEMMA PageInvStep == PageInv /\ [PageNext]_pageVars => PageInv'
  <1> SUFFICES ASSUME PageInv, [PageNext]_pageVars PROVE PageInv'
    OBVIOUS
  <1> USE DEF PageInv, PageTypeOK, JobOK, OneReport, DocumentOK, Renamed, TargetWhole, Exporting, Rendered
  <1>1. CASE Run
    BY <1>1 DEF Run, fileVars
  <1>2. CASE RunDone
    BY <1>2 DEF RunDone, fileVars, Maybe
  <1>3. CASE RunFailed
    BY <1>3 DEF RunFailed, fileVars
  <1>4. CASE OpenDialog
    BY <1>4 DEF OpenDialog, viewVars, fileVars
  <1>5. CASE Dismiss
    BY <1>5 DEF Dismiss, viewVars, fileVars, Maybe
  <1>6. CASE Export
    BY <1>6 DEF Export, fileVars
  <1>7. CASE Render
    BY <1>7 DEF Render, JsonDocument, ReadableDocument, viewVars,
      fileVars
  <1>8. CASE Mkstemp
    <2>1. temp' \in Content \ {Old}
      BY <1>8, FileContents DEF Mkstemp
    <2>2. QED
      BY <1>8, <2>1 DEF Mkstemp, viewVars
  <1>9. CASE Write
    <2>1. job = "write" /\ document \in Report
      BY <1>9, DocumentIsReport DEF Write
    <2>2. temp' \in Content \ {Old}
      BY <1>9, <2>1, FileContents DEF Write
    <2>3. QED
      BY <1>9, <2>1, <2>2 DEF Write, viewVars
  <1>10. CASE Replace
    <2>1. job = "replace" /\ document \in Report
      BY <1>10, DocumentIsReport DEF Replace
    <2>2. target' \in Content /\ temp' \in Content \ {Old} /\ target' # Part
      BY <1>10, <2>1, FileContents DEF Replace, fileVars
    <2>3. QED
      BY <1>10, <2>1, <2>2 DEF Replace, viewVars, fileVars
  <1>11. CASE Unlink
    <2>1. temp' \in Content \ {Old}
      BY <1>11, FileContents DEF Unlink
    <2>2. QED
      BY <1>11, <2>1 DEF Unlink, viewVars
  <1>12. CASE Chmod
    BY <1>12 DEF Chmod, viewVars, fileVars
  <1>13. CASE ExportEnds
    BY <1>13 DEF ExportEnds, fileVars, Maybe
  <1>14. CASE Restart
    BY <1>14 DEF Restart, fileVars, Maybe
  <1>15. CASE UNCHANGED pageVars
    BY <1>15 DEF pageVars
  <1>16. QED
    BY <1>1, <1>2, <1>3, <1>4, <1>5, <1>6, <1>7, <1>8, <1>9, <1>10, <1>11, <1>12, <1>13, <1>14,
      <1>15
    DEF PageNext, Work

-----------------------------------------------------------------------------
\* The inductive invariant: the types, busy_text against the coroutine, one
\* report on the page, in the dialog and in the document, and the files.
THEOREM ExportInvHolds == PageSpec => []PageInv
  BY PageInitInv, PageInvStep, PTL DEF PageSpec

\* _render_and_write reads _last_report and the cards on the loop thread: they
\* are what the user saw when asking, whatever runs came before.
THEOREM ExportIsOfTheReportShown == PageSpec => []ExportsWhatWasShown
  <1>1. PageInv => ExportsWhatWasShown
    BY DEF PageInv, DocumentOK, OneReport, JobOK, Rendered, ExportsWhatWasShown
  <1>2. QED
    BY <1>1, ExportInvHolds, PTL

\* TextReportWriter.write: the chosen name never holds a part of a document,
\* though any of its calls may fail and the program be killed after any.
THEOREM NeverHalfWritten == PageSpec => []TargetWhole
  <1>1. PageInv => TargetWhole
    BY DEF PageInv
  <1>2. QED
    BY <1>1, ExportInvHolds, PTL

\* _export_done: who is told that the report is exported has the whole document
\* in the file.
THEOREM ToastIsTrue == PageSpec => ExportedMeansWritten
  <1>1. PageInv => [toast' = "exported" /\ job = "exported" => target = Whole(document)]_pageVars
    BY DEF PageInv, Renamed
  <1>2. QED
    BY <1>1, ExportInvHolds, PTL DEF PageSpec, ExportedMeansWritten
=============================================================================
