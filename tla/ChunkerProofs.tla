---------------------------- MODULE ChunkerProofs ---------------------------
(***************************************************************************)
(* The chunks of a wiki page are the page, in pieces fit for a search: for *)
(* lines of any kind, length and width, any limits in the order of         *)
(* chunk.rs and any cap of chunks (theorem SoundChunks).                   *)
(*                                                                         *)
(* The chunker is a composition of passes over lists, each a recursive     *)
(* function of the number of items passed.  For each pass there is         *)
(*   - a lemma that the function is what its steps make it (ScanUnfolds,   *)
(*     SectionsUnfold, ..., from StepByStep),                              *)
(*   - a lemma that a step preserves what holds of the items so far        *)
(*     (UnitsGrow, PacksGrow, DraftsGrow, MergesGrow, HalvedTiles), and    *)
(*   - a lemma about the result (ScanIs, UnitsAre, PacksAre, DraftsAre,    *)
(*     MergedAre, CappedTiles), by Climb.                                  *)
(* What every pass preserves is that its pieces are a chain (Chain) from   *)
(* the first byte to the last one and cover the atomic units (UnitsWhole); *)
(* from the drafts on, that each of them begins between two characters     *)
(* under a path above all its lines (Fit) and, up to the cap on their      *)
(* number, that it is bounded and keeps a heading (Snug).                  *)
(***************************************************************************)
EXTENDS MCRequests, FiniteSetTheorems, SequenceTheorems, WellFoundedInduction, TLAPS

-----------------------------------------------------------------------------
(* Least and greatest                                                      *)

\* A set of natural numbers that is not empty has a least element.
LEMMA Least ==
  ASSUME NEW S \in SUBSET Nat, S # {}
  PROVE  Min(S) \in S /\ \A x \in S : Min(S) <= x
<1>. DEFINE less == OpToRel(<, Nat)
<1>. HIDE DEF less
<1>1. IsWellFoundedOn(less, Nat)
  BY NatLessThanWellFounded DEF less
<1>2. ASSUME NEW k \in Nat, NEW l \in Nat, k < l
      PROVE  <<k, l>> \in less
  <2>1. <<k, l>> \in Nat \X Nat /\ <<k, l>>[1] = k /\ <<k, l>>[2] = l
    OBVIOUS
  <2>2. <<k, l>>[1] < <<k, l>>[2]
    BY <1>2, <2>1
  <2>. QED
    BY <2>1, <2>2, Zenon DEF less, OpToRel
<1>3. PICK x \in S : \A y \in S : ~(<<y, x>> \in less)
  BY <1>1, WFMin
<1>4. ASSUME NEW y \in S PROVE x <= y
  <2>1. ~(y < x)
    BY <1>2, <1>3
  <2>. QED
    BY <2>1
<1>. QED
  BY <1>4 DEF Min

\* If it has a bound, it has a greatest one.
LEMMA Greatest ==
  ASSUME NEW S \in SUBSET Nat, S # {}, NEW n \in Nat, \A x \in S : x <= n
  PROVE  Max(S) \in S /\ \A x \in S : x <= Max(S)
<1>. DEFINE Gaps == {g \in 0..n : n - g \in S}
<1>1. Gaps \in SUBSET Nat /\ Gaps # {}
  <2>1. PICK x \in S : TRUE
    OBVIOUS
  <2>2. x \in Nat /\ x <= n
    BY <2>1
  <2>3. n - x \in 0..n /\ n - (n - x) = x
    BY <2>2
  <2>4. n - (n - x) \in S
    BY <2>1, <2>3
  <2>5. n - x \in Gaps
    BY <2>3, <2>4
  <2>6. Gaps \subseteq Nat
    OBVIOUS
  <2>. QED
    BY <2>5, <2>6
<1>2. Min(Gaps) \in Gaps /\ \A g \in Gaps : Min(Gaps) <= g
  BY <1>1, Least
<1>3. PICK x \in S, g \in 0..n : x = n - g /\ \A h \in Gaps : g <= h
  BY <1>2
<1>4. ASSUME NEW y \in S PROVE x >= y
  <2>1. n - y \in 0..n /\ n - (n - y) = y
    OBVIOUS
  <2>2. g <= n - y
    BY <1>3, <2>1
  <2>. QED
    BY <1>3, <2>2
<1>. QED
  BY <1>4 DEF Max

-----------------------------------------------------------------------------
(* What is built step by step                                              *)

\* What holds at first, and after a step if before it, holds after any number.
LEMMA Climb ==
  ASSUME NEW n \in Nat, NEW S, 0 \in S, \A k \in 0..n : k < n /\ k \in S => k + 1 \in S
  PROVE  \A k \in 0..n : k \in S
<1>. DEFINE bad == {k \in 0..n : k \notin S}
            less == OpToRel(<, Nat)
<1>1. SUFFICES ASSUME bad # {} PROVE FALSE
  OBVIOUS
<1>2. IsWellFoundedOn(less, Nat)
  BY NatLessThanWellFounded
<1>3. bad \in SUBSET Nat
  OBVIOUS
<1>4. PICK m \in bad : \A y \in bad : ~(<<y, m>> \in less)
  <2>. HIDE DEF less, bad
  <2>. QED
    BY <1>1, <1>2, <1>3, WFMin
<1>5. m \in 0..n /\ m # 0 /\ m - 1 \in 0..n /\ m - 1 < n /\ (m - 1) + 1 = m
  OBVIOUS
<1>6. <<m - 1, m>> \in less
  <2>1. <<m - 1, m>> \in Nat \X Nat /\ <<m - 1, m>>[1] = m - 1 /\ <<m - 1, m>>[2] = m
    BY <1>5
  <2>2. <<m - 1, m>>[1] < <<m - 1, m>>[2]
    BY <1>5, <2>1
  <2>. QED
    BY <2>1, <2>2, Zenon DEF OpToRel
<1>7. m - 1 \in S
  BY <1>4, <1>5, <1>6
<1>. QED
  BY <1>4, <1>5, <1>7

\* A function that is defined step by step exists.
Climbs(R, start, n, next) ==
  \E f \in [0..n -> R] : f[0] = start /\ \A j \in 1..n : f[j] = next[<<f[j - 1], j>>]

LEMMA StepByStep ==
  ASSUME NEW R, NEW start \in R, NEW n \in Nat, NEW next \in [R \X (1..n) -> R]
  PROVE  Climbs(R, start, n, next)
<1>. DEFINE Upto(k) == \E f \in [0..k -> R] :
                         f[0] = start /\ \A j \in 1..k : f[j] = next[<<f[j - 1], j>>]
            S == {k \in 0..n : Upto(k)}
<1>1. 0 \in S
  <2>. DEFINE g == [k \in 0..0 |-> start]
  <2>1. g \in [0..0 -> R] /\ g[0] = start /\ 0 \in 0..n /\ 1..0 = {}
    OBVIOUS
  <2>. HIDE DEF g
  <2>2. Upto(0)
    BY <2>1
  <2>. QED
    BY <2>1, <2>2
<1>2. ASSUME NEW k \in 0..n, k < n, k \in S PROVE k + 1 \in S
  <2>1. PICK f \in [0..k -> R] : f[0] = start /\ \A j \in 1..k : f[j] = next[<<f[j - 1], j>>]
    BY <1>2
  <2>. DEFINE g == [j \in 0..(k + 1) |-> IF j <= k THEN f[j] ELSE next[<<f[k], k + 1>>]]
  <2>2. k \in Nat /\ k + 1 \in 1..n /\ k \in 0..k /\ f[k] \in R /\ next[<<f[k], k + 1>>] \in R
    BY <1>2
  <2>3. g \in [0..(k + 1) -> R] /\ g[0] = start
    BY <2>1, <2>2
  <2>4. ASSUME NEW j \in 1..(k + 1) PROVE g[j] = next[<<g[j - 1], j>>]
    <3>1. CASE j <= k
      <4>1. j \in 1..k /\ j - 1 <= k /\ j - 1 \in 0..(k + 1) /\ j \in 0..(k + 1)
        BY <2>2, <3>1
      <4>2. g[j] = f[j] /\ g[j - 1] = f[j - 1]
        BY <3>1, <4>1
      <4>. QED
        BY <2>1, <4>1, <4>2
    <3>2. CASE j = k + 1
      <4>1. g[j] = next[<<f[k], j>>] /\ j - 1 = k /\ g[k] = f[k]
        BY <2>2, <3>2
      <4>. QED
        BY <4>1
    <3>. QED
      BY <2>2, <3>1, <3>2
  <2>. HIDE DEF g
  <2>5. Upto(k + 1)
    BY <2>3, <2>4
  <2>6. k + 1 \in 0..n
    BY <2>2
  <2>. HIDE DEF Upto
  <2>. QED
    BY <2>5, <2>6
<1>3. \A k \in 0..n : k \in S
  <2>. HIDE DEF S
  <2>. QED
    BY <1>1, <1>2, Climb
<1>4. n \in S
  BY <1>3
<1>. QED
  BY <1>4 DEF Climbs

-----------------------------------------------------------------------------
(* Chains: pieces without a gap, an overlap or an empty one                *)

Chain(d, from, to) ==
  /\ d # <<>> /\ d[1].start = from /\ d[Len(d)].end = to
  /\ \A k \in 1..Len(d) - 1 : d[k].end = d[k + 1].start
  /\ \A k \in 1..Len(d) : d[k].start \in Nat /\ d[k].end \in Nat /\ d[k].start < d[k].end

LEMMA ChainGrows ==
  ASSUME NEW S, NEW d \in Seq(S), NEW e \in S, NEW x, NEW y,
         d # <<>> => Chain(d, x, y), d = <<>> => x = y,
         e.start = y, e.start \in Nat, e.end \in Nat, e.start < e.end
  PROVE  Chain(Append(d, e), x, e.end)
<1>. DEFINE g == Append(d, e)
            n == Len(d)
<1>1. /\ n \in Nat /\ g # <<>> /\ Len(g) = n + 1 /\ g[n + 1] = e
      /\ \A k \in 1..n : g[k] = d[k]
  BY AppendProperties, LenProperties
<1>2. n = 0 <=> d = <<>>
  BY EmptySeq
<1>. HIDE DEF g, n
<1>3. CASE d = <<>>
  BY <1>1, <1>2, <1>3 DEF Chain, g
<1>4. CASE d # <<>>
  <2>1. n > 0 /\ d[1].start = x /\ d[n].end = y /\ g[1] = d[1] /\ g[n] = d[n]
    BY <1>1, <1>2, <1>4 DEF Chain, n
  <2>2. ASSUME NEW k \in 1..(n + 1) - 1 PROVE g[k].end = g[k + 1].start
    <3>1. CASE k = n
      BY <1>1, <2>1, <3>1
    <3>2. CASE k # n
      <4>1. k \in 1..n - 1 /\ k \in 1..n /\ k + 1 \in 1..n
        BY <1>1, <3>2
      <4>2. d[k].end = d[k + 1].start
        BY <1>4, <4>1 DEF Chain, n
      <4>. QED
        BY <1>1, <4>1, <4>2
    <3>. QED
      BY <3>1, <3>2
  <2>3. ASSUME NEW k \in 1..n + 1
        PROVE  g[k].start \in Nat /\ g[k].end \in Nat /\ g[k].start < g[k].end
    <3>1. CASE k = n + 1
      BY <1>1, <3>1
    <3>2. CASE k # n + 1
      <4>1. k \in 1..n
        BY <1>1, <3>2
      <4>. QED
        BY <1>1, <1>4, <4>1 DEF Chain, n
    <3>. QED
      BY <3>1, <3>2
  <2>. QED
    BY <1>1, <2>1, <2>2, <2>3 DEF Chain, g
<1>. QED
  BY <1>3, <1>4

\* A function on 1..n is a sequence.
LEMMA ListIs ==
  ASSUME NEW S, NEW n \in Nat, NEW s \in [1..n -> S]
  PROVE  s \in Seq(S) /\ Len(s) = n /\ (s = <<>> <=> n = 0)
<1>1. s \in Seq(S)
  OBVIOUS
<1>2. Len(s) = n
  OBVIOUS
<1>. QED
  BY <1>1, <1>2, EmptySeq

\* The last piece may be stretched.
LEMMA ChainStretches ==
  ASSUME NEW S, NEW d \in Seq(S), d # <<>>, NEW e \in S, NEW x, NEW y, Chain(d, x, y),
         e.start = d[Len(d)].start, e.end \in Nat, y < e.end
  PROVE  Chain([d EXCEPT ![Len(d)] = e], x, e.end)
<1>. DEFINE g == [d EXCEPT ![Len(d)] = e]
            n == Len(d)
<1>1. n \in Nat \ {0}
  BY EmptySeq
<1>2. n \in 1..n
  BY <1>1
<1>3. Len(g) = n /\ g[n] = e /\ \A k \in 1..n : k # n => g[k] = d[k]
  BY <1>2, ExceptSeq
<1>4. g # <<>>
  BY <1>1, <1>3, EmptySeq
<1>. HIDE DEF g, n
<1>5. /\ d[1].start = x /\ d[n].end = y /\ d[n].start < y /\ d[n].start \in Nat /\ y \in Nat
  BY <1>1, <1>2 DEF Chain, n
<1>6. g[1].start = x
  <2>1. 1 \in 1..n
    BY <1>1
  <2>. QED
    BY <1>3, <1>5, <2>1 DEF n
<1>7. ASSUME NEW k \in 1..n - 1 PROVE g[k].end = g[k + 1].start
  <2>1. k \in 1..n /\ k # n /\ k + 1 \in 1..n /\ d[k].end = d[k + 1].start
    BY <1>1 DEF Chain, n
  <2>2. g[k + 1].start = d[k + 1].start
    BY <1>3, <2>1 DEF n
  <2>. QED
    BY <1>3, <2>1, <2>2
<1>8. ASSUME NEW k \in 1..n
      PROVE  g[k].start \in Nat /\ g[k].end \in Nat /\ g[k].start < g[k].end
  <2>1. CASE k = n
    BY <1>3, <1>5, <2>1 DEF n
  <2>2. CASE k # n
    BY <1>3, <2>2 DEF Chain, n
  <2>. QED
    BY <2>1, <2>2
<1>. QED
  BY <1>3, <1>4, <1>6, <1>7, <1>8 DEF Chain, g

\* A chain may be followed by another one.
LEMMA ChainsJoin ==
  ASSUME NEW S, NEW c \in Seq(S), NEW d \in Seq(S), NEW x, NEW y, NEW z,
         c # <<>> => Chain(c, x, y), c = <<>> => x = y, Chain(d, y, z)
  PROVE  Chain(c \o d, x, z)
<1>. DEFINE g == c \o d
            m == Len(c)
            n == Len(d)
<1>1. /\ m \in Nat /\ n \in Nat \ {0} /\ Len(g) = m + n
      /\ g \in Seq(S)
      /\ \A i \in 1..m + n : g[i] = IF i <= m THEN c[i] ELSE d[i - m]
  BY ConcatProperties, LenProperties, EmptySeq DEF Chain
<1>2. (m = 0 <=> c = <<>>) /\ g # <<>>
  BY <1>1, EmptySeq
<1>. HIDE DEF g, m, n
<1>3. \A i \in 1..m : g[i] = c[i]
  BY <1>1
<1>4. \A i \in 1..n : g[m + i] = d[i]
  <2>1. ASSUME NEW i \in 1..n PROVE g[m + i] = d[i]
    <3>1. m + i \in 1..m + n /\ ~(m + i <= m) /\ (m + i) - m = i
      BY <1>1
    <3>. QED
      BY <1>1, <3>1
  <2>. QED
    BY <2>1
<1>5. 1 \in 1..n /\ n \in 1..n /\ d[1].start = y /\ g[m + 1] = d[1] /\ g[m + n] = d[n] /\ d[n].end = z
  <2>1. 1 \in 1..n /\ n \in 1..n
    BY <1>1
  <2>. QED
    BY <1>4, <2>1 DEF Chain, n
<1>6. g[1].start = x
  <2>1. CASE m = 0
    BY <1>2, <1>5, <2>1
  <2>2. CASE m > 0
    <3>1. 1 \in 1..m
      BY <1>1, <2>2
    <3>. QED
      BY <1>2, <1>3, <2>2, <3>1 DEF Chain
  <2>. QED
    BY <1>1, <2>1, <2>2
<1>7. ASSUME NEW k \in 1..(m + n) - 1 PROVE g[k].end = g[k + 1].start
  <2>1. CASE k < m
    <3>1. k \in 1..m - 1 /\ k \in 1..m /\ k + 1 \in 1..m /\ c # <<>>
      BY <1>1, <1>2, <2>1
    <3>2. c[k].end = c[k + 1].start
      BY <3>1 DEF Chain, m
    <3>. QED
      BY <1>3, <3>1, <3>2
  <2>2. CASE k = m
    <3>1. k \in 1..m /\ c # <<>>
      BY <1>1, <1>2, <2>2
    <3>2. c[m].end = y
      BY <3>1 DEF Chain, m
    <3>. QED
      BY <1>3, <1>5, <2>2, <3>1, <3>2
  <2>3. CASE k > m
    <3>1. k - m \in 1..n - 1 /\ k - m \in 1..n /\ (k - m) + 1 \in 1..n /\ m + (k - m) = k
          /\ m + ((k - m) + 1) = k + 1
      BY <1>1, <2>3
    <3>2. d[k - m].end = d[(k - m) + 1].start
      BY <3>1 DEF Chain, n
    <3>3. g[m + (k - m)] = d[k - m] /\ g[m + ((k - m) + 1)] = d[(k - m) + 1]
      BY <1>4, <3>1
    <3>. QED
      BY <3>1, <3>2, <3>3
  <2>. QED
    BY <1>1, <2>1, <2>2, <2>3
<1>8. ASSUME NEW k \in 1..m + n
      PROVE  g[k].start \in Nat /\ g[k].end \in Nat /\ g[k].start < g[k].end
  <2>1. CASE k <= m
    <3>1. k \in 1..m /\ c # <<>>
      BY <1>1, <1>2, <2>1
    <3>. QED
      BY <1>3, <3>1 DEF Chain, m
  <2>2. CASE k > m
    <3>1. k - m \in 1..n /\ m + (k - m) = k
      BY <1>1, <2>2
    <3>2. g[m + (k - m)] = d[k - m]
      BY <1>4, <3>1
    <3>3. d[k - m].start \in Nat /\ d[k - m].end \in Nat /\ d[k - m].start < d[k - m].end
      BY <3>1 DEF Chain, n
    <3>. QED
      BY <3>1, <3>2, <3>3
  <2>. QED
    BY <1>1, <2>1, <2>2
<1>. QED
  BY <1>1, <1>2, <1>5, <1>6, <1>7, <1>8 DEF Chain, g

\* The pieces of a chain are in order.
LEMMA ChainOrder ==
  ASSUME NEW S, NEW d \in Seq(S), NEW x, NEW y, Chain(d, x, y)
  PROVE  \A i, j \in 1..Len(d) : i < j => d[i].end <= d[j].start
<1>. DEFINE n == Len(d)
<1>1. n \in Nat
  BY LenProperties
<1>2. SUFFICES ASSUME NEW i \in 1..n PROVE \A j \in 1..n : i < j => d[i].end <= d[j].start
  OBVIOUS
<1>. DEFINE A == {k \in 0..n - i - 1 : d[i].end <= d[i + 1 + k].start}
<1>3. SUFFICES ASSUME i < n PROVE \A k \in 0..n - i - 1 : k \in A
  <2>1. ASSUME NEW j \in 1..n, i < j PROVE d[i].end <= d[j].start
    <3>1. j - i - 1 \in 0..n - i - 1 /\ i + 1 + (j - i - 1) = j /\ i < n
      BY <1>1, <2>1
    <3>2. j - i - 1 \in A
      BY <1>3, <3>1
    <3>. QED
      BY <3>1, <3>2
  <2>. QED
    BY <2>1
<1>4. \A k \in 1..n : d[k].start \in Nat /\ d[k].end \in Nat /\ d[k].start < d[k].end
  BY DEF Chain
<1>5. \A k \in 1..n - 1 : d[k].end = d[k + 1].start
  BY DEF Chain
<1>. HIDE DEF n, A
<1>6. 0 \in A
  <2>1. i \in 1..n - 1 /\ i + 1 + 0 = i + 1 /\ 0 \in 0..n - i - 1 /\ i + 1 \in 1..n
    BY <1>1, <1>3
  <2>2. d[i].end <= d[i + 1].start
    BY <1>4, <1>5, <2>1
  <2>. QED
    BY <2>1, <2>2 DEF A
<1>7. ASSUME NEW k \in 0..n - i - 1, k < n - i - 1, k \in A PROVE k + 1 \in A
  <2>. DEFINE j == i + 1 + k
  <2>1. /\ j \in 1..n - 1 /\ j \in 1..n /\ j + 1 \in 1..n
        /\ k + 1 \in 0..n - i - 1 /\ i + 1 + (k + 1) = j + 1
    BY <1>1, <1>3, <1>7
  <2>2. d[i].end <= d[j].start
    BY <1>7 DEF A
  <2>. HIDE DEF j
  <2>3. /\ d[j].end = d[j + 1].start /\ d[j].start < d[j].end
        /\ d[j].start \in Nat /\ d[j].end \in Nat /\ d[i].end \in Nat
    BY <1>4, <1>5, <2>1
  <2>4. d[i].end <= d[j + 1].start
    BY <2>2, <2>3
  <2>. QED
    BY <2>1, <2>4 DEF A
<1>8. n - i - 1 \in Nat
  BY <1>1, <1>3
<1>. QED
  BY <1>6, <1>7, <1>8, Climb

-----------------------------------------------------------------------------
(* What the chunker goes through, step by step                             *)

\* The pieces between two cuts of a forced split.
Pieces(cut, pack) ==
  LET pieces == CHOOSE n \in 1..pack.end - pack.start :
                  cut[n] = pack.end /\ \A m \in 1..n - 1 : cut[m] # pack.end
  IN  [k \in 1..pieces |->
         [path |-> pack.path, start |-> cut[k - 1], end |-> cut[k], forced |-> TRUE]]

\* The states that scan_lines goes through.
ScanRun(written, n, R, f) ==
  /\ f \in [0..n -> R] /\ f[0] = Unscanned
  /\ \A k \in 1..n : f[k] = AfterLine(f[k - 1], written[k])
  /\ scan_lines(written) =
                [k \in 1..n |-> Scanned(f[k - 1], f[k], written[k])]

LEMMA ScanUnfolds ==
  ASSUME NEW written, NEW n \in Nat, n = Len(written),
         NEW R, Unscanned \in R,
         \A x \in R, k \in 1..n : AfterLine(x, written[k]) \in R
  PROVE  \E f : ScanRun(written, n, R, f)
<1>. DEFINE Rec(g) == g = [k \in 0..n |-> IF k = 0 THEN Unscanned ELSE AfterLine(g[k - 1], written[k])]
            chosen == CHOOSE g : Rec(g)
            next == [x \in R \X (1..n) |-> AfterLine(x[1], written[x[2]])]
<1>1. next \in [R \X (1..n) -> R]
  <2>1. ASSUME NEW x \in R \X (1..n) PROVE AfterLine(x[1], written[x[2]]) \in R
    <3>1. x[1] \in R /\ x[2] \in 1..n
      OBVIOUS
    <3>. QED
      BY <3>1
  <2>. QED
    BY <2>1
<1>2. \A x \in R, k \in 1..n : next[<<x, k>>] = AfterLine(x, written[k])
  OBVIOUS
<1>. HIDE DEF next
<1>3. Climbs(R, Unscanned, n, next)
  BY <1>1, StepByStep
<1>4. PICK f \in [0..n -> R] : f[0] = Unscanned /\ \A k \in 1..n : f[k] = next[<<f[k - 1], k>>]
  BY <1>3 DEF Climbs
<1>5. \A k \in 1..n : f[k] = AfterLine(f[k - 1], written[k])
  <2>1. ASSUME NEW k \in 1..n PROVE f[k] = AfterLine(f[k - 1], written[k])
    <3>1. k - 1 \in 0..n /\ f[k - 1] \in R
      BY <1>4
    <3>. QED
      BY <1>2, <1>4, <3>1
  <2>. QED
    BY <2>1
<1>6. Rec(f)
  <2>1. ASSUME NEW k \in 0..n PROVE f[k] = IF k = 0 THEN Unscanned ELSE AfterLine(f[k - 1], written[k])
    <3>1. k = 0 \/ k \in 1..n
      OBVIOUS
    <3>. QED
      BY <1>4, <1>5, <3>1
  <2>2. f = [k \in 0..n |-> f[k]]
    BY <1>4
  <2>. QED
    BY <2>1, <2>2
<1>7. Rec(chosen)
  <2>. HIDE DEF Rec
  <2>. QED
    BY <1>6
<1>8. scan_lines(written) = [k \in 1..n |-> Scanned(chosen[k - 1], chosen[k], written[k])]
  BY DEF scan_lines
<1>. HIDE DEF chosen
<1>9. \A k \in 0..n : chosen[k] = f[k]
  <2>. DEFINE A == {k \in 0..n : chosen[k] = f[k]}
  <2>1. 0 \in A
    BY <1>4, <1>7
  <2>2. ASSUME NEW k \in 0..n, k < n, k \in A PROVE k + 1 \in A
    <3>1. k + 1 \in 1..n /\ k + 1 \in 0..n /\ (k + 1) - 1 = k /\ k + 1 # 0
      BY <2>2
    <3>2. chosen[k + 1] = AfterLine(chosen[k], written[k + 1])
      BY <1>7, <3>1
    <3>3. f[k + 1] = AfterLine(f[k], written[k + 1])
      BY <1>5, <3>1
    <3>. QED
      BY <2>2, <3>1, <3>2, <3>3
  <2>. HIDE DEF A
  <2>3. \A k \in 0..n : k \in A
    BY <2>1, <2>2, Climb
  <2>. QED
    BY <2>3 DEF A
<1>10. chosen = f
  <2>1. chosen = [k \in 0..n |-> chosen[k]]
    BY <1>7
  <2>. QED
    BY <1>4, <1>9, <2>1
<1>11. scan_lines(written) =
    [k \in 1..n |-> Scanned(f[k - 1], f[k], written[k])]
  BY <1>8, <1>10
<1>. QED
  BY <1>4, <1>5, <1>11 DEF ScanRun

\* Those of split_sections.
SectionsRun(scan, n, R, f) ==
  /\ f \in [0..n -> R] /\ f[0] = NoUnits
  /\ \A k \in 1..n : f[k] = AddLine(f[k - 1], scan[k])
  /\ split_sections(scan) = f[n].units

LEMMA SectionsUnfold ==
  ASSUME NEW scan, NEW n \in Nat, n = Len(scan),
         NEW R, NoUnits \in R,
         \A x \in R, k \in 1..n : AddLine(x, scan[k]) \in R
  PROVE  \E f : SectionsRun(scan, n, R, f)
<1>. DEFINE Rec(g) == g = [k \in 0..n |-> IF k = 0 THEN NoUnits ELSE AddLine(g[k - 1], scan[k])]
            chosen == CHOOSE g : Rec(g)
            next == [x \in R \X (1..n) |-> AddLine(x[1], scan[x[2]])]
<1>1. next \in [R \X (1..n) -> R]
  <2>1. ASSUME NEW x \in R \X (1..n) PROVE AddLine(x[1], scan[x[2]]) \in R
    <3>1. x[1] \in R /\ x[2] \in 1..n
      OBVIOUS
    <3>. QED
      BY <3>1
  <2>. QED
    BY <2>1
<1>2. \A x \in R, k \in 1..n : next[<<x, k>>] = AddLine(x, scan[k])
  OBVIOUS
<1>. HIDE DEF next
<1>3. Climbs(R, NoUnits, n, next)
  BY <1>1, StepByStep
<1>4. PICK f \in [0..n -> R] : f[0] = NoUnits /\ \A k \in 1..n : f[k] = next[<<f[k - 1], k>>]
  BY <1>3 DEF Climbs
<1>5. \A k \in 1..n : f[k] = AddLine(f[k - 1], scan[k])
  <2>1. ASSUME NEW k \in 1..n PROVE f[k] = AddLine(f[k - 1], scan[k])
    <3>1. k - 1 \in 0..n /\ f[k - 1] \in R
      BY <1>4
    <3>. QED
      BY <1>2, <1>4, <3>1
  <2>. QED
    BY <2>1
<1>6. Rec(f)
  <2>1. ASSUME NEW k \in 0..n PROVE f[k] = IF k = 0 THEN NoUnits ELSE AddLine(f[k - 1], scan[k])
    <3>1. k = 0 \/ k \in 1..n
      OBVIOUS
    <3>. QED
      BY <1>4, <1>5, <3>1
  <2>2. f = [k \in 0..n |-> f[k]]
    BY <1>4
  <2>. QED
    BY <2>1, <2>2
<1>7. Rec(chosen)
  <2>. HIDE DEF Rec
  <2>. QED
    BY <1>6
<1>8. split_sections(scan) = chosen[n].units
  BY DEF split_sections
<1>. HIDE DEF chosen
<1>9. \A k \in 0..n : chosen[k] = f[k]
  <2>. DEFINE A == {k \in 0..n : chosen[k] = f[k]}
  <2>1. 0 \in A
    BY <1>4, <1>7
  <2>2. ASSUME NEW k \in 0..n, k < n, k \in A PROVE k + 1 \in A
    <3>1. k + 1 \in 1..n /\ k + 1 \in 0..n /\ (k + 1) - 1 = k /\ k + 1 # 0
      BY <2>2
    <3>2. chosen[k + 1] = AddLine(chosen[k], scan[k + 1])
      BY <1>7, <3>1
    <3>3. f[k + 1] = AddLine(f[k], scan[k + 1])
      BY <1>5, <3>1
    <3>. QED
      BY <2>2, <3>1, <3>2, <3>3
  <2>. HIDE DEF A
  <2>3. \A k \in 0..n : k \in A
    BY <2>1, <2>2, Climb
  <2>. QED
    BY <2>3 DEF A
<1>10. chosen = f
  <2>1. chosen = [k \in 0..n |-> chosen[k]]
    BY <1>7
  <2>. QED
    BY <1>4, <1>9, <2>1
<1>11. split_sections(scan) = f[n].units
  BY <1>8, <1>10
<1>. QED
  BY <1>4, <1>5, <1>11 DEF SectionsRun

\* Those of pack_section.
PacksRun(us, n, R, f) ==
  /\ f \in [0..n -> R] /\ f[0] = <<>>
  /\ \A k \in 1..n : f[k] = PackUnit(f[k - 1], us[k])
  /\ Packs(us) = f[n]

LEMMA PacksUnfold ==
  ASSUME NEW us, NEW n \in Nat, n = Len(us),
         NEW R, <<>> \in R,
         \A x \in R, k \in 1..n : PackUnit(x, us[k]) \in R
  PROVE  \E f : PacksRun(us, n, R, f)
<1>. DEFINE Rec(g) == g = [k \in 0..n |-> IF k = 0 THEN <<>> ELSE PackUnit(g[k - 1], us[k])]
            chosen == CHOOSE g : Rec(g)
            next == [x \in R \X (1..n) |-> PackUnit(x[1], us[x[2]])]
<1>1. next \in [R \X (1..n) -> R]
  <2>1. ASSUME NEW x \in R \X (1..n) PROVE PackUnit(x[1], us[x[2]]) \in R
    <3>1. x[1] \in R /\ x[2] \in 1..n
      OBVIOUS
    <3>. QED
      BY <3>1
  <2>. QED
    BY <2>1
<1>2. \A x \in R, k \in 1..n : next[<<x, k>>] = PackUnit(x, us[k])
  OBVIOUS
<1>. HIDE DEF next
<1>3. Climbs(R, <<>>, n, next)
  BY <1>1, StepByStep
<1>4. PICK f \in [0..n -> R] : f[0] = <<>> /\ \A k \in 1..n : f[k] = next[<<f[k - 1], k>>]
  BY <1>3 DEF Climbs
<1>5. \A k \in 1..n : f[k] = PackUnit(f[k - 1], us[k])
  <2>1. ASSUME NEW k \in 1..n PROVE f[k] = PackUnit(f[k - 1], us[k])
    <3>1. k - 1 \in 0..n /\ f[k - 1] \in R
      BY <1>4
    <3>. QED
      BY <1>2, <1>4, <3>1
  <2>. QED
    BY <2>1
<1>6. Rec(f)
  <2>1. ASSUME NEW k \in 0..n PROVE f[k] = IF k = 0 THEN <<>> ELSE PackUnit(f[k - 1], us[k])
    <3>1. k = 0 \/ k \in 1..n
      OBVIOUS
    <3>. QED
      BY <1>4, <1>5, <3>1
  <2>2. f = [k \in 0..n |-> f[k]]
    BY <1>4
  <2>. QED
    BY <2>1, <2>2
<1>7. Rec(chosen)
  <2>. HIDE DEF Rec
  <2>. QED
    BY <1>6
<1>8. Packs(us) = chosen[n]
  BY DEF Packs
<1>. HIDE DEF chosen
<1>9. \A k \in 0..n : chosen[k] = f[k]
  <2>. DEFINE A == {k \in 0..n : chosen[k] = f[k]}
  <2>1. 0 \in A
    BY <1>4, <1>7
  <2>2. ASSUME NEW k \in 0..n, k < n, k \in A PROVE k + 1 \in A
    <3>1. k + 1 \in 1..n /\ k + 1 \in 0..n /\ (k + 1) - 1 = k /\ k + 1 # 0
      BY <2>2
    <3>2. chosen[k + 1] = PackUnit(chosen[k], us[k + 1])
      BY <1>7, <3>1
    <3>3. f[k + 1] = PackUnit(f[k], us[k + 1])
      BY <1>5, <3>1
    <3>. QED
      BY <2>2, <3>1, <3>2, <3>3
  <2>. HIDE DEF A
  <2>3. \A k \in 0..n : k \in A
    BY <2>1, <2>2, Climb
  <2>. QED
    BY <2>3 DEF A
<1>10. chosen = f
  <2>1. chosen = [k \in 0..n |-> chosen[k]]
    BY <1>7
  <2>. QED
    BY <1>4, <1>9, <2>1
<1>11. Packs(us) = f[n]
  BY <1>8, <1>10
<1>. QED
  BY <1>4, <1>5, <1>11 DEF PacksRun

\* The cuts of force_split.
CutsRun(scan, pack, max, n, R, f) ==
  /\ f \in [0..n -> R] /\ f[0] = pack.start
  /\ \A k \in 1..n : f[k] = NextCut(scan, f[k - 1], pack.end, max)
  /\ ForceSplit(scan, pack, max) = Pieces(f, pack)

LEMMA CutsUnfold ==
  ASSUME NEW scan, NEW pack, NEW max, NEW n \in Nat, n = pack.end - pack.start,
         NEW R, pack.start \in R,
         \A x \in R, k \in 1..n : NextCut(scan, x, pack.end, max) \in R
  PROVE  \E f : CutsRun(scan, pack, max, n, R, f)
<1>. DEFINE Rec(g) == g = [k \in 0..n |-> IF k = 0 THEN pack.start ELSE NextCut(scan, g[k - 1], pack.end, max)]
            chosen == CHOOSE g : Rec(g)
            next == [x \in R \X (1..n) |-> NextCut(scan, x[1], pack.end, max)]
<1>1. next \in [R \X (1..n) -> R]
  <2>1. ASSUME NEW x \in R \X (1..n) PROVE NextCut(scan, x[1], pack.end, max) \in R
    <3>1. x[1] \in R /\ x[2] \in 1..n
      OBVIOUS
    <3>. QED
      BY <3>1
  <2>. QED
    BY <2>1
<1>2. \A x \in R, k \in 1..n : next[<<x, k>>] = NextCut(scan, x, pack.end, max)
  OBVIOUS
<1>. HIDE DEF next
<1>3. Climbs(R, pack.start, n, next)
  BY <1>1, StepByStep
<1>4. PICK f \in [0..n -> R] : f[0] = pack.start /\ \A k \in 1..n : f[k] = next[<<f[k - 1], k>>]
  BY <1>3 DEF Climbs
<1>5. \A k \in 1..n : f[k] = NextCut(scan, f[k - 1], pack.end, max)
  <2>1. ASSUME NEW k \in 1..n PROVE f[k] = NextCut(scan, f[k - 1], pack.end, max)
    <3>1. k - 1 \in 0..n /\ f[k - 1] \in R
      BY <1>4
    <3>. QED
      BY <1>2, <1>4, <3>1
  <2>. QED
    BY <2>1
<1>6. Rec(f)
  <2>1. ASSUME NEW k \in 0..n PROVE f[k] = IF k = 0 THEN pack.start ELSE NextCut(scan, f[k - 1], pack.end, max)
    <3>1. k = 0 \/ k \in 1..n
      OBVIOUS
    <3>. QED
      BY <1>4, <1>5, <3>1
  <2>2. f = [k \in 0..n |-> f[k]]
    BY <1>4
  <2>. QED
    BY <2>1, <2>2
<1>7. Rec(chosen)
  <2>. HIDE DEF Rec
  <2>. QED
    BY <1>6
<1>8. ForceSplit(scan, pack, max) = Pieces(chosen, pack)
  BY DEF ForceSplit, Pieces
<1>. HIDE DEF chosen
<1>9. \A k \in 0..n : chosen[k] = f[k]
  <2>. DEFINE A == {k \in 0..n : chosen[k] = f[k]}
  <2>1. 0 \in A
    BY <1>4, <1>7
  <2>2. ASSUME NEW k \in 0..n, k < n, k \in A PROVE k + 1 \in A
    <3>1. k + 1 \in 1..n /\ k + 1 \in 0..n /\ (k + 1) - 1 = k /\ k + 1 # 0
      BY <2>2
    <3>2. chosen[k + 1] = NextCut(scan, chosen[k], pack.end, max)
      BY <1>7, <3>1
    <3>3. f[k + 1] = NextCut(scan, f[k], pack.end, max)
      BY <1>5, <3>1
    <3>. QED
      BY <2>2, <3>1, <3>2, <3>3
  <2>. HIDE DEF A
  <2>3. \A k \in 0..n : k \in A
    BY <2>1, <2>2, Climb
  <2>. QED
    BY <2>3 DEF A
<1>10. chosen = f
  <2>1. chosen = [k \in 0..n |-> chosen[k]]
    BY <1>7
  <2>. QED
    BY <1>4, <1>9, <2>1
<1>11. ForceSplit(scan, pack, max) = Pieces(f, pack)
  BY <1>8, <1>10
<1>. QED
  BY <1>4, <1>5, <1>11 DEF CutsRun

\* The drafts of pack after pack.
DraftsRun(scan, packs, n, R, f) ==
  /\ f \in [0..n -> R] /\ f[0] = <<>>
  /\ \A k \in 1..n : f[k] = f[k - 1] \o DraftsOf(scan, packs[k])
  /\ Drafts(scan, packs) = f[n]

LEMMA DraftsUnfold ==
  ASSUME NEW scan, NEW packs, NEW n \in Nat, n = Len(packs),
         NEW R, <<>> \in R,
         \A x \in R, k \in 1..n : x \o DraftsOf(scan, packs[k]) \in R
  PROVE  \E f : DraftsRun(scan, packs, n, R, f)
<1>. DEFINE Rec(g) == g = [k \in 0..n |-> IF k = 0 THEN <<>> ELSE g[k - 1] \o DraftsOf(scan, packs[k])]
            chosen == CHOOSE g : Rec(g)
            next == [x \in R \X (1..n) |-> x[1] \o DraftsOf(scan, packs[x[2]])]
<1>1. next \in [R \X (1..n) -> R]
  <2>1. ASSUME NEW x \in R \X (1..n) PROVE x[1] \o DraftsOf(scan, packs[x[2]]) \in R
    <3>1. x[1] \in R /\ x[2] \in 1..n
      OBVIOUS
    <3>. QED
      BY <3>1
  <2>. QED
    BY <2>1
<1>2. \A x \in R, k \in 1..n : next[<<x, k>>] = x \o DraftsOf(scan, packs[k])
  OBVIOUS
<1>. HIDE DEF next
<1>3. Climbs(R, <<>>, n, next)
  BY <1>1, StepByStep
<1>4. PICK f \in [0..n -> R] : f[0] = <<>> /\ \A k \in 1..n : f[k] = next[<<f[k - 1], k>>]
  BY <1>3 DEF Climbs
<1>5. \A k \in 1..n : f[k] = f[k - 1] \o DraftsOf(scan, packs[k])
  <2>1. ASSUME NEW k \in 1..n PROVE f[k] = f[k - 1] \o DraftsOf(scan, packs[k])
    <3>1. k - 1 \in 0..n /\ f[k - 1] \in R
      BY <1>4
    <3>. QED
      BY <1>2, <1>4, <3>1
  <2>. QED
    BY <2>1
<1>6. Rec(f)
  <2>1. ASSUME NEW k \in 0..n PROVE f[k] = IF k = 0 THEN <<>> ELSE f[k - 1] \o DraftsOf(scan, packs[k])
    <3>1. k = 0 \/ k \in 1..n
      OBVIOUS
    <3>. QED
      BY <1>4, <1>5, <3>1
  <2>2. f = [k \in 0..n |-> f[k]]
    BY <1>4
  <2>. QED
    BY <2>1, <2>2
<1>7. Rec(chosen)
  <2>. HIDE DEF Rec
  <2>. QED
    BY <1>6
<1>8. Drafts(scan, packs) = chosen[n]
  BY DEF Drafts
<1>. HIDE DEF chosen
<1>9. \A k \in 0..n : chosen[k] = f[k]
  <2>. DEFINE A == {k \in 0..n : chosen[k] = f[k]}
  <2>1. 0 \in A
    BY <1>4, <1>7
  <2>2. ASSUME NEW k \in 0..n, k < n, k \in A PROVE k + 1 \in A
    <3>1. k + 1 \in 1..n /\ k + 1 \in 0..n /\ (k + 1) - 1 = k /\ k + 1 # 0
      BY <2>2
    <3>2. chosen[k + 1] = chosen[k] \o DraftsOf(scan, packs[k + 1])
      BY <1>7, <3>1
    <3>3. f[k + 1] = f[k] \o DraftsOf(scan, packs[k + 1])
      BY <1>5, <3>1
    <3>. QED
      BY <2>2, <3>1, <3>2, <3>3
  <2>. HIDE DEF A
  <2>3. \A k \in 0..n : k \in A
    BY <2>1, <2>2, Climb
  <2>. QED
    BY <2>3 DEF A
<1>10. chosen = f
  <2>1. chosen = [k \in 0..n |-> chosen[k]]
    BY <1>7
  <2>. QED
    BY <1>4, <1>9, <2>1
<1>11. Drafts(scan, packs) = f[n]
  BY <1>8, <1>10
<1>. QED
  BY <1>4, <1>5, <1>11 DEF DraftsRun

\* The states of merge_small_siblings.
MergesRun(drafts, n, R, f) ==
  /\ f \in [0..n -> R] /\ f[0] = <<>>
  /\ \A k \in 1..n : f[k] = MergeDraft(f[k - 1], drafts[k])
  /\ Merged(drafts) = f[n]

LEMMA MergesUnfold ==
  ASSUME NEW drafts, NEW n \in Nat, n = Len(drafts),
         NEW R, <<>> \in R,
         \A x \in R, k \in 1..n : MergeDraft(x, drafts[k]) \in R
  PROVE  \E f : MergesRun(drafts, n, R, f)
<1>. DEFINE Rec(g) == g = [k \in 0..n |-> IF k = 0 THEN <<>> ELSE MergeDraft(g[k - 1], drafts[k])]
            chosen == CHOOSE g : Rec(g)
            next == [x \in R \X (1..n) |-> MergeDraft(x[1], drafts[x[2]])]
<1>1. next \in [R \X (1..n) -> R]
  <2>1. ASSUME NEW x \in R \X (1..n) PROVE MergeDraft(x[1], drafts[x[2]]) \in R
    <3>1. x[1] \in R /\ x[2] \in 1..n
      OBVIOUS
    <3>. QED
      BY <3>1
  <2>. QED
    BY <2>1
<1>2. \A x \in R, k \in 1..n : next[<<x, k>>] = MergeDraft(x, drafts[k])
  OBVIOUS
<1>. HIDE DEF next
<1>3. Climbs(R, <<>>, n, next)
  BY <1>1, StepByStep
<1>4. PICK f \in [0..n -> R] : f[0] = <<>> /\ \A k \in 1..n : f[k] = next[<<f[k - 1], k>>]
  BY <1>3 DEF Climbs
<1>5. \A k \in 1..n : f[k] = MergeDraft(f[k - 1], drafts[k])
  <2>1. ASSUME NEW k \in 1..n PROVE f[k] = MergeDraft(f[k - 1], drafts[k])
    <3>1. k - 1 \in 0..n /\ f[k - 1] \in R
      BY <1>4
    <3>. QED
      BY <1>2, <1>4, <3>1
  <2>. QED
    BY <2>1
<1>6. Rec(f)
  <2>1. ASSUME NEW k \in 0..n PROVE f[k] = IF k = 0 THEN <<>> ELSE MergeDraft(f[k - 1], drafts[k])
    <3>1. k = 0 \/ k \in 1..n
      OBVIOUS
    <3>. QED
      BY <1>4, <1>5, <3>1
  <2>2. f = [k \in 0..n |-> f[k]]
    BY <1>4
  <2>. QED
    BY <2>1, <2>2
<1>7. Rec(chosen)
  <2>. HIDE DEF Rec
  <2>. QED
    BY <1>6
<1>8. Merged(drafts) = chosen[n]
  BY DEF Merged
<1>. HIDE DEF chosen
<1>9. \A k \in 0..n : chosen[k] = f[k]
  <2>. DEFINE A == {k \in 0..n : chosen[k] = f[k]}
  <2>1. 0 \in A
    BY <1>4, <1>7
  <2>2. ASSUME NEW k \in 0..n, k < n, k \in A PROVE k + 1 \in A
    <3>1. k + 1 \in 1..n /\ k + 1 \in 0..n /\ (k + 1) - 1 = k /\ k + 1 # 0
      BY <2>2
    <3>2. chosen[k + 1] = MergeDraft(chosen[k], drafts[k + 1])
      BY <1>7, <3>1
    <3>3. f[k + 1] = MergeDraft(f[k], drafts[k + 1])
      BY <1>5, <3>1
    <3>. QED
      BY <2>2, <3>1, <3>2, <3>3
  <2>. HIDE DEF A
  <2>3. \A k \in 0..n : k \in A
    BY <2>1, <2>2, Climb
  <2>. QED
    BY <2>3 DEF A
<1>10. chosen = f
  <2>1. chosen = [k \in 0..n |-> chosen[k]]
    BY <1>7
  <2>. QED
    BY <1>4, <1>9, <2>1
<1>11. Merged(drafts) = f[n]
  BY <1>8, <1>10
<1>. QED
  BY <1>4, <1>5, <1>11 DEF MergesRun

\* The drafts, halved and halved again.
CapsRun(drafts, n, R, f) ==
  /\ f \in [0..n -> R] /\ f[0] = drafts
  /\ \A k \in 1..n : f[k] = Cap(f[k - 1])
  /\ Capped(drafts) = f[n]

LEMMA CapsUnfold ==
  ASSUME NEW drafts, NEW n \in Nat, n = Len(drafts),
         NEW R, drafts \in R,
         \A x \in R, k \in 1..n : Cap(x) \in R
  PROVE  \E f : CapsRun(drafts, n, R, f)
<1>. DEFINE Rec(g) == g = [k \in 0..n |-> IF k = 0 THEN drafts ELSE Cap(g[k - 1])]
            chosen == CHOOSE g : Rec(g)
            next == [x \in R \X (1..n) |-> Cap(x[1])]
<1>1. next \in [R \X (1..n) -> R]
  <2>1. ASSUME NEW x \in R \X (1..n) PROVE Cap(x[1]) \in R
    <3>1. x[1] \in R /\ x[2] \in 1..n
      OBVIOUS
    <3>. QED
      BY <3>1
  <2>. QED
    BY <2>1
<1>2. \A x \in R, k \in 1..n : next[<<x, k>>] = Cap(x)
  OBVIOUS
<1>. HIDE DEF next
<1>3. Climbs(R, drafts, n, next)
  BY <1>1, StepByStep
<1>4. PICK f \in [0..n -> R] : f[0] = drafts /\ \A k \in 1..n : f[k] = next[<<f[k - 1], k>>]
  BY <1>3 DEF Climbs
<1>5. \A k \in 1..n : f[k] = Cap(f[k - 1])
  <2>1. ASSUME NEW k \in 1..n PROVE f[k] = Cap(f[k - 1])
    <3>1. k - 1 \in 0..n /\ f[k - 1] \in R
      BY <1>4
    <3>. QED
      BY <1>2, <1>4, <3>1
  <2>. QED
    BY <2>1
<1>6. Rec(f)
  <2>1. ASSUME NEW k \in 0..n PROVE f[k] = IF k = 0 THEN drafts ELSE Cap(f[k - 1])
    <3>1. k = 0 \/ k \in 1..n
      OBVIOUS
    <3>. QED
      BY <1>4, <1>5, <3>1
  <2>2. f = [k \in 0..n |-> f[k]]
    BY <1>4
  <2>. QED
    BY <2>1, <2>2
<1>7. Rec(chosen)
  <2>. HIDE DEF Rec
  <2>. QED
    BY <1>6
<1>8. Capped(drafts) = chosen[n]
  BY DEF Capped
<1>. HIDE DEF chosen
<1>9. \A k \in 0..n : chosen[k] = f[k]
  <2>. DEFINE A == {k \in 0..n : chosen[k] = f[k]}
  <2>1. 0 \in A
    BY <1>4, <1>7
  <2>2. ASSUME NEW k \in 0..n, k < n, k \in A PROVE k + 1 \in A
    <3>1. k + 1 \in 1..n /\ k + 1 \in 0..n /\ (k + 1) - 1 = k /\ k + 1 # 0
      BY <2>2
    <3>2. chosen[k + 1] = Cap(chosen[k])
      BY <1>7, <3>1
    <3>3. f[k + 1] = Cap(f[k])
      BY <1>5, <3>1
    <3>. QED
      BY <2>2, <3>1, <3>2, <3>3
  <2>. HIDE DEF A
  <2>3. \A k \in 0..n : k \in A
    BY <2>1, <2>2, Climb
  <2>. QED
    BY <2>3 DEF A
<1>10. chosen = f
  <2>1. chosen = [k \in 0..n |-> chosen[k]]
    BY <1>7
  <2>. QED
    BY <1>4, <1>9, <2>1
<1>11. Capped(drafts) = f[n]
  BY <1>8, <1>10
<1>. QED
  BY <1>4, <1>5, <1>11 DEF CapsRun

-----------------------------------------------------------------------------
(* The lines of a page                                                     *)

LineTitles == {line.title : line \in Lines}
Paths == Seq(LineTitles)
Fences == [mark : {"none"} \cup {line.mark : line \in Lines}, run : Nat]
ScanStates == [fence : Fences, end : Nat, path : Paths]
ScanRecs ==
  [start : Nat, end : Nat, blank : BOOLEAN, inFence : BOOLEAN, table : BOOLEAN, boundary : BOOLEAN,
   level : Nat, title : LineTitles, width : Nat, path : Paths]

\* The lines follow one another, and the path changes at a heading only.
IsScan(s) ==
  /\ s \in Seq(ScanRecs)
  /\ s # <<>> => Chain(s, 0, s[Len(s)].end)
  /\ \A i \in 1..Len(s) : s[i].width \in 1..HardMax
  /\ \A i \in 1..Len(s) - 1 : ~s[i + 1].boundary => s[i + 1].path = s[i].path

LEMMA AfterTyped ==
  ASSUME NEW x \in ScanStates, NEW line \in Lines
  PROVE  AfterLine(x, line) \in ScanStates /\ AfterLine(x, line).end = x.end + line.len
<1>1. x.fence \in Fences /\ x.end \in Nat /\ x.path \in Paths
  BY DEF ScanStates
<1>2. FenceAfter(x.fence, line) \in Fences
  BY <1>1, ChunkAssumption DEF FenceAfter, Fences, NoFence
<1>3. ASSUME line.kind = "heading" PROVE PathAfter(x.path, line) \in Paths
  <2>. DEFINE m == IF Len(x.path) < line.level - 1 THEN Len(x.path) ELSE line.level - 1
  <2>1. Len(x.path) \in Nat /\ \A i \in 1..Len(x.path) : x.path[i] \in LineTitles
    BY <1>1, LenProperties, ElementOfSeq DEF Paths
  <2>2. m \in Nat /\ m <= Len(x.path)
    BY <1>3, <2>1, ChunkAssumption
  <2>. HIDE DEF m
  <2>3. \A i \in 1..m : x.path[i] \in LineTitles
    BY <2>1, <2>2
  <2>4. SubSeq(x.path, 1, m) \in Paths
    BY <2>2, <2>3, SubSeqProperties DEF Paths
  <2>5. line.title \in LineTitles
    BY DEF LineTitles
  <2>6. Append(SubSeq(x.path, 1, m), line.title) \in Paths
    BY <2>4, <2>5, AppendProperties DEF Paths
  <2>. QED
    BY <2>6 DEF PathAfter, m
<1>4. line.len \in Nat
  BY ChunkAssumption
<1>5. (IF Divides(x, line) THEN PathAfter(x.path, line) ELSE x.path) \in Paths
  BY <1>1, <1>3 DEF Divides
<1>. QED
  BY <1>1, <1>2, <1>4, <1>5 DEF AfterLine, ScanStates

LEMMA ScannedTyped ==
  ASSUME NEW x \in ScanStates, NEW line \in Lines
  PROVE  /\ Scanned(x, AfterLine(x, line), line) \in ScanRecs
         /\ Scanned(x, AfterLine(x, line), line).start = x.end
         /\ Scanned(x, AfterLine(x, line), line).end = x.end + line.len
         /\ Scanned(x, AfterLine(x, line), line).width = line.width
         /\ Scanned(x, AfterLine(x, line), line).path = AfterLine(x, line).path
         /\ ~Scanned(x, AfterLine(x, line), line).boundary => AfterLine(x, line).path = x.path
<1>. DEFINE after == AfterLine(x, line)
            s == Scanned(x, after, line)
<1>1. after \in ScanStates /\ after.end = x.end + line.len /\ x.end \in Nat
  BY AfterTyped DEF ScanStates
<1>2. line.title \in LineTitles /\ line.level \in Nat /\ line.width \in Nat
  BY ChunkAssumption DEF LineTitles
<1>3. ~Divides(x, line) => after.path = x.path
  BY DEF AfterLine
<1>. HIDE DEF after
<1>4. Divides(x, line) \in BOOLEAN
  BY DEF Divides
<1>5. /\ s.start = x.end /\ s.end = after.end /\ s.width = line.width /\ s.path = after.path
      /\ s.boundary = Divides(x, line)
  BY DEF Scanned
<1>6. s \in ScanRecs
  BY <1>1, <1>2, <1>4 DEF Scanned, ScanRecs, ScanStates
<1>. HIDE DEF s
<1>. QED
  BY <1>1, <1>3, <1>5, <1>6 DEF s, after

LEMMA ScanIs ==
  ASSUME NEW written \in Seq(Lines)
  PROVE  IsScan(scan_lines(written))
<1>. DEFINE n == Len(written)
<1>1. n \in Nat /\ \A k \in 1..n : written[k] \in Lines
  BY LenProperties, ElementOfSeq
<1>2. Unscanned \in ScanStates
  <2>1. NoFence \in Fences /\ <<>> \in Paths
    BY EmptySeq DEF NoFence, Fences, Paths
  <2>. QED
    BY <2>1 DEF ScanStates, Unscanned
<1>3. \A x \in ScanStates, k \in 1..n : AfterLine(x, written[k]) \in ScanStates
  BY <1>1, AfterTyped
<1>4. PICK f : ScanRun(written, n, ScanStates, f)
  <2>. HIDE DEF n
  <2>1. n = Len(written)
    BY DEF n
  <2>. QED
    BY <1>1, <1>2, <1>3, <2>1, ScanUnfolds
<1>. USE <1>4 DEF ScanRun
<1>. DEFINE s == [k \in 1..n |-> Scanned(f[k - 1], f[k], written[k])]
<1>5. ASSUME NEW k \in 1..n
      PROVE  /\ s[k] \in ScanRecs /\ s[k].start = f[k - 1].end /\ s[k].end = f[k].end
             /\ s[k].start < s[k].end /\ s[k].width \in 1..HardMax /\ s[k].path = f[k].path
             /\ ~s[k].boundary => s[k].path = f[k - 1].path
  <2>1. /\ k - 1 \in 0..n /\ f[k - 1] \in ScanStates /\ written[k] \in Lines
        /\ f[k] = AfterLine(f[k - 1], written[k])
    BY <1>1, <1>4
  <2>2. s[k] = Scanned(f[k - 1], AfterLine(f[k - 1], written[k]), written[k])
    BY <2>1
  <2>3. f[k].end = f[k - 1].end + written[k].len /\ f[k - 1].end \in Nat
    BY <2>1, AfterTyped DEF ScanStates
  <2>4. written[k].len \in Nat \ {0} /\ written[k].width \in 1..HardMax
    BY <2>1, ChunkAssumption
  <2>. HIDE DEF s
  <2>5. /\ s[k] \in ScanRecs /\ s[k].start = f[k - 1].end /\ s[k].end = f[k - 1].end + written[k].len
        /\ s[k].width = written[k].width /\ s[k].path = f[k].path
        /\ ~s[k].boundary => f[k].path = f[k - 1].path
    BY <2>1, <2>2, ScannedTyped
  <2>. QED
    BY <2>3, <2>4, <2>5
<1>6. s \in Seq(ScanRecs) /\ Len(s) = n /\ (s = <<>> <=> n = 0)
  <2>1. s \in [1..n -> ScanRecs]
    BY <1>5
  <2>. HIDE DEF s
  <2>. QED
    BY <1>1, <2>1, ListIs
<1>. HIDE DEF s, n
<1>7. ASSUME NEW k \in 1..n - 1
      PROVE  s[k].end = s[k + 1].start /\ (~s[k + 1].boundary => s[k + 1].path = s[k].path)
  <2>1. k \in 1..n /\ k + 1 \in 1..n /\ (k + 1) - 1 = k
    BY <1>1
  <2>2. s[k].end = f[k].end /\ s[k].path = f[k].path
    BY <1>5, <2>1
  <2>3. s[k + 1].start = f[k].end /\ (~s[k + 1].boundary => s[k + 1].path = f[k].path)
    BY <1>5, <2>1
  <2>. QED
    BY <2>2, <2>3
<1>8. ASSUME s # <<>> PROVE Chain(s, 0, s[Len(s)].end)
  <2>1. 1 \in 1..n /\ 1 - 1 = 0
    BY <1>1, <1>6, <1>8
  <2>2. s[1].start = 0
    BY <1>5, <2>1 DEF Unscanned
  <2>3. \A k \in 1..n : s[k].start \in Nat /\ s[k].end \in Nat /\ s[k].start < s[k].end
    BY <1>5 DEF ScanRecs
  <2>. QED
    BY <1>6, <1>7, <1>8, <2>2, <2>3 DEF Chain
<1>9. IsScan(s)
  BY <1>5, <1>6, <1>7, <1>8 DEF IsScan
<1>. QED
  BY <1>4, <1>9 DEF s

\* Lines are in order.
LEMMA ScanOrder ==
  ASSUME NEW s, IsScan(s)
  PROVE  /\ Len(s) \in Nat
         /\ \A i \in 1..Len(s) : s[i] \in ScanRecs /\ s[i].start < s[i].end
                               /\ s[i].start \in Nat /\ s[i].end \in Nat
         /\ \A i, j \in 1..Len(s) : i < j => s[i].end <= s[j].start
         /\ \A i \in 1..Len(s) - 1 : s[i].end = s[i + 1].start
<1>1. s \in Seq(ScanRecs) /\ Len(s) \in Nat /\ (s = <<>> => Len(s) = 0)
  BY LenProperties, EmptySeq DEF IsScan
<1>2. \A i \in 1..Len(s) : s[i] \in ScanRecs
  BY <1>1, ElementOfSeq
<1>3. CASE s = <<>>
  BY <1>1, <1>3
<1>4. CASE s # <<>>
  <2>1. Chain(s, 0, s[Len(s)].end)
    BY <1>4 DEF IsScan
  <2>2. \A i, j \in 1..Len(s) : i < j => s[i].end <= s[j].start
    BY <1>1, <2>1, ChainOrder
  <2>. QED
    BY <1>1, <1>2, <2>1, <2>2 DEF Chain
<1>. QED
  BY <1>3, <1>4

-----------------------------------------------------------------------------
(* Its units                                                               *)

UnitRecs ==
  [start : Nat, end : Nat, fence : BOOLEAN, tables : Nat, rows : Nat, path : Paths, section : Nat]
UnitStates == [section : Nat, afterBlank : BOOLEAN, units : Seq(UnitRecs)]

\* The lines that begin in a piece; a piece of whole lines; one of one path.
Within(s, c) == {i \in 1..Len(s) : c.start <= s[i].start /\ s[i].start < c.end}
Aligned(s, c) == \E i, j \in 1..Len(s) : c.start = s[i].start /\ c.end = s[j].end
OnePath(s, c) == \A i \in Within(s, c) : s[i].path = c.path
GoodUnits(s) == {u \in UnitRecs : Aligned(s, u) /\ OnePath(s, u)}

\* Two units of a section have one path.
Neighbours(us) ==
  \A k \in 1..Len(us) - 1 : us[k].section = us[k + 1].section => us[k].path = us[k + 1].path

IsUnits(s, us) ==
  /\ us \in Seq(GoodUnits(s)) /\ (us = <<>> <=> s = <<>>)
  /\ us # <<>> => Chain(us, 0, s[Len(s)].end)
  /\ Neighbours(us)

\* A line adds a unit, or to the last one.
NewUnit(x, line, e, y) ==
  /\ y.units = Append(x.units, e) /\ e.start = line.start /\ e.end = line.end
  /\ e.path = line.path /\ e.section = x.section + One(line.boundary)
LongerUnit(x, line, e, y) ==
  /\ x.units # <<>> /\ ~line.boundary /\ y.units = [x.units EXCEPT ![Len(x.units)] = e]
  /\ e.start = x.units[Len(x.units)].start /\ e.end = line.end
  /\ e.path = x.units[Len(x.units)].path /\ e.section = x.units[Len(x.units)].section

LEMMA AddLineTyped ==
  ASSUME NEW x \in UnitStates, NEW line \in ScanRecs
  PROVE  /\ AddLine(x, line) \in UnitStates
         /\ AddLine(x, line).section = x.section + One(line.boundary)
         /\ \E e \in UnitRecs :
              NewUnit(x, line, e, AddLine(x, line)) \/ LongerUnit(x, line, e, AddLine(x, line))
<1>. DEFINE us == x.units
            last == Len(us)
            section == x.section + One(line.boundary)
<1>1. us \in Seq(UnitRecs) /\ x.section \in Nat /\ last \in Nat /\ (us # <<>> => last \in 1..last)
  <2>1. us \in Seq(UnitRecs) /\ x.section \in Nat
    BY DEF UnitStates
  <2>. QED
    BY <2>1, EmptySeq
<1>2. /\ line.start \in Nat /\ line.end \in Nat /\ line.path \in Paths /\ line.boundary \in BOOLEAN
      /\ line.inFence \in BOOLEAN /\ line.table \in BOOLEAN /\ line.blank \in BOOLEAN
  BY DEF ScanRecs
<1>3. /\ section \in Nat /\ One(line.table) \in Nat /\ One(~line.blank) \in Nat
      /\ (line.blank /\ ~line.inFence) \in BOOLEAN
  BY <1>1, <1>2 DEF One
<1>. HIDE DEF section
<1>4. CASE us = <<>> \/ line.boundary \/ (x.afterBlank /\ ~line.blank)
  <2>. DEFINE e == [start |-> line.start, end |-> line.end, fence |-> line.inFence,
                    tables |-> One(line.table), rows |-> One(~line.blank),
                    path |-> line.path, section |-> section]
  <2>1. e \in UnitRecs /\ e.start = line.start /\ e.end = line.end /\ e.path = line.path /\ e.section = section
    BY <1>2, <1>3 DEF UnitRecs
  <2>2. AddLine(x, line) = [section |-> section, afterBlank |-> line.blank /\ ~line.inFence,
                            units |-> Append(us, e)]
    BY <1>4 DEF AddLine, section
  <2>. HIDE DEF e, us
  <2>3. Append(us, e) \in Seq(UnitRecs)
    BY <1>1, <2>1, AppendProperties
  <2>4. AddLine(x, line) \in UnitStates /\ AddLine(x, line).section = section
        /\ AddLine(x, line).units = Append(us, e)
    BY <1>3, <2>2, <2>3 DEF UnitStates
  <2>. QED
    BY <2>1, <2>4 DEF us, section, NewUnit
<1>5. CASE ~(us = <<>> \/ line.boundary \/ (x.afterBlank /\ ~line.blank))
  <2>. DEFINE u == us[last]
              e == [u EXCEPT !.end = line.end, !.fence = @ \/ line.inFence,
                             !.tables = @ + One(line.table), !.rows = @ + One(~line.blank)]
              g == [us EXCEPT
                     ![last].end = line.end, ![last].fence = @ \/ line.inFence,
                     ![last].tables = @ + One(line.table), ![last].rows = @ + One(~line.blank)]
  <2>1. last \in 1..last /\ u \in UnitRecs /\ us \in [1..last -> UnitRecs]
    BY <1>1, <1>5, ElementOfSeq, LenProperties
  <2>2. /\ e \in UnitRecs /\ e.start = u.start /\ e.end = line.end /\ e.path = u.path
        /\ e.section = u.section
    <3>. HIDE DEF u
    <3>1. /\ u.start \in Nat /\ (u.fence \/ line.inFence) \in BOOLEAN /\ u.path \in Paths
          /\ u.tables + One(line.table) \in Nat /\ u.rows + One(~line.blank) \in Nat /\ u.section \in Nat
      BY <1>2, <1>3, <2>1 DEF UnitRecs
    <3>2. e = [start |-> u.start, end |-> line.end, fence |-> u.fence \/ line.inFence,
               tables |-> u.tables + One(line.table), rows |-> u.rows + One(~line.blank),
               path |-> u.path, section |-> u.section]
      <4>. DEFINE fence == u.fence \/ line.inFence
                  tables == u.tables + One(line.table)
                  solid == u.rows + One(~line.blank)
      <4>1. e = [u EXCEPT !.end = line.end, !.fence = fence, !.tables = tables, !.rows = solid]
        BY <2>1 DEF UnitRecs
      <4>. HIDE DEF e, fence, tables, solid
      <4>2. e = [start |-> u.start, end |-> line.end, fence |-> fence, tables |-> tables,
                 rows |-> solid, path |-> u.path, section |-> u.section]
        BY <2>1, <4>1 DEF UnitRecs
      <4>. QED
        BY <4>2 DEF fence, tables, solid
    <3>. HIDE DEF e
    <3>. QED
      BY <1>2, <3>1, <3>2 DEF UnitRecs
  <2>3. g = [us EXCEPT ![last] = e]
    <3>. HIDE DEF us, last
    <3>. QED
      BY <2>1
  <2>4. AddLine(x, line) = [section |-> section, afterBlank |-> line.blank /\ ~line.inFence, units |-> g]
    BY <1>5 DEF AddLine, section
  <2>. HIDE DEF e, g, us, u, last
  <2>5. g \in Seq(UnitRecs)
    BY <1>1, <2>1, <2>2, <2>3, ExceptSeq DEF last
  <2>6. AddLine(x, line) \in UnitStates /\ AddLine(x, line).section = section
        /\ AddLine(x, line).units = [us EXCEPT ![last] = e]
    BY <1>3, <2>3, <2>4, <2>5 DEF UnitStates
  <2>7. us # <<>> /\ ~line.boundary
    BY <1>5
  <2>. QED
    BY <2>2, <2>6, <2>7 DEF us, u, last, section, LongerUnit
<1>. QED
  BY <1>4, <1>5

\* The units of the first n lines.
UnitsUpto(s, x, n) ==
  /\ x.units \in Seq(GoodUnits(s)) /\ Neighbours(x.units)
  /\ n = 0 => x.units = <<>>
  /\ n > 0 => /\ x.units # <<>> /\ Chain(x.units, 0, s[n].end)
              /\ x.units[Len(x.units)].section = x.section
              /\ x.units[Len(x.units)].path = s[n].path

\* A piece from line i to line j, where the lines before the last have its path.
LEMMA LastLine ==
  ASSUME NEW s, IsScan(s), NEW i \in 1..Len(s), NEW c, c.end = s[i].end,
         NEW l \in 1..Len(s), c.start = s[l].start,
         \A j \in 1..Len(s) : c.start <= s[j].start /\ s[j].start < s[i].start => s[j].path = c.path,
         s[i].path = c.path
  PROVE  Aligned(s, c) /\ OnePath(s, c)
<1>1. ASSUME NEW j \in Within(s, c) PROVE s[j].path = c.path
  <2>1. j \in 1..Len(s) /\ c.start <= s[j].start /\ s[j].start < s[i].end
    BY DEF Within
  <2>2. CASE j = i
    BY <2>2
  <2>3. CASE j > i
    <3>1. s[i].end <= s[j].start /\ s[i].end \in Nat /\ s[j].start \in Nat
      BY <2>1, <2>3, ScanOrder
    <3>. QED
      BY <2>1, <3>1
  <2>4. CASE j < i
    <3>1. s[j].end <= s[i].start /\ s[j].start < s[j].end /\ s[j].start \in Nat /\ s[j].end \in Nat
          /\ s[i].start \in Nat
      BY <2>1, <2>4, ScanOrder
    <3>2. s[j].start < s[i].start
      BY <3>1
    <3>. QED
      BY <2>1, <3>2
  <2>5. j \in Nat /\ i \in Nat
    BY <2>1
  <2>. QED
    BY <2>2, <2>3, <2>4, <2>5
<1>. QED
  BY <1>1 DEF Aligned, OnePath

LEMMA UnitsGrow ==
  ASSUME NEW s, IsScan(s), NEW n \in Nat, n + 1 \in 1..Len(s), NEW x \in UnitStates, UnitsUpto(s, x, n)
  PROVE  UnitsUpto(s, AddLine(x, s[n + 1]), n + 1)
<1>. DEFINE line == s[n + 1]
            y == AddLine(x, line)
            us == x.units
            last == Len(us)
            b == One(line.boundary)
<1>1. line \in ScanRecs /\ line.start \in Nat /\ line.end \in Nat /\ line.start < line.end /\ line.boundary \in BOOLEAN
  BY ScanOrder DEF ScanRecs
<1>2. /\ us \in Seq(GoodUnits(s)) /\ us \in Seq(UnitRecs) /\ Neighbours(us)
      /\ last \in Nat /\ (us = <<>> <=> last = 0) /\ x.section \in Nat
  <2>1. us \in Seq(GoodUnits(s)) /\ us \in Seq(UnitRecs) /\ Neighbours(us) /\ x.section \in Nat
    BY DEF UnitsUpto, UnitStates
  <2>. HIDE DEF us
  <2>. QED
    BY <2>1, EmptySeq
<1>3. /\ us # <<>> <=> n > 0
      /\ us = <<>> => line.start = 0
      /\ us # <<>> => Chain(us, 0, line.start)
  <2>1. n > 0 => s[n].end = line.start /\ n \in 1..Len(s)
    BY ScanOrder
  <2>2. n = 0 => line.start = 0
    <3>1. s # <<>>
      BY EmptySeq DEF IsScan
    <3>. QED
      BY <3>1 DEF IsScan, Chain
  <2>. QED
    BY <2>1, <2>2 DEF UnitsUpto
<1>4. b = (IF line.boundary THEN 1 ELSE 0)
  BY DEF One
<1>5. us # <<>> => /\ last \in 1..last /\ us[last] \in UnitRecs /\ us[last].section = x.section
                   /\ us[last].path = s[n].path /\ us[last].end = line.start
                   /\ Aligned(s, us[last]) /\ OnePath(s, us[last])
                   /\ (~line.boundary => line.path = s[n].path)
  <2>. SUFFICES ASSUME us # <<>>
                PROVE  /\ last \in 1..last /\ us[last] \in UnitRecs /\ us[last].section = x.section
                       /\ us[last].path = s[n].path /\ us[last].end = line.start
                       /\ Aligned(s, us[last]) /\ OnePath(s, us[last])
                       /\ (~line.boundary => line.path = s[n].path)
    OBVIOUS
  <2>1. last \in 1..last /\ n > 0 /\ n \in 1..Len(s) - 1
    BY <1>2, <1>3, ScanOrder
  <2>2. us[last] \in GoodUnits(s)
    BY <1>2, <2>1, ElementOfSeq
  <2>3. us[last].end = line.start
    BY <1>3 DEF Chain
  <2>4. us[last].section = x.section /\ us[last].path = s[n].path
    BY <2>1 DEF UnitsUpto
  <2>5. ~line.boundary => line.path = s[n].path
    BY <2>1 DEF IsScan
  <2>. QED
    BY <2>1, <2>2, <2>3, <2>4, <2>5 DEF GoodUnits
<1>6. PICK e \in UnitRecs : NewUnit(x, line, e, y) \/ LongerUnit(x, line, e, y)
  BY <1>1, AddLineTyped
<1>7. y.section = x.section + b
  BY <1>1, AddLineTyped
<1>. HIDE DEF y, b
<1>8. ASSUME NewUnit(x, line, e, y) PROVE UnitsUpto(s, y, n + 1)
  <2>. /\ y.units = Append(us, e) /\ e.start = line.start /\ e.end = line.end /\ e.path = line.path
       /\ e.section = x.section + b
    BY <1>8 DEF NewUnit, b
  <2>1. Aligned(s, e) /\ OnePath(s, e)
    <3>1. \A j \in 1..Len(s) : ~(e.start <= s[j].start /\ s[j].start < s[n + 1].start)
      BY ScanOrder
    <3>. QED
      BY <3>1, LastLine
  <2>2. e \in GoodUnits(s)
    BY <2>1 DEF GoodUnits
  <2>. HIDE DEF us, last, line
  <2>3. /\ y.units \in Seq(GoodUnits(s)) /\ y.units # <<>> /\ Len(y.units) = last + 1
        /\ y.units[last + 1] = e /\ \A k \in 1..last : y.units[k] = us[k]
    BY <1>2, <1>8, <2>2, AppendProperties DEF last
  <2>4. Chain(y.units, 0, line.end)
    BY <1>1, <1>2, <1>3, <1>8, ChainGrows
  <2>5. ASSUME NEW k \in 1..last, y.units[k].section = y.units[k + 1].section
        PROVE  y.units[k].path = y.units[k + 1].path
    <3>1. CASE k = last
      <4>1. us # <<>> /\ us[last].section = x.section + b
        BY <1>2, <1>8, <2>3, <2>5, <3>1
      <4>2. ~line.boundary
        BY <1>1, <1>2, <1>4, <1>5, <4>1
      <4>. QED
        BY <1>2, <1>5, <1>8, <2>3, <3>1, <4>1, <4>2
    <3>2. CASE k # last
      <4>1. k \in 1..last - 1 /\ k + 1 \in 1..last
        BY <1>2, <3>2
      <4>2. us[k].section = us[k + 1].section
        BY <2>3, <2>5, <4>1
      <4>3. us[k].path = us[k + 1].path
        BY <1>2, <4>1, <4>2 DEF Neighbours, last
      <4>. QED
        BY <2>3, <4>1, <4>3
    <3>. QED
      BY <3>1, <3>2
  <2>6. Neighbours(y.units)
    <3>1. Len(y.units) - 1 = last
      BY <1>2, <2>3
    <3>. QED
      BY <2>5, <3>1 DEF Neighbours
  <2>7. n + 1 # 0 /\ y.units[Len(y.units)].section = y.section /\ y.units[Len(y.units)].path = line.path
    BY <1>7, <2>3
  <2>. QED
    BY <2>3, <2>4, <2>6, <2>7 DEF UnitsUpto, line
<1>9. ASSUME LongerUnit(x, line, e, y) PROVE UnitsUpto(s, y, n + 1)
  <2>. /\ us # <<>> /\ ~line.boundary /\ y.units = [us EXCEPT ![last] = e]
       /\ e.start = us[last].start /\ e.end = line.end
       /\ e.path = us[last].path /\ e.section = us[last].section
    BY <1>9 DEF LongerUnit
  <2>1. Aligned(s, e) /\ OnePath(s, e)
    <3>1. PICK l \in 1..Len(s) : us[last].start = s[l].start
      BY <1>5, <1>9 DEF Aligned
    <3>2. \A j \in 1..Len(s) : e.start <= s[j].start /\ s[j].start < s[n + 1].start => s[j].path = e.path
      BY <1>5, <1>9 DEF OnePath, Within
    <3>3. s[n + 1].path = e.path
      BY <1>5, <1>9
    <3>. QED
      BY <1>9, <3>1, <3>2, <3>3, LastLine
  <2>2. e \in GoodUnits(s)
    BY <2>1 DEF GoodUnits
  <2>. HIDE DEF us, last, line
  <2>3. /\ y.units \in Seq(GoodUnits(s)) /\ Len(y.units) = last /\ y.units[last] = e
        /\ \A k \in 1..last : k # last => y.units[k] = us[k]
    BY <1>2, <1>5, <1>9, <2>2, ExceptSeq DEF last
  <2>4. Chain(y.units, 0, line.end)
    BY <1>1, <1>2, <1>3, <1>9, ChainStretches DEF last
  <2>5. ASSUME NEW k \in 1..last - 1, y.units[k].section = y.units[k + 1].section
        PROVE  y.units[k].path = y.units[k + 1].path
    <3>1. k \in 1..last /\ k # last /\ k + 1 \in 1..last
      BY <1>2
    <3>2. y.units[k + 1].section = us[k + 1].section /\ y.units[k + 1].path = us[k + 1].path
      BY <1>9, <2>3, <3>1
    <3>3. us[k].section = us[k + 1].section
      BY <2>3, <2>5, <3>1, <3>2
    <3>4. us[k].path = us[k + 1].path
      BY <1>2, <3>3 DEF Neighbours, last
    <3>. QED
      BY <2>3, <3>1, <3>2, <3>4
  <2>6. Neighbours(y.units)
    BY <2>3, <2>5 DEF Neighbours
  <2>7. y.units # <<>>
    BY <1>2, <1>9, <2>3, EmptySeq
  <2>8. e.section = y.section /\ e.path = line.path
    BY <1>2, <1>4, <1>5, <1>7, <1>9
  <2>9. n + 1 # 0 /\ y.units[Len(y.units)].section = y.section /\ y.units[Len(y.units)].path = line.path
    BY <2>3, <2>8
  <2>. QED
    BY <2>3, <2>4, <2>6, <2>7, <2>9 DEF UnitsUpto, line
<1>10. UnitsUpto(s, y, n + 1)
  BY <1>6, <1>8, <1>9
<1>. QED
  BY <1>10 DEF y

LEMMA UnitsAre ==
  ASSUME NEW s, IsScan(s)
  PROVE  IsUnits(s, split_sections(s))
<1>. DEFINE n == Len(s)
<1>1. n \in Nat /\ (\A k \in 1..n : s[k] \in ScanRecs) /\ (s = <<>> <=> n = 0)
  <2>1. s \in Seq(ScanRecs)
    BY DEF IsScan
  <2>. QED
    BY <2>1, ScanOrder, EmptySeq
<1>2. NoUnits \in UnitStates /\ NoUnits.units = <<>>
  BY EmptySeq DEF NoUnits, UnitStates
<1>3. \A x \in UnitStates, k \in 1..n : AddLine(x, s[k]) \in UnitStates
  BY <1>1, AddLineTyped
<1>4. PICK f : SectionsRun(s, n, UnitStates, f)
  <2>. HIDE DEF n
  <2>1. n = Len(s)
    BY DEF n
  <2>. QED
    BY <1>1, <1>2, <1>3, <2>1, SectionsUnfold
<1>5. /\ f \in [0..n -> UnitStates] /\ f[0] = NoUnits /\ split_sections(s) = f[n].units
      /\ \A k \in 1..n : f[k] = AddLine(f[k - 1], s[k])
  BY <1>4 DEF SectionsRun
<1>. DEFINE A == {k \in 0..n : UnitsUpto(s, f[k], k)}
<1>6. 0 \in A
  <2>1. UnitsUpto(s, NoUnits, 0)
    BY <1>2, EmptySeq DEF UnitsUpto, Neighbours
  <2>. QED
    BY <1>1, <1>5, <2>1
<1>7. ASSUME NEW k \in 0..n, k < n, k \in A PROVE k + 1 \in A
  <2>1. k \in Nat /\ k + 1 \in 1..n /\ k + 1 \in 0..n /\ (k + 1) - 1 = k /\ f[k] \in UnitStates
    BY <1>1, <1>5, <1>7
  <2>2. UnitsUpto(s, AddLine(f[k], s[k + 1]), k + 1)
    BY <1>7, <2>1, UnitsGrow
  <2>3. f[k + 1] = AddLine(f[k], s[k + 1])
    BY <1>5, <2>1
  <2>. QED
    BY <2>1, <2>2, <2>3
<1>. HIDE DEF n
<1>8. n \in A
  <2>. HIDE DEF A
  <2>1. \A k \in 0..n : k \in A
    BY <1>1, <1>6, <1>7, Climb
  <2>. QED
    BY <1>1, <2>1
<1>9. UnitsUpto(s, f[n], n)
  BY <1>8
<1>. QED
  BY <1>1, <1>5, <1>9 DEF UnitsUpto, IsUnits, n

-----------------------------------------------------------------------------
(* The chunks before they are split                                        *)

PackRecs == [start : Nat, end : Nat, atomic : BOOLEAN, path : Paths, section : Nat]

\* A pack is one unit, or not longer than the target.
OfUnits(us, p) ==
  \/ \E u \in Range(us) : p.start = u.start /\ p.end = u.end /\ p.atomic = Atomic(u)
  \/ ~p.atomic /\ p.end - p.start <= TargetMax
GoodPacks(s, us) == {p \in PackRecs : Aligned(s, p) /\ OnePath(s, p) /\ OfUnits(us, p)}

\* One of the pieces contains b.
Covered(d, b) == \E k \in 1..Len(d) : d[k].start <= b.start /\ b.end <= d[k].end

IsPacks(s, us, ps) ==
  /\ ps \in Seq(GoodPacks(s, us)) /\ (ps = <<>> <=> us = <<>>)
  /\ ps # <<>> => Chain(ps, 0, s[Len(s)].end)
  /\ \A m \in 1..Len(us) : Covered(ps, us[m])

\* What is covered stays covered when pieces are added or stretched.
LEMMA CoveredGrows ==
  ASSUME NEW S, NEW d \in Seq(S), NEW e \in S
  PROVE  /\ \A b : Covered(d, b) => Covered(Append(d, e), b)
         /\ \A b : e.start <= b.start /\ b.end <= e.end => Covered(Append(d, e), b)
<1>1. /\ Len(d) \in Nat /\ Len(Append(d, e)) = Len(d) + 1 /\ Append(d, e)[Len(d) + 1] = e
      /\ \A k \in 1..Len(d) : Append(d, e)[k] = d[k]
  BY AppendProperties, LenProperties
<1>2. Len(d) + 1 \in 1..Len(d) + 1 /\ \A k \in 1..Len(d) : k \in 1..Len(d) + 1
  BY <1>1
<1>. DEFINE g == Append(d, e)
<1>3. Len(g) = Len(d) + 1 /\ g[Len(d) + 1] = e /\ \A k \in 1..Len(d) : g[k] = d[k]
  BY <1>1
<1>. HIDE DEF g
<1>4. \A b : Covered(d, b) => Covered(g, b)
  BY <1>2, <1>3 DEF Covered
<1>5. \A b : e.start <= b.start /\ b.end <= e.end => Covered(g, b)
  BY <1>2, <1>3 DEF Covered
<1>. QED
  BY <1>4, <1>5 DEF g

LEMMA CoveredStretches ==
  ASSUME NEW S, NEW d \in Seq(S), d # <<>>, NEW e \in S, e.start = d[Len(d)].start, e.end \in Nat,
         d[Len(d)].end \in Nat, d[Len(d)].end <= e.end
  PROVE  /\ \A b : b.end \in Nat /\ Covered(d, b) => Covered([d EXCEPT ![Len(d)] = e], b)
         /\ \A b : e.start <= b.start /\ b.end <= e.end => Covered([d EXCEPT ![Len(d)] = e], b)
<1>. DEFINE g == [d EXCEPT ![Len(d)] = e]
            n == Len(d)
<1>1. n \in Nat /\ n \in 1..n
  BY EmptySeq
<1>2. Len(g) = n /\ g[n] = e /\ \A k \in 1..n : k # n => g[k] = d[k]
  BY <1>1, ExceptSeq
<1>. HIDE DEF g
<1>3. ASSUME NEW b, b.end \in Nat, Covered(d, b) PROVE Covered(g, b)
  <2>1. PICK k \in 1..n : d[k].start <= b.start /\ b.end <= d[k].end
    BY <1>3 DEF Covered
  <2>2. CASE k = n
    <3>1. e.start <= b.start
      BY <2>1, <2>2
    <3>2. b.end <= e.end
      BY <1>3, <2>1, <2>2
    <3>. QED
      BY <1>1, <1>2, <3>1, <3>2 DEF Covered
  <2>3. CASE k # n
    BY <1>2, <2>1, <2>3 DEF Covered
  <2>. QED
    BY <2>2, <2>3
<1>4. \A b : e.start <= b.start /\ b.end <= e.end => Covered(g, b)
  BY <1>1, <1>2 DEF Covered
<1>. QED
  BY <1>3, <1>4 DEF g

\* A unit adds a pack, or to the last one.
NewPack(done, u, e, y) ==
  /\ y = Append(done, e) /\ e.start = u.start /\ e.end = u.end
  /\ e.atomic = Atomic(u) /\ e.path = u.path /\ e.section = u.section
LongerPack(done, u, e, y) ==
  /\ done # <<>> /\ done[Len(done)].section = u.section
  /\ (done[Len(done)].end - done[Len(done)].start) + (u.end - u.start) <= TargetMax
  /\ y = [done EXCEPT ![Len(done)] = e]
  /\ e.start = done[Len(done)].start /\ e.end = u.end /\ e.atomic = FALSE
  /\ e.path = done[Len(done)].path /\ e.section = done[Len(done)].section

LEMMA PackTyped ==
  ASSUME NEW done \in Seq(PackRecs), NEW u \in UnitRecs
  PROVE  /\ PackUnit(done, u) \in Seq(PackRecs)
         /\ \E e \in PackRecs : \/ NewPack(done, u, e, PackUnit(done, u))
                                \/ LongerPack(done, u, e, PackUnit(done, u))
<1>. DEFINE last == Len(done)
            joins == /\ done # <<>> /\ done[last].section = u.section
                     /\ (done[last].end - done[last].start) + (u.end - u.start) <= TargetMax
<1>1. done # <<>> => last \in 1..last /\ done[last] \in PackRecs
  BY EmptySeq, ElementOfSeq
<1>2. u.start \in Nat /\ u.end \in Nat /\ u.path \in Paths /\ u.section \in Nat /\ Atomic(u) \in BOOLEAN
  BY DEF UnitRecs, Atomic
<1>3. CASE joins
  <2>. DEFINE p == done[last]
              e == [p EXCEPT !.end = u.end, !.atomic = FALSE]
              g == [done EXCEPT ![last].end = u.end, ![last].atomic = FALSE]
  <2>1. last \in 1..last /\ p \in PackRecs /\ done \in [1..last -> PackRecs]
    BY <1>1, <1>3, LenProperties
  <2>2. /\ e \in PackRecs /\ e.start = p.start /\ e.end = u.end /\ e.atomic = FALSE
        /\ e.path = p.path /\ e.section = p.section
    <3>. HIDE DEF p
    <3>. QED
      BY <1>2, <2>1 DEF PackRecs
  <2>3. g = [done EXCEPT ![last] = e]
    <3>. HIDE DEF last
    <3>. QED
      BY <2>1
  <2>4. PackUnit(done, u) = g
    BY <1>3 DEF PackUnit
  <2>. HIDE DEF e, g
  <2>5. g \in Seq(PackRecs)
    BY <2>1, <2>2, <2>3, ExceptSeq
  <2>6. LongerPack(done, u, e, g)
    BY <1>3, <2>2, <2>3 DEF LongerPack
  <2>. QED
    BY <2>2, <2>4, <2>5, <2>6
<1>4. CASE ~joins
  <2>. DEFINE e == [start |-> u.start, end |-> u.end, atomic |-> Atomic(u),
                    path |-> u.path, section |-> u.section]
  <2>1. e \in PackRecs
    BY <1>2 DEF PackRecs
  <2>2. PackUnit(done, u) = Append(done, e)
    BY <1>4 DEF PackUnit
  <2>3. NewPack(done, u, e, Append(done, e))
    BY DEF NewPack
  <2>. HIDE DEF e
  <2>4. Append(done, e) \in Seq(PackRecs)
    BY <2>1, AppendProperties
  <2>. QED
    BY <2>1, <2>2, <2>3, <2>4
<1>. QED
  BY <1>3, <1>4

\* The packs of the first n units.
PacksUpto(s, us, done, n) ==
  /\ done \in Seq(GoodPacks(s, us))
  /\ n = 0 => done = <<>>
  /\ n > 0 => /\ done # <<>> /\ Chain(done, 0, us[n].end)
              /\ done[Len(done)].section = us[n].section /\ done[Len(done)].path = us[n].path
  /\ \A m \in 1..n : Covered(done, us[m])

\* What is known of a unit.
LEMMA UnitFacts ==
  ASSUME NEW s, NEW us, IsUnits(s, us)
  PROVE  /\ us \in Seq(UnitRecs) /\ Len(us) \in Nat /\ (us = <<>> <=> Len(us) = 0)
         /\ \A k \in 1..Len(us) : /\ us[k] \in UnitRecs /\ us[k] \in Range(us)
                                  /\ us[k].start \in Nat /\ us[k].end \in Nat /\ us[k].start < us[k].end
                                  /\ Aligned(s, us[k]) /\ OnePath(s, us[k])
         /\ us # <<>> => us[1].start = 0
         /\ \A k \in 1..Len(us) - 1 : us[k].end = us[k + 1].start
<1>1. us \in Seq(GoodUnits(s)) /\ Len(us) \in Nat /\ (us = <<>> <=> Len(us) = 0)
  BY EmptySeq DEF IsUnits
<1>2. \A k \in 1..Len(us) : us[k] \in GoodUnits(s) /\ us[k] \in Range(us)
  BY <1>1, ElementOfSeq, RangeEquality
<1>3. us \in Seq(UnitRecs)
  BY <1>1 DEF GoodUnits
<1>4. ASSUME NEW k \in 1..Len(us)
      PROVE  us[k].start \in Nat /\ us[k].end \in Nat /\ us[k].start < us[k].end
  <2>1. us # <<>>
    BY <1>1
  <2>. QED
    BY <2>1 DEF IsUnits, Chain
<1>5. us # <<>> => us[1].start = 0
  BY DEF IsUnits, Chain
<1>6. ASSUME NEW k \in 1..Len(us) - 1 PROVE us[k].end = us[k + 1].start
  <2>1. us # <<>>
    BY <1>1
  <2>. QED
    BY <2>1 DEF IsUnits, Chain
<1>. QED
  BY <1>1, <1>2, <1>3, <1>4, <1>5, <1>6 DEF GoodUnits

LEMMA PacksGrow ==
  ASSUME NEW s, IsScan(s), NEW us, IsUnits(s, us), NEW n \in Nat, n + 1 \in 1..Len(us),
         NEW done, PacksUpto(s, us, done, n)
  PROVE  PacksUpto(s, us, PackUnit(done, us[n + 1]), n + 1)
<1>. DEFINE u == us[n + 1]
            y == PackUnit(done, u)
            last == Len(done)
<1>1. /\ u \in UnitRecs /\ u.start \in Nat /\ u.end \in Nat /\ u.start < u.end
      /\ Aligned(s, u) /\ OnePath(s, u) /\ u \in Range(us)
  BY UnitFacts
<1>2. /\ done \in Seq(GoodPacks(s, us)) /\ done \in Seq(PackRecs)
      /\ last \in Nat /\ (done = <<>> <=> last = 0)
  <2>1. done \in Seq(GoodPacks(s, us))
    BY DEF PacksUpto
  <2>2. done \in Seq(PackRecs)
    BY <2>1 DEF GoodPacks
  <2>. QED
    BY <2>1, <2>2, EmptySeq
<1>3. /\ done # <<>> <=> n > 0
      /\ done = <<>> => u.start = 0
      /\ done # <<>> => Chain(done, 0, u.start)
  <2>1. n > 0 => us[n].end = u.start
    BY UnitFacts
  <2>2. n = 0 => u.start = 0
    BY UnitFacts
  <2>. QED
    BY <2>1, <2>2 DEF PacksUpto
<1>4. done # <<>> => /\ last \in 1..last /\ done[last] \in GoodPacks(s, us)
                     /\ done[last].end = u.start /\ done[last].start \in Nat
                     /\ done[last].section = us[n].section /\ done[last].path = us[n].path
                     /\ (us[n].section = u.section => us[n].path = u.path)
  <2>. SUFFICES ASSUME done # <<>>
                PROVE  /\ last \in 1..last /\ done[last] \in GoodPacks(s, us)
                       /\ done[last].end = u.start /\ done[last].start \in Nat
                       /\ done[last].section = us[n].section /\ done[last].path = us[n].path
                       /\ (us[n].section = u.section => us[n].path = u.path)
    OBVIOUS
  <2>1. last \in 1..last /\ n > 0 /\ n \in 1..Len(us) - 1
    BY <1>2, <1>3, UnitFacts
  <2>2. done[last] \in GoodPacks(s, us)
    BY <1>2, <2>1, ElementOfSeq
  <2>3. done[last].end = u.start
    BY <1>3 DEF Chain
  <2>4. done[last].section = us[n].section /\ done[last].path = us[n].path
    BY <2>1 DEF PacksUpto
  <2>5. us[n].section = u.section => us[n].path = u.path
    BY <2>1 DEF IsUnits, Neighbours
  <2>6. done[last].start \in Nat
    BY <2>2 DEF GoodPacks, PackRecs
  <2>. QED
    BY <2>1, <2>2, <2>3, <2>4, <2>5, <2>6
<1>5. \A m \in 1..n : Covered(done, us[m]) /\ us[m].end \in Nat
  BY UnitFacts DEF PacksUpto
<1>6. PICK e \in PackRecs : NewPack(done, u, e, y) \/ LongerPack(done, u, e, y)
  BY <1>1, <1>2, PackTyped
<1>7. n + 1 # 0 /\ (\A m \in 1..n + 1 : m \in 1..n \/ m = n + 1)
  OBVIOUS
<1>. HIDE DEF y
<1>8. ASSUME NewPack(done, u, e, y) PROVE PacksUpto(s, us, y, n + 1)
  <2>. /\ y = Append(done, e) /\ e.start = u.start /\ e.end = u.end
       /\ e.atomic = Atomic(u) /\ e.path = u.path /\ e.section = u.section
    BY <1>8 DEF NewPack
  <2>1. Aligned(s, e) /\ OnePath(s, e)
    BY <1>1 DEF Aligned, OnePath, Within
  <2>2. OfUnits(us, e)
    BY <1>1 DEF OfUnits
  <2>3. e \in GoodPacks(s, us)
    BY <2>1, <2>2 DEF GoodPacks
  <2>. HIDE DEF u, last
  <2>4. y \in Seq(GoodPacks(s, us)) /\ y # <<>> /\ Len(y) = last + 1 /\ y[last + 1] = e
    BY <1>2, <2>3, AppendProperties DEF last
  <2>5. Chain(y, 0, u.end)
    BY <1>1, <1>2, <1>3, ChainGrows
  <2>6. (\A m \in 1..n : Covered(y, us[m])) /\ Covered(y, us[n + 1])
    <3>1. \A m \in 1..n : Covered(Append(done, e), us[m])
      BY <1>2, <1>5, CoveredGrows
    <3>2. e.start <= us[n + 1].start /\ us[n + 1].end <= e.end
      BY <1>1 DEF u
    <3>3. Covered(Append(done, e), us[n + 1])
      BY <1>2, <3>2, CoveredGrows
    <3>. QED
      BY <3>1, <3>3
  <2>7. y[Len(y)].section = us[n + 1].section /\ y[Len(y)].path = us[n + 1].path
    BY <2>4 DEF u
  <2>. QED
    BY <1>7, <2>4, <2>5, <2>6, <2>7 DEF PacksUpto, u
<1>9. ASSUME LongerPack(done, u, e, y) PROVE PacksUpto(s, us, y, n + 1)
  <2>. /\ done # <<>> /\ done[last].section = u.section
       /\ (done[last].end - done[last].start) + (u.end - u.start) <= TargetMax
       /\ y = [done EXCEPT ![last] = e]
       /\ e.start = done[last].start /\ e.end = u.end /\ e.atomic = FALSE
       /\ e.path = done[last].path /\ e.section = done[last].section
    BY <1>9 DEF LongerPack
  <2>0. e.path = u.path /\ e.section = u.section
    BY <1>4
  <2>1. Aligned(s, e)
    BY <1>1, <1>4 DEF GoodPacks, Aligned
  <2>2. OnePath(s, e)
    <3>1. ASSUME NEW i \in Within(s, e) PROVE s[i].path = e.path
      <4>1. i \in 1..Len(s) /\ e.start <= s[i].start /\ s[i].start < u.end /\ s[i].start \in Nat
        BY ScanOrder DEF Within
      <4>2. CASE s[i].start < u.start
        <5>1. i \in Within(s, done[last])
          BY <1>4, <4>1, <4>2 DEF Within
        <5>. QED
          BY <1>4, <5>1 DEF GoodPacks, OnePath
      <4>3. CASE u.start <= s[i].start
        <5>1. i \in Within(s, u)
          BY <4>1, <4>3 DEF Within
        <5>. QED
          BY <1>1, <2>0, <5>1 DEF OnePath
      <4>. QED
        BY <1>1, <4>1, <4>2, <4>3
    <3>. QED
      BY <3>1 DEF OnePath
  <2>3. OfUnits(us, e)
    <3>. DEFINE p == done[last]
    <3>1. p.end = u.start /\ p.start \in Nat /\ u.start \in Nat /\ u.end \in Nat /\ TargetMax \in Nat
      BY <1>1, <1>4, ChunkAssumption
    <3>2. (p.end - p.start) + (u.end - u.start) <= TargetMax /\ e.start = p.start /\ e.end = u.end
      BY <1>9 DEF LongerPack
    <3>. HIDE DEF p, u
    <3>3. e.end - e.start <= TargetMax
      BY <3>1, <3>2
    <3>. QED
      BY <1>9, <3>3 DEF OfUnits, LongerPack
  <2>4. e \in GoodPacks(s, us)
    BY <2>1, <2>2, <2>3 DEF GoodPacks
  <2>. HIDE DEF u, last
  <2>5. y \in Seq(GoodPacks(s, us)) /\ Len(y) = last /\ y[last] = e /\ y # <<>>
    <3>1. y \in Seq(GoodPacks(s, us)) /\ Len(y) = last /\ y[last] = e
      BY <1>2, <1>4, <2>4, ExceptSeq DEF last
    <3>. QED
      BY <1>2, <3>1, EmptySeq
  <2>6. Chain(y, 0, u.end)
    BY <1>1, <1>2, <1>3, ChainStretches DEF last
  <2>7. (\A m \in 1..n : Covered(y, us[m])) /\ Covered(y, us[n + 1])
    <3>1. done[last].end \in Nat /\ done[last].end <= e.end /\ e.end \in Nat
      BY <1>1, <1>4
    <3>2. /\ \A b : b.end \in Nat /\ Covered(done, b) => Covered(y, b)
          /\ \A b : e.start <= b.start /\ b.end <= e.end => Covered(y, b)
      BY <1>2, <3>1, CoveredStretches DEF last
    <3>3. e.start <= us[n + 1].start /\ us[n + 1].end <= e.end
      <4>1. done[last].start < done[last].end
        BY <1>3, <1>4 DEF Chain, last
      <4>. QED
        BY <1>1, <1>4, <4>1 DEF u
    <3>. QED
      BY <1>5, <3>2, <3>3
  <2>8. y[Len(y)].section = us[n + 1].section /\ y[Len(y)].path = us[n + 1].path
    BY <2>0, <2>5 DEF u
  <2>. QED
    BY <1>7, <2>5, <2>6, <2>7, <2>8 DEF PacksUpto, u
<1>10. PacksUpto(s, us, y, n + 1)
  BY <1>6, <1>8, <1>9
<1>. QED
  BY <1>10 DEF y

LEMMA PacksAre ==
  ASSUME NEW s, IsScan(s), NEW us, IsUnits(s, us)
  PROVE  IsPacks(s, us, Packs(us))
<1>. DEFINE n == Len(us)
            R == Seq(PackRecs)
<1>1. n \in Nat /\ (\A k \in 1..n : us[k] \in UnitRecs) /\ (us = <<>> <=> n = 0)
  BY UnitFacts
<1>2. <<>> \in R
  BY EmptySeq
<1>3. \A x \in R, k \in 1..n : PackUnit(x, us[k]) \in R
  BY <1>1, PackTyped
<1>4. PICK f : PacksRun(us, n, R, f)
  <2>. HIDE DEF n, R
  <2>1. n = Len(us)
    BY DEF n
  <2>. QED
    BY <1>1, <1>2, <1>3, <2>1, PacksUnfold
<1>. HIDE DEF R
<1>5. /\ f \in [0..n -> R] /\ f[0] = <<>> /\ Packs(us) = f[n]
      /\ \A k \in 1..n : f[k] = PackUnit(f[k - 1], us[k])
  BY <1>4 DEF PacksRun
<1>. DEFINE A == {k \in 0..n : PacksUpto(s, us, f[k], k)}
<1>6. 0 \in A
  <2>1. PacksUpto(s, us, <<>>, 0)
    BY EmptySeq DEF PacksUpto
  <2>. QED
    BY <1>1, <1>5, <2>1
<1>7. ASSUME NEW k \in 0..n, k < n, k \in A PROVE k + 1 \in A
  <2>1. k \in Nat /\ k + 1 \in 1..n /\ k + 1 \in 0..n /\ (k + 1) - 1 = k
    BY <1>1, <1>7
  <2>2. PacksUpto(s, us, PackUnit(f[k], us[k + 1]), k + 1)
    BY <1>7, <2>1, PacksGrow
  <2>3. f[k + 1] = PackUnit(f[k], us[k + 1])
    BY <1>5, <2>1
  <2>. QED
    BY <2>1, <2>2, <2>3
<1>. HIDE DEF n
<1>8. n \in A
  <2>. HIDE DEF A
  <2>1. \A k \in 0..n : k \in A
    BY <1>1, <1>6, <1>7, Climb
  <2>. QED
    BY <1>1, <2>1
<1>9. PacksUpto(s, us, f[n], n)
  BY <1>8
<1>10. us # <<>> => us[n].end = s[Len(s)].end
  BY DEF IsUnits, Chain, n
<1>. QED
  BY <1>1, <1>5, <1>9, <1>10 DEF PacksUpto, IsPacks, n


-----------------------------------------------------------------------------
(* Heading paths                                                           *)

\* Prefixes, heading by heading.
LEMMA PrefixPointwise ==
  ASSUME NEW T, NEW a \in Seq(T), NEW b \in Seq(T)
  PROVE  IsPrefix(a, b) <=> Len(a) <= Len(b) /\ \A i \in 1..Len(a) : a[i] = b[i]
<1>1. Len(a) \in Nat /\ Len(b) \in Nat
  BY LenProperties
<1>2. ASSUME Len(a) <= Len(b)
      PROVE  SubSeq(a, 1, Len(a)) = SubSeq(b, 1, Len(a)) <=> \A i \in 1..Len(a) : a[i] = b[i]
  <2>1. (\A i \in 1..Len(a) : a[i] \in T) /\ (\A i \in 1..Len(a) : b[i] \in T)
    BY <1>1, <1>2, ElementOfSeq
  <2>. DEFINE c == SubSeq(a, 1, Len(a))
              d == SubSeq(b, 1, Len(a))
              n == Len(a)
  <2>2. /\ c \in Seq(T) /\ Len(c) = n /\ (\A i \in 1..n : c[i] = a[i])
        /\ d \in Seq(T) /\ Len(d) = n /\ (\A i \in 1..n : d[i] = b[i])
    <3>1. c \in Seq(T) /\ Len(c) = (IF 1 <= n THEN n - 1 + 1 ELSE 0)
          /\ \A i \in 1..n - 1 + 1 : c[i] = a[1 + i - 1]
      BY <1>1, <2>1, SubSeqProperties
    <3>2. d \in Seq(T) /\ Len(d) = (IF 1 <= n THEN n - 1 + 1 ELSE 0)
          /\ \A i \in 1..n - 1 + 1 : d[i] = b[1 + i - 1]
      BY <1>1, <2>1, SubSeqProperties
    <3>3. n - 1 + 1 = n /\ (IF 1 <= n THEN n - 1 + 1 ELSE 0) = n /\ \A i \in 1..n : 1 + i - 1 = i
      BY <1>1
    <3>. HIDE DEF c, d, n
    <3>. QED
      BY <3>1, <3>2, <3>3
  <2>. HIDE DEF c, d
  <2>3. c = d <=> \A i \in 1..n : c[i] = d[i]
    BY <2>2, SeqEqual
  <2>. QED
    BY <2>2, <2>3 DEF c, d
<1>. QED
  BY <1>1, <1>2 DEF IsPrefix

LEMMA PrefixJoins ==
  ASSUME NEW T, NEW a \in Seq(T), NEW b \in Seq(T), NEW c \in Seq(T), IsPrefix(a, b), IsPrefix(b, c)
  PROVE  IsPrefix(a, c)
<1>1. Len(a) \in Nat /\ Len(b) \in Nat /\ Len(c) \in Nat
  BY LenProperties
<1>2. Len(a) <= Len(b) /\ \A i \in 1..Len(a) : a[i] = b[i]
  BY PrefixPointwise
<1>3. Len(b) <= Len(c) /\ \A i \in 1..Len(b) : b[i] = c[i]
  BY PrefixPointwise
<1>4. Len(a) <= Len(c) /\ \A i \in 1..Len(a) : a[i] = c[i]
  BY <1>1, <1>2, <1>3
<1>. QED
  BY <1>4, PrefixPointwise

\* A common path is above both, and if they are equal it is that path.
LEMMA CommonIs ==
  ASSUME NEW T, NEW a \in Seq(T), NEW b \in Seq(T)
  PROVE  /\ CommonPrefix(a, b) \in Seq(T)
         /\ IsPrefix(CommonPrefix(a, b), a) /\ IsPrefix(CommonPrefix(a, b), b)
         /\ a = b => CommonPrefix(a, b) = a
<1>. DEFINE same == {n \in 0..Len(a) : n <= Len(b) /\ SubSeq(a, 1, n) = SubSeq(b, 1, n)}
            most == CHOOSE n \in same : \A m \in same : m <= n
            c == SubSeq(a, 1, most)
<1>1. Len(a) \in Nat /\ Len(b) \in Nat
  BY LenProperties
<1>2. same \in SUBSET Nat /\ 0 \in same /\ \A x \in same : x <= Len(a)
  <2>1. SubSeq(a, 1, 0) = <<>> /\ SubSeq(b, 1, 0) = <<>>
    BY SubSeqEmpty
  <2>. QED
    BY <1>1, <2>1
<1>3. most \in same /\ \A m \in same : m <= most
  <2>. HIDE DEF same
  <2>1. Max(same) \in same /\ \A x \in same : x <= Max(same)
    BY <1>1, <1>2, Greatest
  <2>. QED
    BY <2>1
<1>4. most \in 0..Len(a) /\ most <= Len(b) /\ c = SubSeq(b, 1, most)
  BY <1>3
<1>5. CommonPrefix(a, b) = c
  BY DEF CommonPrefix
<1>. HIDE DEF most, same
<1>6. (\A i \in 1..most : a[i] \in T) /\ (\A i \in 1..most : b[i] \in T)
  BY <1>1, <1>4, ElementOfSeq
<1>7. c \in Seq(T) /\ Len(c) = most /\ \A i \in 1..most : c[i] = a[i]
  <2>1. c \in Seq(T) /\ Len(c) = (IF 1 <= most THEN most - 1 + 1 ELSE 0)
        /\ \A i \in 1..most - 1 + 1 : c[i] = a[1 + i - 1]
    BY <1>4, <1>6, SubSeqProperties
  <2>. HIDE DEF c
  <2>. QED
    BY <1>4, <2>1
<1>8. \A i \in 1..most : c[i] = b[i]
  <2>1. \A i \in 1..most - 1 + 1 : SubSeq(b, 1, most)[i] = b[1 + i - 1]
    BY <1>4, <1>6, SubSeqProperties
  <2>. QED
    BY <1>4, <2>1
<1>. HIDE DEF c
<1>9. IsPrefix(c, a) /\ IsPrefix(c, b)
  <2>1. /\ Len(c) <= Len(a) /\ \A i \in 1..Len(c) : c[i] = a[i]
        /\ Len(c) <= Len(b) /\ \A i \in 1..Len(c) : c[i] = b[i]
    BY <1>1, <1>4, <1>7, <1>8
  <2>. QED
    BY <1>7, <2>1, PrefixPointwise
<1>10. ASSUME a = b PROVE c = a
  <2>1. Len(a) \in same
    BY <1>1, <1>10 DEF same
  <2>2. most = Len(a)
    BY <1>1, <1>3, <1>4, <2>1
  <2>. QED
    BY <1>7, <2>2, SeqEqual
<1>. QED
  BY <1>5, <1>7, <1>9, <1>10

-----------------------------------------------------------------------------
(* Forced splits                                                           *)

DraftRecs == [path : Paths, start : Nat, end : Nat, forced : BOOLEAN]

\* A cut at pos would be between two characters.
Clean(s, pos) ==
  \A i \in 1..Len(s) : pos \in s[i].start..s[i].end - 1 => (pos - s[i].start) % s[i].width = 0

LEMMA LinesAreClean ==
  ASSUME NEW s, IsScan(s), NEW i \in 1..Len(s)
  PROVE  Clean(s, s[i].start) /\ Clean(s, s[i].end)
<1>1. \A j \in 1..Len(s) : /\ s[j].start \in Nat /\ s[j].end \in Nat /\ s[j].start < s[j].end
                           /\ s[j].width \in Nat \ {0}
  BY ScanOrder, ChunkAssumption DEF IsScan
<1>2. \A j \in 1..Len(s) : 0 % s[j].width = 0
  BY <1>1
<1>3. Len(s) \in Nat /\ \A j, l \in 1..Len(s) : j < l => s[j].end <= s[l].start
  BY ScanOrder
<1>4. ASSUME NEW j \in 1..Len(s), s[i].start \in s[j].start..s[j].end - 1
      PROVE  s[i].start - s[j].start = 0
  <2>1. CASE j < i
    <3>1. s[j].end <= s[i].start
      BY <1>3, <2>1
    <3>. QED
      BY <1>1, <1>4, <3>1
  <2>2. CASE j > i
    <3>1. s[i].end <= s[j].start
      BY <1>3, <2>2
    <3>. QED
      BY <1>1, <1>4, <3>1
  <2>. QED
    BY <1>1, <1>3, <2>1, <2>2
<1>5. ASSUME NEW j \in 1..Len(s), s[i].end \in s[j].start..s[j].end - 1
      PROVE  s[i].end - s[j].start = 0
  <2>1. CASE j < i
    <3>1. s[j].end <= s[i].start
      BY <1>3, <2>1
    <3>. QED
      BY <1>1, <1>5, <3>1
  <2>2. CASE j > i
    <3>1. s[i].end <= s[j].start
      BY <1>3, <2>2
    <3>. QED
      BY <1>1, <1>5, <3>1
  <2>3. CASE j = i
    BY <1>1, <1>5, <2>3
  <2>. QED
    BY <1>3, <2>1, <2>2, <2>3
<1>. QED
  BY <1>2, <1>4, <1>5 DEF Clean

\* What is left when the rest is taken away is a multiple.
LEMMA MultipleHasNoRest ==
  ASSUME NEW q \in Nat, NEW w \in Nat \ {0}
  PROVE  (w * q) % w = 0
OBVIOUS

LEMMA FloorIsMultiple ==
  ASSUME NEW x \in Nat, NEW w \in Nat \ {0}
  PROVE  x % w \in 0..w - 1 /\ (x - (x % w)) % w = 0
<1>. DEFINE q == x \div w
            r == x % w
<1>1. q \in Nat /\ x = w * q + r /\ r \in 0..w - 1
  OBVIOUS
<1>. HIDE DEF q, r
<1>2. x - r = w * q
  BY <1>1
<1>3. (w * q) % w = 0
  BY <1>1, MultipleHasNoRest
<1>. QED
  BY <1>1, <1>2, <1>3 DEF r

\* A cut in a line is past the beginning of the piece, within the limit, and
\* between two characters.
LEMMA CutIsNear ==
  ASSUME NEW s, IsScan(s), NEW i \in 1..Len(s), NEW from \in Nat, NEW max \in Nat, HardMax <= max,
         s[i].start <= from
  PROVE  /\ CutAt(s, i, from, max) \in Nat /\ CutAt(s, i, from, max) > from
         /\ CutAt(s, i, from, max) - from <= max
         /\ (CutAt(s, i, from, max) - s[i].start) % s[i].width = 0
<1>. DEFINE w == s[i].width
            start == s[i].start
            x == from + max - start
            r == x % w
<1>1. start \in Nat /\ w \in 1..HardMax /\ HardMax \in Nat
  BY ScanOrder, ChunkAssumption DEF IsScan
<1>2. x \in Nat /\ w \in Nat \ {0} /\ w <= max
  BY <1>1
<1>3. CutAt(s, i, from, max) = (from + max) - r
  BY <1>1 DEF CutAt, CharFloor
<1>. HIDE DEF w, start
<1>4. (x - r) % w = 0 /\ r \in 0..w - 1
  <2>. HIDE DEF x
  <2>. QED
    BY <1>2, FloorIsMultiple
<1>5. (from + max) - r > from /\ ((from + max) - r) - from <= max /\ (from + max) - r \in Nat
      /\ ((from + max) - r) - start = x - r
  <2>1. x = from + max - start
    BY DEF x
  <2>. HIDE DEF r, x
  <2>. QED
    BY <1>1, <1>2, <1>4, <2>1
<1>. HIDE DEF r, x
<1>6. (((from + max) - r) - start) % w = 0
  BY <1>4, <1>5
<1>. QED
  BY <1>3, <1>5, <1>6 DEF w, start

LEMMA CutIsClean ==
  ASSUME NEW s, IsScan(s), NEW c, Aligned(s, c), NEW from, from \in c.start..c.end, Clean(s, from),
         c.start \in Nat, c.end \in Nat, NEW max \in Nat, HardMax <= max
  PROVE  /\ NextCut(s, from, c.end, max) \in from..c.end /\ Clean(s, NextCut(s, from, c.end, max))
         /\ NextCut(s, from, c.end, max) - from <= max
         /\ from < c.end => from < NextCut(s, from, c.end, max)
<1>. DEFINE to == c.end
            cuttable == {i \in 1..Len(s) : /\ s[i].end <= to /\ s[i].end - from > max
                                           /\ CutAt(s, i, from, max) > from}
            cut == NextCut(s, from, to, max)
<1>1. /\ Len(s) \in Nat /\ from \in Nat /\ to \in Nat
      /\ \A i \in 1..Len(s) : s[i].start \in Nat /\ s[i].end \in Nat /\ s[i].start < s[i].end
      /\ \A i, j \in 1..Len(s) : i < j => s[i].end <= s[j].start
      /\ \A i \in 1..Len(s) - 1 : s[i].end = s[i + 1].start
  BY ScanOrder
<1>2. ASSUME NEW i \in 1..Len(s) PROVE CutAt(s, i, from, max) > from
  <2>1. CASE s[i].start > from
    BY <2>1 DEF CutAt
  <2>2. CASE s[i].start <= from
    BY <1>1, <2>2, CutIsNear
  <2>. QED
    BY <1>1, <2>1, <2>2
<1>3. PICK f, l \in 1..Len(s) : c.start = s[f].start /\ to = s[l].end
  BY DEF Aligned
<1>4. CASE cuttable = {}
  <2>1. cut = to
    BY <1>4 DEF NextCut
  <2>2. to - from <= max
    <3>1. l \notin cuttable
      BY <1>4
    <3>. QED
      BY <1>1, <1>2, <1>3, <3>1
  <2>3. Clean(s, to)
    BY <1>3, LinesAreClean
  <2>. HIDE DEF cut, cuttable
  <2>. QED
    BY <1>1, <2>1, <2>2, <2>3 DEF cut
<1>5. CASE cuttable # {}
  <2>. DEFINE i == CHOOSE j \in cuttable : \A m \in cuttable : j <= m
  <2>1. i \in cuttable /\ \A m \in cuttable : i <= m
    <3>1. cuttable \in SUBSET Nat
      BY <1>1
    <3>. HIDE DEF cuttable
    <3>2. Min(cuttable) \in cuttable /\ \A m \in cuttable : Min(cuttable) <= m
      BY <1>5, <3>1, Least
    <3>. QED
      BY <3>2
  <2>2. cut = CutAt(s, i, from, max)
    BY <1>5 DEF NextCut
  <2>3. i \in 1..Len(s) /\ s[i].end <= to /\ s[i].end - from > max /\ cut > from
    BY <2>1, <2>2
  <2>4. \A m \in 1..Len(s) : m < i => ~(s[m].end <= to /\ s[m].end - from > max)
    <3>1. ASSUME NEW m \in 1..Len(s), m < i PROVE m \notin cuttable
      <4>. HIDE DEF cuttable, i
      <4>. QED
        BY <1>1, <2>1, <2>3, <3>1
    <3>. QED
      BY <1>2, <3>1
  <2>. HIDE DEF cut, i, cuttable, to
  <2>5. CASE s[i].start > from
    <3>1. cut = s[i].start
      BY <2>2, <2>5 DEF CutAt
    <3>2. cut <= to
      BY <1>1, <2>3, <3>1
    <3>3. cut - from <= max
      <4>1. f < i
        <5>1. s[f].start < s[i].start
          BY <1>1, <1>3, <2>3, <2>5
        <5>2. ~(i < f)
          BY <1>1, <2>3, <5>1
        <5>3. i # f
          BY <1>1, <2>3, <5>1
        <5>. QED
          BY <1>1, <2>3, <5>2, <5>3
      <4>2. i - 1 \in 1..Len(s) - 1 /\ i - 1 \in 1..Len(s) /\ (i - 1) + 1 = i /\ i - 1 < i
        BY <1>1, <2>3, <4>1
      <4>3. s[i - 1].end = s[i].start
        BY <1>1, <4>2
      <4>4. ~(s[i].start <= to /\ s[i].start - from > max)
        BY <2>4, <4>2, <4>3
      <4>. QED
        BY <1>1, <2>3, <3>1, <3>2, <4>4
    <3>. QED
      BY <1>1, <2>3, <3>1, <3>2, <3>3, LinesAreClean DEF cut, to
  <2>6. CASE s[i].start <= from
    <3>1. /\ cut \in Nat /\ cut > from /\ cut - from <= max
          /\ (cut - s[i].start) % s[i].width = 0
      BY <1>1, <2>2, <2>3, <2>6, CutIsNear
    <3>2. cut < s[i].end /\ cut <= to /\ s[i].start < cut
      <4>. DEFINE a == s[i].start
                  b == s[i].end
      <4>1. a \in Nat /\ b \in Nat /\ to \in Nat /\ a <= from /\ b <= to /\ b - from > max
        BY <1>1, <2>3, <2>6
      <4>. HIDE DEF a, b
      <4>2. cut < b /\ cut <= to /\ a < cut
        BY <3>1, <4>1
      <4>. QED
        BY <4>2 DEF a, b
    <3>3. Clean(s, cut)
      <4>1. ASSUME NEW j \in 1..Len(s), cut \in s[j].start..s[j].end - 1 PROVE j = i
        <5>1. s[j].start <= cut /\ cut < s[j].end
          BY <1>1, <3>1, <4>1
        <5>2. CASE j < i
          <6>1. s[j].end <= s[i].start
            BY <1>1, <2>3, <5>2
          <6>. QED
            BY <1>1, <2>3, <3>1, <3>2, <5>1, <6>1
        <5>3. CASE j > i
          <6>1. s[i].end <= s[j].start
            BY <1>1, <2>3, <5>3
          <6>. QED
            BY <1>1, <2>3, <3>1, <3>2, <5>1, <6>1
        <5>. QED
          BY <1>1, <2>3, <5>2, <5>3
      <4>. QED
        BY <3>1, <4>1 DEF Clean
    <3>. QED
      BY <1>1, <3>1, <3>2, <3>3 DEF cut, to
  <2>. QED
    BY <1>1, <2>3, <2>5, <2>6
<1>. QED
  BY <1>4, <1>5

\* A piece begins cleanly and its path is above all its lines.
Fit(s, c) == Clean(s, c.start) /\ \A i \in Within(s, c) : IsPrefix(c.path, s[i].path)
\* It is bounded, by more only with a part of an atomic unit, and keeps a heading.
Snug(s, us, c) ==
  /\ c.end - c.start <= AtomicMax
  /\ \/ c.end - c.start <= HardMax
     \/ \E u \in Range(us) : Atomic(u) /\ u.start < c.end /\ c.start < u.end
  /\ \A i \in Within(s, c) : s[i].path # <<>> => c.path # <<>>
FitDrafts(s) == {c \in DraftRecs : Fit(s, c)}
GoodDrafts(s, us) == {c \in DraftRecs : Fit(s, c) /\ Snug(s, us, c)}

\* The cuts of a forced split, up to the first that is the end.
SplitAt(s, p, max, f, n) ==
  /\ f[0] = p.start /\ f[n] = p.end
  /\ ForceSplit(s, p, max) =
       [k \in 1..n |-> [path |-> p.path, start |-> f[k - 1], end |-> f[k], forced |-> TRUE]]
  /\ \A k \in 0..n : f[k] \in p.start..p.end /\ Clean(s, f[k])
  /\ \A k \in 1..n : f[k - 1] < f[k] /\ f[k] - f[k - 1] <= max

LEMMA CutsReach ==
  ASSUME NEW s, IsScan(s), NEW p, Aligned(s, p), p.start \in Nat, p.end \in Nat, p.start < p.end,
         NEW max \in Nat, HardMax <= max
  PROVE  \E f : \E n \in 1..p.end - p.start : SplitAt(s, p, max, f, n)
<1>. DEFINE n == p.end - p.start
            R == {x \in p.start..p.end : Clean(s, x)}
<1>1. n \in Nat \ {0}
  OBVIOUS
<1>2. p.start \in R
  BY LinesAreClean DEF Aligned
<1>3. \A x \in R, k \in 1..n : NextCut(s, x, p.end, max) \in R
  BY CutIsClean
<1>4. PICK f : CutsRun(s, p, max, n, R, f)
  <2>. HIDE DEF n, R
  <2>1. n = p.end - p.start /\ n \in Nat
    BY <1>1 DEF n
  <2>. QED
    BY <1>2, <1>3, <2>1, CutsUnfold
<1>5. /\ f \in [0..n -> R] /\ f[0] = p.start /\ ForceSplit(s, p, max) = Pieces(f, p)
      /\ \A k \in 1..n : f[k] = NextCut(s, f[k - 1], p.end, max)
  BY <1>4 DEF CutsRun
<1>6. \A k \in 0..n : f[k] \in p.start..p.end /\ Clean(s, f[k])
  BY <1>5
<1>. HIDE DEF R
<1>7. ASSUME NEW k \in 1..n
      PROVE  /\ f[k] \in f[k - 1]..p.end /\ f[k] - f[k - 1] <= max
             /\ f[k - 1] < p.end => f[k - 1] < f[k]
  <2>1. k - 1 \in 0..n
    BY <1>1
  <2>2. f[k - 1] \in p.start..p.end /\ Clean(s, f[k - 1]) /\ f[k] = NextCut(s, f[k - 1], p.end, max)
    BY <1>5, <1>6, <2>1
  <2>. QED
    BY <2>2, CutIsClean
<1>. DEFINE A == {k \in 0..n : f[k] >= p.start + k \/ f[k] = p.end}
<1>8. 0 \in A
  BY <1>1, <1>5
<1>9. ASSUME NEW k \in 0..n, k < n, k \in A PROVE k + 1 \in A
  <2>1. k + 1 \in 1..n /\ k + 1 \in 0..n /\ (k + 1) - 1 = k /\ f[k] \in p.start..p.end
    BY <1>1, <1>6, <1>9
  <2>2. f[k + 1] \in f[k]..p.end /\ (f[k] < p.end => f[k] < f[k + 1])
    BY <1>7, <2>1
  <2>3. f[k] >= p.start + k \/ f[k] = p.end
    BY <1>9
  <2>4. f[k + 1] >= p.start + (k + 1) \/ f[k + 1] = p.end
    <3>. DEFINE a == f[k]
                b == f[k + 1]
    <3>1. a \in p.start..p.end /\ b \in a..p.end /\ (a < p.end => a < b) /\ (a >= p.start + k \/ a = p.end)
      BY <2>1, <2>2, <2>3
    <3>. HIDE DEF a, b
    <3>2. b >= p.start + (k + 1) \/ b = p.end
      BY <3>1
    <3>. QED
      BY <3>2 DEF b
  <2>. QED
    BY <2>1, <2>4
<1>10. \A k \in 0..n : k \in A
  <2>. HIDE DEF A, n
  <2>. QED
    BY <1>1, <1>8, <1>9, Climb
<1>11. n \in 1..n /\ f[n] = p.end
  <2>1. n \in A /\ f[n] \in p.start..p.end /\ n \in 1..n
    BY <1>1, <1>6, <1>10
  <2>. QED
    BY <2>1
<1>. DEFINE Ends == {m \in 1..n : f[m] = p.end}
            First(m) == m \in 1..n /\ f[m] = p.end /\ \A l \in 1..m - 1 : f[l] # p.end
            m == CHOOSE m \in 1..n : f[m] = p.end /\ \A l \in 1..m - 1 : f[l] # p.end
<1>12. \E l \in 1..n : f[l] = p.end /\ \A j \in 1..l - 1 : f[j] # p.end
  <2>1. Ends \in SUBSET Nat /\ Ends # {}
    BY <1>1, <1>11
  <2>2. Min(Ends) \in Ends /\ \A x \in Ends : Min(Ends) <= x
    <3>. HIDE DEF Ends
    <3>. QED
      BY <2>1, Least
  <2>. DEFINE l == Min(Ends)
  <2>3. l \in 1..n /\ f[l] = p.end
    BY <2>2
  <2>4. ASSUME NEW j \in 1..l - 1 PROVE f[j] # p.end
    <3>1. j \in 1..n /\ j < l
      <4>. HIDE DEF l
      <4>. QED
        BY <1>1, <2>3
    <3>2. f[j] = p.end => l <= j
      BY <2>2, <3>1
    <3>. HIDE DEF l
    <3>. QED
      BY <2>3, <3>1, <3>2
  <2>. HIDE DEF l
  <2>. QED
    BY <2>3, <2>4
<1>13. m \in 1..n /\ f[m] = p.end /\ \A l \in 1..m - 1 : f[l] # p.end
  <2>. HIDE DEF n
  <2>. QED
    BY <1>12
<1>14. Pieces(f, p) = [k \in 1..m |-> [path |-> p.path, start |-> f[k - 1], end |-> f[k], forced |-> TRUE]]
  BY DEF Pieces
<1>. HIDE DEF m, n
<1>15. ASSUME NEW k \in 1..m PROVE f[k - 1] < f[k] /\ f[k] - f[k - 1] <= max
  <2>1. k \in 1..n /\ k - 1 \in 0..n /\ f[k - 1] \in p.start..p.end
    BY <1>1, <1>6, <1>13
  <2>2. f[k - 1] # p.end
    <3>1. CASE k = 1
      BY <1>5, <3>1
    <3>2. CASE k # 1
      <4>1. k - 1 \in 1..m - 1
        BY <1>1, <1>13, <3>2
      <4>. QED
        BY <1>13, <4>1
    <3>. QED
      BY <3>1, <3>2
  <2>. QED
    BY <1>7, <2>1, <2>2
<1>16. \A k \in 0..m : f[k] \in p.start..p.end /\ Clean(s, f[k])
  <2>1. \A k \in 0..m : k \in 0..n
    BY <1>1, <1>13
  <2>. QED
    BY <1>6, <2>1
<1>17. m \in 1..p.end - p.start
  BY <1>13 DEF n
<1>18. SplitAt(s, p, max, f, m)
  BY <1>5, <1>13, <1>14, <1>15, <1>16 DEF SplitAt
<1>. QED
  BY <1>17, <1>18

\* The drafts of a pack are the pack, cut where it is too long.
LEMMA DraftsOfAre ==
  ASSUME NEW s, IsScan(s), NEW us, NEW p \in GoodPacks(s, us), p.start < p.end
  PROVE  /\ DraftsOf(s, p) \in Seq(GoodDrafts(s, us)) /\ Chain(DraftsOf(s, p), p.start, p.end)
         /\ p.end - p.start <= CapOf(p) => Covered(DraftsOf(s, p), p)
<1>1. /\ p.start \in Nat /\ p.end \in Nat /\ p.path \in Paths /\ p.atomic \in BOOLEAN
      /\ Aligned(s, p) /\ OnePath(s, p) /\ OfUnits(us, p)
  BY DEF GoodPacks, PackRecs
<1>2. CapOf(p) \in Nat /\ HardMax <= CapOf(p) /\ CapOf(p) <= AtomicMax /\ HardMax \in Nat /\ AtomicMax \in Nat
  BY ChunkAssumption DEF CapOf
<1>3. Len(s) \in Nat /\ \A i \in 1..Len(s) : s[i] \in ScanRecs /\ s[i].start \in Nat /\ s[i].path \in Paths
  BY ScanOrder DEF ScanRecs
<1>4. ASSUME NEW c \in DraftRecs, p.start <= c.start, c.start < c.end, c.end <= p.end, c.path = p.path,
             Clean(s, c.start), c.end - c.start <= CapOf(p)
      PROVE  c \in GoodDrafts(s, us)
  <2>1. c.start \in Nat /\ c.end \in Nat
    BY DEF DraftRecs
  <2>2. \A i \in Within(s, c) : s[i].path = c.path
    <3>1. ASSUME NEW i \in Within(s, c) PROVE i \in Within(s, p)
      BY <1>1, <1>3, <1>4, <2>1 DEF Within
    <3>. QED
      BY <1>1, <1>4, <3>1 DEF OnePath
  <2>3. IsPrefix(c.path, c.path)
    BY <1>1, <1>4, PrefixPointwise, LenProperties DEF Paths
  <2>4. Fit(s, c)
    BY <1>4, <2>2, <2>3 DEF Fit
  <2>5. c.end - c.start <= AtomicMax
    BY <1>2, <1>4, <2>1
  <2>6. c.end - c.start <= HardMax \/ \E u \in Range(us) : Atomic(u) /\ u.start < c.end /\ c.start < u.end
    <3>1. CASE ~p.atomic
      BY <1>4, <3>1 DEF CapOf
    <3>2. CASE p.atomic
      <4>1. PICK u \in Range(us) : p.start = u.start /\ p.end = u.end /\ p.atomic = Atomic(u)
        BY <1>1, <3>2 DEF OfUnits
      <4>2. u.start < c.end /\ c.start < u.end
        <5>1. p.start < c.end /\ c.start < p.end
          BY <1>1, <1>4, <2>1
        <5>. QED
          BY <4>1, <5>1
      <4>. QED
        BY <3>2, <4>1, <4>2
    <3>. QED
      BY <3>1, <3>2
  <2>7. Snug(s, us, c)
    BY <2>2, <2>5, <2>6 DEF Snug
  <2>. QED
    BY <2>4, <2>7 DEF GoodDrafts
<1>5. CASE p.end - p.start <= CapOf(p)
  <2>. DEFINE c == [path |-> p.path, start |-> p.start, end |-> p.end, forced |-> FALSE]
              d == <<c>>
  <2>0. ~(p.end - p.start > CapOf(p))
    BY <1>1, <1>2, <1>5
  <2>1. DraftsOf(s, p) = d
    BY <2>0 DEF DraftsOf
  <2>2. c \in DraftRecs /\ c.start = p.start /\ c.end = p.end /\ c.path = p.path
    BY <1>1 DEF DraftRecs
  <2>3. Clean(s, p.start)
    BY <1>1, LinesAreClean DEF Aligned
  <2>. HIDE DEF c
  <2>4. c \in GoodDrafts(s, us)
    BY <1>1, <1>4, <1>5, <2>2, <2>3
  <2>5. d \in Seq(GoodDrafts(s, us)) /\ Len(d) = 1 /\ d[1] = c /\ d # <<>>
    BY <2>4
  <2>. HIDE DEF d
  <2>6. Chain(d, p.start, p.end)
    BY <1>1, <2>2, <2>5 DEF Chain
  <2>7. Covered(d, p)
    BY <1>1, <2>2, <2>5 DEF Covered
  <2>. QED
    BY <2>1, <2>5, <2>6, <2>7
<1>6. CASE ~(p.end - p.start <= CapOf(p))
  <2>1. DraftsOf(s, p) = ForceSplit(s, p, CapOf(p))
    BY <1>1, <1>2, <1>6 DEF DraftsOf
  <2>0. PICK f : \E n \in 1..p.end - p.start : SplitAt(s, p, CapOf(p), f, n)
    BY <1>1, <1>2, CutsReach
  <2>2. PICK n \in 1..p.end - p.start : SplitAt(s, p, CapOf(p), f, n)
    BY <2>0
  <2>. USE DEF SplitAt
  <2>. DEFINE d == [k \in 1..n |-> [path |-> p.path, start |-> f[k - 1], end |-> f[k], forced |-> TRUE]]
  <2>3. n \in Nat \ {0}
    BY <1>1, <2>2
  <2>4. ASSUME NEW k \in 1..n
        PROVE  /\ d[k] \in GoodDrafts(s, us) /\ d[k].start = f[k - 1] /\ d[k].end = f[k]
               /\ d[k].start \in Nat /\ d[k].end \in Nat /\ d[k].start < d[k].end
    <3>1. k \in 0..n /\ k - 1 \in 0..n
      BY <2>3
    <3>2. /\ f[k] \in p.start..p.end /\ f[k - 1] \in p.start..p.end /\ f[k - 1] < f[k]
          /\ Clean(s, f[k - 1]) /\ f[k] - f[k - 1] <= CapOf(p)
      BY <2>2, <3>1
    <3>3. f[k] \in Nat /\ f[k - 1] \in Nat /\ p.start <= f[k - 1] /\ f[k] <= p.end
      BY <1>1, <3>2
    <3>. DEFINE c == [path |-> p.path, start |-> f[k - 1], end |-> f[k], forced |-> TRUE]
    <3>4. c \in DraftRecs /\ c.start = f[k - 1] /\ c.end = f[k] /\ c.path = p.path
      BY <1>1, <3>3 DEF DraftRecs
    <3>5. d[k] = c
      OBVIOUS
    <3>. HIDE DEF c, d
    <3>6. c \in GoodDrafts(s, us)
      BY <1>4, <3>2, <3>3, <3>4
    <3>. QED
      BY <3>2, <3>3, <3>4, <3>5, <3>6
  <2>5. d \in Seq(GoodDrafts(s, us)) /\ Len(d) = n /\ d # <<>>
    <3>1. d \in [1..n -> GoodDrafts(s, us)]
      BY <2>4
    <3>. HIDE DEF d
    <3>. QED
      BY <2>3, <3>1, ListIs
  <2>. HIDE DEF d
  <2>6. d[1].start = p.start /\ d[n].end = p.end
    <3>1. 1 \in 1..n /\ n \in 1..n /\ 1 - 1 = 0
      BY <2>3
    <3>. QED
      BY <2>2, <2>4, <3>1
  <2>7. ASSUME NEW k \in 1..n - 1 PROVE d[k].end = d[k + 1].start
    <3>1. k \in 1..n /\ k + 1 \in 1..n /\ (k + 1) - 1 = k
      BY <2>3
    <3>. QED
      BY <2>4, <3>1
  <2>8. Chain(d, p.start, p.end)
    BY <2>4, <2>5, <2>6, <2>7 DEF Chain
  <2>9. DraftsOf(s, p) = d
    BY <2>1, <2>2 DEF d
  <2>. QED
    BY <1>6, <2>5, <2>8, <2>9
<1>. QED
  BY <1>5, <1>6

-----------------------------------------------------------------------------
(* The drafts of all packs                                                 *)

\* What is covered by one of two lists is covered by both together.
LEMMA CoveredJoins ==
  ASSUME NEW S, NEW c \in Seq(S), NEW d \in Seq(S)
  PROVE  \A b : Covered(c, b) \/ Covered(d, b) => Covered(c \o d, b)
<1>. DEFINE g == c \o d
            m == Len(c)
            n == Len(d)
<1>1. /\ m \in Nat /\ n \in Nat /\ Len(g) = m + n
      /\ \A i \in 1..m + n : g[i] = IF i <= m THEN c[i] ELSE d[i - m]
  BY ConcatProperties, LenProperties
<1>. HIDE DEF g
<1>2. ASSUME NEW b, Covered(c, b) PROVE Covered(g, b)
  <2>1. PICK k \in 1..m : c[k].start <= b.start /\ b.end <= c[k].end
    BY <1>2 DEF Covered
  <2>2. k \in 1..m + n /\ g[k] = c[k]
    BY <1>1
  <2>. QED
    BY <1>1, <2>1, <2>2 DEF Covered
<1>3. ASSUME NEW b, Covered(d, b) PROVE Covered(g, b)
  <2>1. PICK k \in 1..n : d[k].start <= b.start /\ b.end <= d[k].end
    BY <1>3 DEF Covered
  <2>2. m + k \in 1..m + n /\ ~(m + k <= m) /\ (m + k) - m = k
    BY <1>1
  <2>3. g[m + k] = d[k]
    BY <1>1, <2>2
  <2>. QED
    BY <1>1, <2>1, <2>2, <2>3 DEF Covered
<1>. QED
  BY <1>2, <1>3 DEF g

\* A pack that is not too long.
Bearable(p) == p.end - p.start <= CapOf(p)

DraftsUpto(s, us, ps, d, n) ==
  /\ d \in Seq(GoodDrafts(s, us))
  /\ n = 0 => d = <<>>
  /\ n > 0 => d # <<>> /\ Chain(d, 0, ps[n].end)
  /\ \A m \in 1..n : Bearable(ps[m]) => Covered(d, ps[m])

\* An atomic unit that is not too long is in one piece.
UnitsWhole(us, d) == \A u \in Range(us) : Atomic(u) /\ u.end - u.start <= AtomicMax => Covered(d, u)

IsDrafts(s, us, d) ==
  /\ d \in Seq(GoodDrafts(s, us)) /\ (d = <<>> <=> s = <<>>)
  /\ d # <<>> => Chain(d, 0, s[Len(s)].end)
  /\ UnitsWhole(us, d)

LEMMA PackFacts ==
  ASSUME NEW s, NEW us, NEW ps, IsPacks(s, us, ps)
  PROVE  /\ Len(ps) \in Nat /\ (ps = <<>> <=> Len(ps) = 0)
         /\ \A k \in 1..Len(ps) : /\ ps[k] \in GoodPacks(s, us) /\ ps[k].start \in Nat
                                  /\ ps[k].end \in Nat /\ ps[k].start < ps[k].end
         /\ ps # <<>> => ps[1].start = 0 /\ ps[Len(ps)].end = s[Len(s)].end
         /\ \A k \in 1..Len(ps) - 1 : ps[k].end = ps[k + 1].start
<1>1. ps \in Seq(GoodPacks(s, us)) /\ Len(ps) \in Nat /\ (ps = <<>> <=> Len(ps) = 0)
  BY EmptySeq DEF IsPacks
<1>2. \A k \in 1..Len(ps) : ps[k] \in GoodPacks(s, us)
  BY <1>1, ElementOfSeq
<1>3. CASE ps = <<>>
  BY <1>1, <1>3
<1>4. CASE ps # <<>>
  <2>1. Chain(ps, 0, s[Len(s)].end)
    BY <1>4 DEF IsPacks
  <2>. QED
    BY <1>1, <1>2, <2>1 DEF Chain
<1>. QED
  BY <1>3, <1>4

LEMMA DraftsGrow ==
  ASSUME NEW s, IsScan(s), NEW us, NEW ps, IsPacks(s, us, ps), NEW n \in Nat, n + 1 \in 1..Len(ps),
         NEW d, DraftsUpto(s, us, ps, d, n)
  PROVE  DraftsUpto(s, us, ps, d \o DraftsOf(s, ps[n + 1]), n + 1)
<1>. DEFINE p == ps[n + 1]
            e == DraftsOf(s, p)
            S == GoodDrafts(s, us)
<1>1. p \in GoodPacks(s, us) /\ p.start < p.end
  BY PackFacts
<1>2. e \in Seq(S) /\ Chain(e, p.start, p.end) /\ (Bearable(p) => Covered(e, p))
  BY <1>1, DraftsOfAre DEF Bearable
<1>3. d \in Seq(S)
  BY DEF DraftsUpto
<1>4. /\ d # <<>> => Chain(d, 0, p.start)
      /\ d = <<>> => p.start = 0
  <2>1. n > 0 => ps[n].end = p.start
    BY PackFacts
  <2>2. n = 0 => p.start = 0
    BY PackFacts
  <2>. QED
    BY <2>1, <2>2 DEF DraftsUpto
<1>5. \A m \in 1..n : Bearable(ps[m]) => Covered(d, ps[m])
  BY DEF DraftsUpto
<1>6. n + 1 # 0 /\ (\A m \in 1..n + 1 : m \in 1..n \/ m = n + 1)
  OBVIOUS
<1>. HIDE DEF e, S
<1>7. d \o e \in Seq(S)
  BY <1>2, <1>3, ConcatProperties
<1>8. Chain(d \o e, 0, p.end)
  BY <1>2, <1>3, <1>4, ChainsJoin
<1>9. \A b : Covered(d, b) \/ Covered(e, b) => Covered(d \o e, b)
  BY <1>2, <1>3, CoveredJoins
<1>10. \A m \in 1..n + 1 : Bearable(ps[m]) => Covered(d \o e, ps[m])
  BY <1>2, <1>5, <1>6, <1>9
<1>11. d \o e # <<>>
  BY <1>8 DEF Chain
<1>12. DraftsUpto(s, us, ps, d \o e, n + 1)
  BY <1>6, <1>7, <1>8, <1>10, <1>11 DEF DraftsUpto, S
<1>. QED
  BY <1>12 DEF e

\* The pack of an atomic unit that is not too long is not too long either.
LEMMA AtomicIsBearable ==
  ASSUME NEW s, NEW us, IsUnits(s, us), NEW p \in GoodPacks(s, us), NEW u \in Range(us),
         p.start <= u.start, u.end <= p.end, Atomic(u), u.end - u.start <= AtomicMax
  PROVE  Bearable(p)
<1>1. p.start \in Nat /\ p.end \in Nat /\ p.atomic \in BOOLEAN /\ OfUnits(us, p)
  BY DEF GoodPacks, PackRecs
<1>2. TargetMax \in Nat /\ HardMax \in Nat /\ TargetMax <= HardMax
  BY ChunkAssumption
<1>3. CASE ~p.atomic /\ p.end - p.start <= TargetMax
  <2>1. CapOf(p) = HardMax
    BY <1>3 DEF CapOf
  <2>2. p.end - p.start <= HardMax
    BY <1>1, <1>2, <1>3
  <2>. QED
    BY <2>1, <2>2 DEF Bearable
<1>4. ASSUME NEW v \in Range(us), p.start = v.start, p.end = v.end, p.atomic = Atomic(v)
      PROVE  Bearable(p)
  <2>1. us \in Seq(UnitRecs) /\ Len(us) \in Nat
    BY UnitFacts
  <2>2. PICK i \in 1..Len(us) : u = us[i]
    BY <2>1, RangeEquality
  <2>3. PICK j \in 1..Len(us) : v = us[j]
    BY <2>1, RangeEquality
  <2>4. /\ u.start \in Nat /\ u.end \in Nat /\ u.start < u.end
        /\ v.start \in Nat /\ v.end \in Nat /\ v.start < v.end
    BY <2>2, <2>3, UnitFacts
  <2>5. \A k, l \in 1..Len(us) : k < l => us[k].end <= us[l].start
    <3>1. us # <<>>
      BY <2>2, UnitFacts
    <3>2. Chain(us, 0, s[Len(s)].end)
      BY <3>1 DEF IsUnits
    <3>. QED
      BY <2>1, <3>2, ChainOrder
  <2>6. ~(i < j)
    <3>1. ASSUME i < j PROVE u.end <= v.start
      BY <2>2, <2>3, <2>5, <3>1
    <3>. QED
      BY <1>4, <2>4, <3>1
  <2>7. ~(j < i)
    <3>1. ASSUME j < i PROVE v.end <= u.start
      BY <2>2, <2>3, <2>5, <3>1
    <3>. QED
      BY <1>4, <2>4, <3>1
  <2>8. u = v
    BY <2>1, <2>2, <2>3, <2>6, <2>7
  <2>9. p.atomic /\ p.end - p.start <= AtomicMax
    BY <1>4, <2>8
  <2>. QED
    BY <2>9 DEF Bearable, CapOf
<1>. QED
  BY <1>1, <1>3, <1>4 DEF OfUnits

LEMMA DraftsAre ==
  ASSUME NEW s, IsScan(s), NEW us, IsUnits(s, us), NEW ps, IsPacks(s, us, ps)
  PROVE  IsDrafts(s, us, Drafts(s, ps))
<1>. DEFINE n == Len(ps)
            R == Seq(GoodDrafts(s, us))
<1>1. /\ n \in Nat /\ (ps = <<>> <=> n = 0)
      /\ \A k \in 1..n : ps[k] \in GoodPacks(s, us) /\ ps[k].start < ps[k].end
  BY PackFacts
<1>2. <<>> \in R
  BY EmptySeq
<1>3. \A x \in R, k \in 1..n : x \o DraftsOf(s, ps[k]) \in R
  <2>1. ASSUME NEW x \in R, NEW k \in 1..n PROVE x \o DraftsOf(s, ps[k]) \in R
    <3>1. DraftsOf(s, ps[k]) \in R
      BY <1>1, DraftsOfAre
    <3>. QED
      BY <3>1, ConcatProperties
  <2>. QED
    BY <2>1
<1>4. PICK f : DraftsRun(s, ps, n, R, f)
  <2>. HIDE DEF n, R
  <2>1. n = Len(ps)
    BY DEF n
  <2>. QED
    BY <1>1, <1>2, <1>3, <2>1, DraftsUnfold
<1>. HIDE DEF R
<1>5. /\ f \in [0..n -> R] /\ f[0] = <<>> /\ Drafts(s, ps) = f[n]
      /\ \A k \in 1..n : f[k] = f[k - 1] \o DraftsOf(s, ps[k])
  BY <1>4 DEF DraftsRun
<1>. DEFINE A == {k \in 0..n : DraftsUpto(s, us, ps, f[k], k)}
<1>6. 0 \in A
  <2>1. DraftsUpto(s, us, ps, <<>>, 0)
    BY EmptySeq DEF DraftsUpto
  <2>. QED
    BY <1>1, <1>5, <2>1
<1>7. ASSUME NEW k \in 0..n, k < n, k \in A PROVE k + 1 \in A
  <2>1. k \in Nat /\ k + 1 \in 1..n /\ k + 1 \in 0..n /\ (k + 1) - 1 = k
    BY <1>1, <1>7
  <2>2. DraftsUpto(s, us, ps, f[k] \o DraftsOf(s, ps[k + 1]), k + 1)
    BY <1>7, <2>1, DraftsGrow
  <2>3. f[k + 1] = f[k] \o DraftsOf(s, ps[k + 1])
    BY <1>5, <2>1
  <2>. QED
    BY <2>1, <2>2, <2>3
<1>. HIDE DEF n
<1>8. n \in A
  <2>. HIDE DEF A
  <2>1. \A k \in 0..n : k \in A
    BY <1>1, <1>6, <1>7, Climb
  <2>. QED
    BY <1>1, <2>1
<1>. DEFINE d == Drafts(s, ps)
<1>9. DraftsUpto(s, us, ps, d, n)
  BY <1>5, <1>8
<1>. HIDE DEF d, A
<1>10. (d = <<>> <=> n = 0) /\ (ps = <<>> <=> s = <<>>)
  BY <1>1, <1>9 DEF DraftsUpto, IsPacks, IsUnits
<1>11. d # <<>> => Chain(d, 0, s[Len(s)].end)
  <2>1. n > 0 => ps[n].end = s[Len(s)].end
    BY <1>1, PackFacts DEF n
  <2>. QED
    BY <1>1, <1>9, <1>10, <2>1 DEF DraftsUpto
<1>12. ASSUME NEW u \in Range(us), Atomic(u), u.end - u.start <= AtomicMax PROVE Covered(d, u)
  <2>1. us \in Seq(UnitRecs) /\ Len(us) \in Nat
    BY UnitFacts
  <2>2. PICK i \in 1..Len(us) : u = us[i]
    BY <2>1, RangeEquality
  <2>3. PICK k \in 1..n : ps[k].start <= u.start /\ u.end <= ps[k].end
    BY <2>2 DEF IsPacks, Covered, n
  <2>4. Bearable(ps[k])
    BY <1>1, <1>12, <2>3, AtomicIsBearable
  <2>5. PICK m \in 1..Len(d) : d[m].start <= ps[k].start /\ ps[k].end <= d[m].end
    BY <1>9, <2>4 DEF DraftsUpto, Covered
  <2>6. /\ u.start \in Nat /\ u.end \in Nat /\ ps[k].start \in Nat /\ ps[k].end \in Nat
        /\ d[m].start \in Nat /\ d[m].end \in Nat
    <3>1. u.start \in Nat /\ u.end \in Nat
      BY <2>2, UnitFacts
    <3>2. ps[k].start \in Nat /\ ps[k].end \in Nat
      BY PackFacts DEF n
    <3>3. n > 0
      BY <1>1
    <3>4. d[m].start \in Nat /\ d[m].end \in Nat
      BY <1>9, <3>3 DEF DraftsUpto, Chain
    <3>. QED
      BY <3>1, <3>2, <3>4
  <2>7. d[m].start <= u.start /\ u.end <= d[m].end
    BY <2>3, <2>5, <2>6
  <2>. QED
    BY <2>7 DEF Covered
<1>13. UnitsWhole(us, d)
  BY <1>12 DEF UnitsWhole
<1>14. d \in Seq(GoodDrafts(s, us))
  BY <1>9 DEF DraftsUpto
<1>15. IsDrafts(s, us, d)
  BY <1>1, <1>10, <1>11, <1>13, <1>14 DEF IsDrafts
<1>. QED
  BY <1>15 DEF d

-----------------------------------------------------------------------------
(* Merged drafts                                                           *)

\* A draft is added, or merged into the last one.
NewDraft(done, b, y) == y = Append(done, b)
LongerDraft(done, b, e, y) ==
  /\ done # <<>> /\ Mergeable(done[Len(done)], b) /\ y = [done EXCEPT ![Len(done)] = e]
  /\ e.start = done[Len(done)].start /\ e.end = b.end /\ e.forced = done[Len(done)].forced
  /\ e.path = CommonPrefix(done[Len(done)].path, b.path)

LEMMA MergeTyped ==
  ASSUME NEW done \in Seq(DraftRecs), NEW b \in DraftRecs
  PROVE  /\ MergeDraft(done, b) \in Seq(DraftRecs)
         /\ \/ NewDraft(done, b, MergeDraft(done, b))
            \/ \E e \in DraftRecs : LongerDraft(done, b, e, MergeDraft(done, b))
<1>. DEFINE last == Len(done)
            joins == done # <<>> /\ Mergeable(done[last], b)
<1>1. done # <<>> => last \in 1..last /\ done[last] \in DraftRecs
  BY EmptySeq, ElementOfSeq
<1>2. CASE joins
  <2>. DEFINE p == done[last]
              common == CommonPrefix(p.path, b.path)
              e == [p EXCEPT !.end = b.end, !.path = common]
              g == [done EXCEPT ![last].end = b.end, ![last].path = CommonPrefix(@, b.path)]
  <2>1. last \in 1..last /\ p \in DraftRecs /\ done \in [1..last -> DraftRecs]
    BY <1>1, <1>2, LenProperties
  <2>2. p.path \in Paths /\ b.path \in Paths /\ b.end \in Nat
    <3>. HIDE DEF p
    <3>. QED
      BY <2>1 DEF DraftRecs
  <2>3. common \in Paths
    BY <2>2, CommonIs DEF Paths
  <2>4. g = [done EXCEPT ![last] = e]
    <3>1. g = [done EXCEPT ![last].end = b.end, ![last].path = common]
      BY <2>1
    <3>. HIDE DEF last, common
    <3>. QED
      BY <2>1, <3>1
  <2>. HIDE DEF common
  <2>5. e \in DraftRecs /\ e.start = p.start /\ e.end = b.end /\ e.path = common /\ e.forced = p.forced
    <3>. HIDE DEF p
    <3>. QED
      BY <2>1, <2>2, <2>3 DEF DraftRecs
  <2>6. MergeDraft(done, b) = g
    BY <1>2 DEF MergeDraft
  <2>. HIDE DEF e, g
  <2>7. g \in Seq(DraftRecs)
    BY <2>1, <2>4, <2>5, ExceptSeq
  <2>8. LongerDraft(done, b, e, g)
    BY <1>2, <2>4, <2>5 DEF LongerDraft, common
  <2>. QED
    BY <2>5, <2>6, <2>7, <2>8
<1>3. CASE ~joins
  <2>1. MergeDraft(done, b) = Append(done, b)
    BY <1>3 DEF MergeDraft
  <2>. QED
    BY <2>1, AppendProperties DEF NewDraft
<1>. QED
  BY <1>2, <1>3

\* Two neighbours under their common path are fit.
LEMMA JoinedFits ==
  ASSUME NEW s, IsScan(s), NEW a \in FitDrafts(s), NEW b \in FitDrafts(s), a.end = b.start,
         NEW e \in DraftRecs, e.start = a.start, e.end = b.end, e.path = CommonPrefix(a.path, b.path)
  PROVE  /\ Fit(s, e)
         /\ \A i \in Within(s, e) : i \in Within(s, a) \/ i \in Within(s, b)
<1>1. /\ a.path \in Paths /\ b.path \in Paths /\ Fit(s, a) /\ Fit(s, b)
      /\ a.start \in Nat /\ a.end \in Nat /\ b.start \in Nat /\ b.end \in Nat
  BY DEF FitDrafts, DraftRecs
<1>2. e.path \in Paths /\ IsPrefix(e.path, a.path) /\ IsPrefix(e.path, b.path)
  BY <1>1, CommonIs DEF Paths
<1>3. ASSUME NEW i \in Within(s, e) PROVE i \in Within(s, a) \/ i \in Within(s, b)
  <2>1. i \in 1..Len(s) /\ e.start <= s[i].start /\ s[i].start < e.end /\ s[i].start \in Nat
    BY ScanOrder DEF Within
  <2>2. CASE s[i].start < a.end
    BY <2>1, <2>2 DEF Within
  <2>3. CASE b.start <= s[i].start
    BY <2>1, <2>3 DEF Within
  <2>. QED
    BY <1>1, <2>1, <2>2, <2>3
<1>4. ASSUME NEW i \in Within(s, e) PROVE IsPrefix(e.path, s[i].path)
  <2>1. s[i].path \in Paths
    BY ScanOrder DEF Within, ScanRecs
  <2>2. CASE i \in Within(s, a)
    <3>1. IsPrefix(a.path, s[i].path)
      BY <1>1, <2>2 DEF Fit
    <3>. QED
      BY <1>1, <1>2, <2>1, <3>1, PrefixJoins DEF Paths
  <2>3. CASE i \in Within(s, b)
    <3>1. IsPrefix(b.path, s[i].path)
      BY <1>1, <2>3 DEF Fit
    <3>. QED
      BY <1>1, <1>2, <2>1, <3>1, PrefixJoins DEF Paths
  <2>. QED
    BY <1>3, <1>4, <2>2, <2>3
<1>. QED
  BY <1>1, <1>3, <1>4 DEF Fit

\* Siblings that are merged keep a heading, if they had one.
LEMMA MergedIsGood ==
  ASSUME NEW s, IsScan(s), NEW us, NEW a \in GoodDrafts(s, us), NEW b \in GoodDrafts(s, us), a.end = b.start,
         Mergeable(a, b), NEW e \in DraftRecs, e.start = a.start, e.end = b.end,
         e.path = CommonPrefix(a.path, b.path)
  PROVE  e \in GoodDrafts(s, us)
<1>1. /\ a.path \in Paths /\ b.path \in Paths /\ a \in FitDrafts(s) /\ b \in FitDrafts(s)
      /\ Snug(s, us, a) /\ Snug(s, us, b) /\ e.start \in Nat /\ e.end \in Nat
  BY DEF GoodDrafts, FitDrafts, DraftRecs
<1>2. Fit(s, e) /\ \A i \in Within(s, e) : i \in Within(s, a) \/ i \in Within(s, b)
  BY <1>1, JoinedFits
<1>3. e.end - e.start <= HardMax /\ e.end - e.start <= AtomicMax
  <2>1. TargetMax \in Nat /\ HardMax \in Nat /\ AtomicMax \in Nat /\ TargetMax <= HardMax /\ HardMax <= AtomicMax
    BY ChunkAssumption
  <2>2. e.end - e.start <= TargetMax
    BY DEF Mergeable
  <2>. QED
    BY <1>1, <2>1, <2>2
<1>4. (a.path # <<>> => e.path # <<>>) /\ (b.path # <<>> => e.path # <<>>)
  <2>1. CASE a.path = b.path
    BY <1>1, <2>1, CommonIs DEF Paths
  <2>2. CASE a.path # b.path
    <3>1. Len(e.path) >= 1
      BY <2>2 DEF Mergeable, Siblings
    <3>2. e.path # <<>>
      BY <3>1, EmptySeq
    <3>. QED
      BY <3>2
  <2>. QED
    BY <2>1, <2>2
<1>5. \A i \in Within(s, e) : s[i].path # <<>> => e.path # <<>>
  BY <1>1, <1>2, <1>4 DEF Snug
<1>6. Snug(s, us, e)
  BY <1>3, <1>5 DEF Snug
<1>. QED
  BY <1>2, <1>6 DEF GoodDrafts

\* The first n drafts, merged.
MergedUpto(s, us, d, g, n) ==
  /\ g \in Seq(GoodDrafts(s, us))
  /\ n = 0 => g = <<>>
  /\ n > 0 => g # <<>> /\ Chain(g, 0, d[n].end)
  /\ \A m \in 1..n : Covered(g, d[m])

LEMMA DraftFacts ==
  ASSUME NEW s, NEW us, NEW d, IsDrafts(s, us, d)
  PROVE  /\ Len(d) \in Nat /\ (d = <<>> <=> Len(d) = 0)
         /\ \A k \in 1..Len(d) : /\ d[k] \in GoodDrafts(s, us) /\ d[k].start \in Nat
                                 /\ d[k].end \in Nat /\ d[k].start < d[k].end
         /\ d # <<>> => d[1].start = 0 /\ d[Len(d)].end = s[Len(s)].end
         /\ \A k \in 1..Len(d) - 1 : d[k].end = d[k + 1].start
<1>1. d \in Seq(GoodDrafts(s, us)) /\ Len(d) \in Nat /\ (d = <<>> <=> Len(d) = 0)
  BY EmptySeq DEF IsDrafts
<1>2. \A k \in 1..Len(d) : d[k] \in GoodDrafts(s, us)
  BY <1>1, ElementOfSeq
<1>3. CASE d = <<>>
  BY <1>1, <1>3
<1>4. CASE d # <<>>
  <2>1. Chain(d, 0, s[Len(s)].end)
    BY <1>4 DEF IsDrafts
  <2>. QED
    BY <1>1, <1>2, <2>1 DEF Chain
<1>. QED
  BY <1>3, <1>4

LEMMA MergesGrow ==
  ASSUME NEW s, IsScan(s), NEW us, NEW d, IsDrafts(s, us, d), NEW n \in Nat, n + 1 \in 1..Len(d),
         NEW g, MergedUpto(s, us, d, g, n)
  PROVE  MergedUpto(s, us, d, MergeDraft(g, d[n + 1]), n + 1)
<1>. DEFINE b == d[n + 1]
            y == MergeDraft(g, b)
            S == GoodDrafts(s, us)
            last == Len(g)
<1>1. b \in S /\ b \in DraftRecs /\ b.start \in Nat /\ b.end \in Nat /\ b.start < b.end
  BY DraftFacts DEF GoodDrafts
<1>2. g \in Seq(S) /\ g \in Seq(DraftRecs) /\ last \in Nat /\ (g = <<>> <=> last = 0)
  <2>1. g \in Seq(S)
    BY DEF MergedUpto
  <2>2. g \in Seq(DraftRecs)
    BY <2>1 DEF GoodDrafts
  <2>. QED
    BY <2>1, <2>2, EmptySeq
<1>3. /\ g # <<>> => Chain(g, 0, b.start)
      /\ g = <<>> => b.start = 0
  <2>1. n > 0 => d[n].end = b.start
    BY DraftFacts
  <2>2. n = 0 => b.start = 0
    BY DraftFacts
  <2>. QED
    BY <2>1, <2>2 DEF MergedUpto
<1>4. g # <<>> => /\ last \in 1..last /\ g[last] \in S /\ g[last].end = b.start
                  /\ g[last].start \in Nat /\ g[last].start < g[last].end
  <2>. SUFFICES ASSUME g # <<>>
                PROVE  /\ last \in 1..last /\ g[last] \in S /\ g[last].end = b.start
                       /\ g[last].start \in Nat /\ g[last].start < g[last].end
    OBVIOUS
  <2>1. last \in 1..last
    BY <1>2
  <2>2. g[last] \in S
    BY <1>2, <2>1, ElementOfSeq
  <2>3. Chain(g, 0, b.start)
    BY <1>3
  <2>. QED
    BY <2>1, <2>2, <2>3 DEF Chain
<1>5. \A m \in 1..n : Covered(g, d[m]) /\ d[m].end \in Nat
  BY DraftFacts DEF MergedUpto
<1>6. NewDraft(g, b, y) \/ \E e \in DraftRecs : LongerDraft(g, b, e, y)
  BY <1>1, <1>2, MergeTyped
<1>7. n + 1 # 0 /\ (\A m \in 1..n + 1 : m \in 1..n \/ m = n + 1)
  OBVIOUS
<1>. HIDE DEF y, S
<1>8. ASSUME NewDraft(g, b, y) PROVE MergedUpto(s, us, d, y, n + 1)
  <2>1. y = Append(g, b)
    BY <1>8 DEF NewDraft
  <2>. HIDE DEF last
  <2>2. y \in Seq(S) /\ y # <<>>
    BY <1>1, <1>2, <2>1, AppendProperties
  <2>3. Chain(y, 0, b.end)
    BY <1>1, <1>2, <1>3, <2>1, ChainGrows
  <2>4. /\ \A c : Covered(g, c) => Covered(y, c)
        /\ \A c : b.start <= c.start /\ c.end <= b.end => Covered(y, c)
    BY <1>1, <1>2, <2>1, CoveredGrows
  <2>5. Covered(y, b)
    BY <1>1, <2>4
  <2>6. \A m \in 1..n + 1 : Covered(y, d[m])
    BY <1>5, <1>7, <2>4, <2>5
  <2>. QED
    BY <1>7, <2>2, <2>3, <2>6 DEF MergedUpto, S
<1>9. ASSUME NEW e \in DraftRecs, LongerDraft(g, b, e, y) PROVE MergedUpto(s, us, d, y, n + 1)
  <2>1. /\ g # <<>> /\ Mergeable(g[last], b) /\ y = [g EXCEPT ![last] = e]
        /\ e.start = g[last].start /\ e.end = b.end /\ e.path = CommonPrefix(g[last].path, b.path)
    BY <1>9 DEF LongerDraft
  <2>2. e \in S
    BY <1>1, <1>4, <2>1, MergedIsGood DEF S
  <2>3. y \in Seq(S) /\ Len(y) = last /\ y # <<>>
    <3>1. y \in Seq(S) /\ Len(y) = last
      BY <1>2, <1>4, <2>1, <2>2, ExceptSeq
    <3>. QED
      BY <1>2, <2>1, <3>1, EmptySeq
  <2>. HIDE DEF b
  <2>4. Chain(y, 0, b.end)
    BY <1>1, <1>2, <1>3, <2>1, <2>2, ChainStretches
  <2>5. g[last].end \in Nat /\ g[last].end <= e.end /\ e.end \in Nat
    BY <1>1, <1>4, <2>1
  <2>6. /\ \A c : c.end \in Nat /\ Covered(g, c) => Covered(y, c)
        /\ \A c : e.start <= c.start /\ c.end <= e.end => Covered(y, c)
    BY <1>2, <2>1, <2>2, <2>5, CoveredStretches
  <2>7. e.start <= b.start /\ b.end <= e.end
    BY <1>1, <1>4, <2>1
  <2>8. Covered(y, b)
    BY <2>6, <2>7
  <2>9. \A m \in 1..n + 1 : Covered(y, d[m])
    BY <1>5, <1>7, <2>6, <2>8 DEF b
  <2>. QED
    BY <1>7, <2>3, <2>4, <2>9 DEF MergedUpto, S, b
<1>10. MergedUpto(s, us, d, y, n + 1)
  BY <1>6, <1>8, <1>9
<1>. QED
  BY <1>10 DEF y

\* What covers the drafts covers what they covered.
LEMMA CoverJoins ==
  ASSUME NEW S, NEW c \in Seq(S), NEW g, NEW x, NEW y, Chain(c, x, y), Chain(g, x, y),
         \A m \in 1..Len(c) : Covered(g, c[m])
  PROVE  \A b : b.start \in Nat /\ b.end \in Nat /\ Covered(c, b) => Covered(g, b)
<1>1. ASSUME NEW b, b.start \in Nat, b.end \in Nat, Covered(c, b) PROVE Covered(g, b)
  <2>1. PICK m \in 1..Len(c) : c[m].start <= b.start /\ b.end <= c[m].end
    BY <1>1 DEF Covered
  <2>2. PICK k \in 1..Len(g) : g[k].start <= c[m].start /\ c[m].end <= g[k].end
    BY DEF Covered
  <2>3. c[m].start \in Nat /\ c[m].end \in Nat /\ g[k].start \in Nat /\ g[k].end \in Nat
    BY DEF Chain
  <2>. DEFINE mid == c[m]
              big == g[k]
  <2>4. big.start <= b.start /\ b.end <= big.end
    <3>1. /\ mid.start \in Nat /\ mid.end \in Nat /\ big.start \in Nat /\ big.end \in Nat
          /\ mid.start <= b.start /\ b.end <= mid.end /\ big.start <= mid.start /\ mid.end <= big.end
      BY <2>1, <2>2, <2>3
    <3>. HIDE DEF mid, big
    <3>. QED
      BY <1>1, <3>1
  <2>. QED
    BY <2>4 DEF Covered
<1>. QED
  BY <1>1

LEMMA MergedAre ==
  ASSUME NEW s, IsScan(s), NEW us, IsUnits(s, us), NEW d, IsDrafts(s, us, d)
  PROVE  IsDrafts(s, us, Merged(d))
<1>. DEFINE n == Len(d)
            R == Seq(DraftRecs)
<1>1. n \in Nat /\ (d = <<>> <=> n = 0) /\ \A k \in 1..n : d[k] \in DraftRecs
  BY DraftFacts DEF GoodDrafts
<1>2. <<>> \in R
  BY EmptySeq
<1>3. \A x \in R, k \in 1..n : MergeDraft(x, d[k]) \in R
  BY <1>1, MergeTyped
<1>4. PICK f : MergesRun(d, n, R, f)
  <2>. HIDE DEF n, R
  <2>1. n = Len(d)
    BY DEF n
  <2>. QED
    BY <1>1, <1>2, <1>3, <2>1, MergesUnfold
<1>. HIDE DEF R
<1>5. /\ f \in [0..n -> R] /\ f[0] = <<>> /\ Merged(d) = f[n]
      /\ \A k \in 1..n : f[k] = MergeDraft(f[k - 1], d[k])
  BY <1>4 DEF MergesRun
<1>. DEFINE A == {k \in 0..n : MergedUpto(s, us, d, f[k], k)}
<1>6. 0 \in A
  <2>1. MergedUpto(s, us, d, <<>>, 0)
    BY EmptySeq DEF MergedUpto
  <2>. QED
    BY <1>1, <1>5, <2>1
<1>7. ASSUME NEW k \in 0..n, k < n, k \in A PROVE k + 1 \in A
  <2>1. k \in Nat /\ k + 1 \in 1..n /\ k + 1 \in 0..n /\ (k + 1) - 1 = k
    BY <1>1, <1>7
  <2>2. MergedUpto(s, us, d, MergeDraft(f[k], d[k + 1]), k + 1)
    BY <1>7, <2>1, MergesGrow
  <2>3. f[k + 1] = MergeDraft(f[k], d[k + 1])
    BY <1>5, <2>1
  <2>. QED
    BY <2>1, <2>2, <2>3
<1>. HIDE DEF n
<1>8. n \in A
  <2>. HIDE DEF A
  <2>1. \A k \in 0..n : k \in A
    BY <1>1, <1>6, <1>7, Climb
  <2>. QED
    BY <1>1, <2>1
<1>. DEFINE g == Merged(d)
<1>9. MergedUpto(s, us, d, g, n)
  BY <1>5, <1>8
<1>. HIDE DEF g, A
<1>10. g = <<>> <=> s = <<>>
  BY <1>1, <1>9 DEF MergedUpto, IsDrafts
<1>11. g # <<>> => n > 0 /\ Chain(g, 0, s[Len(s)].end)
  <2>1. n > 0 => d[n].end = s[Len(s)].end
    BY <1>1, DraftFacts DEF n
  <2>. QED
    BY <1>1, <1>9, <2>1 DEF MergedUpto
<1>12. ASSUME NEW u \in Range(us), Atomic(u), u.end - u.start <= AtomicMax PROVE Covered(g, u)
  <2>1. us \in Seq(UnitRecs) /\ Len(us) \in Nat
    BY UnitFacts
  <2>2. u.start \in Nat /\ u.end \in Nat
    <3>1. PICK i \in 1..Len(us) : u = us[i]
      BY <2>1, RangeEquality
    <3>. QED
      BY <3>1, UnitFacts
  <2>3. Covered(d, u)
    BY <1>12 DEF IsDrafts, UnitsWhole
  <2>4. d # <<>> /\ g # <<>>
    <3>1. d # <<>>
      BY <1>1, <2>3 DEF Covered, n
    <3>. QED
      BY <1>10, <3>1 DEF IsDrafts
  <2>5. Chain(d, 0, s[Len(s)].end) /\ Chain(g, 0, s[Len(s)].end) /\ d \in Seq(GoodDrafts(s, us))
    BY <1>11, <2>4 DEF IsDrafts
  <2>6. \A m \in 1..Len(d) : Covered(g, d[m])
    BY <1>9 DEF MergedUpto, n
  <2>. QED
    BY <2>2, <2>3, <2>5, <2>6, CoverJoins
<1>13. UnitsWhole(us, g)
  BY <1>12 DEF UnitsWhole
<1>14. g \in Seq(GoodDrafts(s, us))
  BY <1>9 DEF MergedUpto
<1>15. IsDrafts(s, us, g)
  BY <1>10, <1>11, <1>13, <1>14 DEF IsDrafts
<1>. QED
  BY <1>15 DEF g

-----------------------------------------------------------------------------
(* Halved until there are few enough                                       *)

\* Fit pieces of the whole page that cover what d covered.
Tiles(s, d, g) ==
  /\ g \in Seq(FitDrafts(s)) /\ g # <<>> /\ Chain(g, 0, s[Len(s)].end)
  /\ \A b : b.start \in Nat /\ b.end \in Nat /\ Covered(d, b) => Covered(g, b)

LEMMA HalvedTiles ==
  ASSUME NEW s, IsScan(s), NEW d, Tiles(s, d, d)
  PROVE  Tiles(s, d, Halved(d)) /\ Len(Halved(d)) = (Len(d) + 1) \div 2
<1>. DEFINE n == Len(d)
            h == (n + 1) \div 2
            end == s[Len(s)].end
            Pair(k) == LET a == d[2 * k - 1] IN
                       IF 2 * k > n THEN a
                       ELSE LET b == d[2 * k] IN
                            [path |-> CommonPrefix(a.path, b.path), start |-> a.start, end |-> b.end,
                             forced |-> a.forced \/ b.forced]
            g == [k \in 1..h |-> Pair(k)]
<1>1. d \in Seq(FitDrafts(s)) /\ n \in Nat \ {0} /\ Chain(d, 0, end)
  BY EmptySeq DEF Tiles
<1>2. /\ \A k \in 1..n : /\ d[k] \in FitDrafts(s) /\ d[k] \in DraftRecs
                         /\ d[k].start \in Nat /\ d[k].end \in Nat /\ d[k].start < d[k].end
      /\ \A k \in 1..n - 1 : d[k].end = d[k + 1].start
      /\ d[1].start = 0 /\ d[n].end = end
  <2>1. \A k \in 1..n : d[k] \in FitDrafts(s)
    BY <1>1, ElementOfSeq
  <2>. QED
    BY <1>1, <2>1 DEF Chain, FitDrafts
<1>3. Halved(d) = g
  BY DEF Halved
<1>4. h \in Nat \ {0} /\ 2 * h - 1 <= n /\ n <= 2 * h
  <2>. HIDE DEF n
  <2>. QED
    BY <1>1
<1>. HIDE DEF n, h, end
<1>5. ASSUME NEW k \in 1..h
      PROVE  /\ Pair(k) \in FitDrafts(s) /\ 2 * k - 1 \in 1..n
             /\ Pair(k).start = d[2 * k - 1].start
             /\ 2 * k > n => k = h /\ n = 2 * k - 1 /\ Pair(k).end = d[2 * k - 1].end
             /\ 2 * k <= n => /\ 2 * k \in 1..n /\ Pair(k).end = d[2 * k].end
                              /\ d[2 * k - 1].end = d[2 * k].start
             /\ Pair(k).start \in Nat /\ Pair(k).end \in Nat /\ Pair(k).start < Pair(k).end
  <2>. DEFINE i == 2 * k - 1
              a == d[i]
  <2>1. i \in 1..n /\ (2 * k > n => k = h /\ n = 2 * k - 1)
        /\ (2 * k <= n => 2 * k \in 1..n /\ i \in 1..n - 1 /\ i + 1 = 2 * k)
    BY <1>1, <1>4
  <2>2. a \in FitDrafts(s) /\ a \in DraftRecs /\ a.start \in Nat /\ a.end \in Nat /\ a.start < a.end
    <3>. HIDE DEF i
    <3>. QED
      BY <1>2, <2>1
  <2>3. CASE 2 * k > n
    <3>1. Pair(k) = a
      BY <2>3
    <3>2. ~(2 * k <= n)
      BY <1>1, <2>3
    <3>. HIDE DEF Pair
    <3>. QED
      BY <2>1, <2>2, <2>3, <3>1, <3>2
  <2>4. CASE ~(2 * k > n)
    <3>. DEFINE b == d[2 * k]
                e == [path |-> CommonPrefix(a.path, b.path), start |-> a.start, end |-> b.end,
                      forced |-> a.forced \/ b.forced]
    <3>1. 2 * k <= n /\ 2 * k \in 1..n /\ i \in 1..n - 1 /\ i + 1 = 2 * k
      BY <1>1, <2>1, <2>4
    <3>2. b \in FitDrafts(s) /\ b \in DraftRecs /\ b.start \in Nat /\ b.end \in Nat /\ b.start < b.end
      BY <1>2, <3>1
    <3>3. a.end = b.start
      <4>. HIDE DEF i
      <4>. QED
        BY <1>2, <3>1
    <3>4. Pair(k) = e
      BY <2>4
    <3>. HIDE DEF a, b, Pair
    <3>5. a.path \in Paths /\ b.path \in Paths /\ a.forced \in BOOLEAN /\ b.forced \in BOOLEAN
      BY <2>2, <3>2 DEF DraftRecs
    <3>6. CommonPrefix(a.path, b.path) \in Paths
      BY <3>5, CommonIs DEF Paths
    <3>7. e \in DraftRecs /\ e.start = a.start /\ e.end = b.end /\ e.path = CommonPrefix(a.path, b.path)
      BY <2>2, <3>2, <3>5, <3>6 DEF DraftRecs
    <3>. HIDE DEF e
    <3>8. e \in FitDrafts(s)
      BY <2>2, <3>2, <3>3, <3>7, JoinedFits DEF FitDrafts
    <3>9. e.start < e.end
      BY <2>2, <3>2, <3>3, <3>7
    <3>. QED
      BY <2>1, <2>2, <2>4, <3>1, <3>2, <3>3, <3>4, <3>7, <3>8, <3>9 DEF a, b
  <2>. QED
    BY <2>3, <2>4
<1>6. \A k \in 1..h : g[k] = Pair(k)
  OBVIOUS
<1>7. g \in Seq(FitDrafts(s)) /\ Len(g) = h /\ g # <<>>
  <2>1. g \in [1..h -> FitDrafts(s)]
    BY <1>5
  <2>. HIDE DEF g
  <2>. QED
    BY <1>4, <2>1, ListIs
<1>. HIDE DEF g, Pair
<1>8. g[1].start = 0 /\ g[h].end = end
  <2>1. 1 \in 1..h /\ h \in 1..h /\ 2 * 1 - 1 = 1
    BY <1>4
  <2>2. g[1].start = 0
    BY <1>2, <1>5, <1>6, <2>1
  <2>3. CASE 2 * h > n
    <3>1. n = 2 * h - 1 /\ Pair(h).end = d[2 * h - 1].end
      BY <1>5, <2>1, <2>3
    <3>. QED
      BY <1>2, <1>6, <2>1, <2>2, <3>1
  <2>4. CASE ~(2 * h > n)
    <3>1. 2 * h <= n /\ n = 2 * h
      BY <1>1, <1>4, <2>4
    <3>2. Pair(h).end = d[2 * h].end
      BY <1>5, <2>1, <3>1
    <3>. QED
      BY <1>2, <1>6, <2>1, <2>2, <3>1, <3>2
  <2>. QED
    BY <2>3, <2>4
<1>9. ASSUME NEW k \in 1..h - 1 PROVE g[k].end = g[k + 1].start
  <2>1. /\ k \in 1..h /\ k + 1 \in 1..h /\ 2 * k <= n /\ 2 * k \in 1..n - 1
        /\ 2 * (k + 1) - 1 = 2 * k + 1
    BY <1>1, <1>4
  <2>2. Pair(k).end = d[2 * k].end
    BY <1>5, <2>1
  <2>3. Pair(k + 1).start = d[2 * k + 1].start
    BY <1>5, <2>1
  <2>4. d[2 * k].end = d[2 * k + 1].start
    BY <1>2, <2>1
  <2>. QED
    BY <1>6, <2>1, <2>2, <2>3, <2>4
<1>10. Chain(g, 0, end)
  BY <1>5, <1>6, <1>7, <1>8, <1>9 DEF Chain
<1>11. ASSUME NEW m \in 1..n PROVE Covered(g, d[m])
  <2>. DEFINE k == (m + 1) \div 2
  <2>1. k \in 1..h /\ (m = 2 * k - 1 \/ m = 2 * k)
    BY <1>1, <1>4
  <2>. HIDE DEF k
  <2>2. g[k] = Pair(k)
    BY <1>6, <2>1
  <2>3. CASE m = 2 * k - 1
    <3>1. Pair(k).start = d[m].start
      BY <1>5, <2>1, <2>3
    <3>2. d[m].end <= Pair(k).end
      <4>1. CASE 2 * k > n
        BY <1>2, <1>5, <2>1, <2>3, <4>1
      <4>2. CASE ~(2 * k > n)
        <5>1. 2 * k <= n
          BY <1>1, <2>1, <4>2
        <5>2. 2 * k \in 1..n /\ Pair(k).end = d[2 * k].end /\ d[m].end = d[2 * k].start
          BY <1>5, <2>1, <2>3, <5>1
        <5>3. d[2 * k].start \in Nat /\ d[2 * k].end \in Nat /\ d[2 * k].start < d[2 * k].end
          BY <1>2, <5>2
        <5>. QED
          BY <5>2, <5>3
      <4>. QED
        BY <4>1, <4>2
    <3>3. d[m].start <= d[m].start
      BY <1>2
    <3>. QED
      BY <1>7, <2>1, <2>2, <3>1, <3>2, <3>3 DEF Covered
  <2>4. CASE m = 2 * k
    <3>1. 2 * k <= n
      BY <1>1, <2>4
    <3>2. Pair(k).end = d[m].end /\ d[2 * k - 1].end = d[m].start /\ Pair(k).start = d[2 * k - 1].start
          /\ 2 * k - 1 \in 1..n
      BY <1>5, <2>1, <2>4, <3>1
    <3>3. Pair(k).start <= d[m].start /\ d[m].end <= Pair(k).end
      <4>. DEFINE a == d[2 * k - 1]
                  b == d[m]
      <4>1. /\ a.start \in Nat /\ a.end \in Nat /\ a.start < a.end /\ b.end \in Nat
            /\ Pair(k).end = b.end /\ a.end = b.start /\ Pair(k).start = a.start
        BY <1>2, <3>2
      <4>. HIDE DEF a, b
      <4>2. Pair(k).start <= b.start /\ b.end <= Pair(k).end
        BY <4>1
      <4>. QED
        BY <4>2 DEF b
    <3>. QED
      BY <1>7, <2>1, <2>2, <3>3 DEF Covered
  <2>. QED
    BY <2>1, <2>3, <2>4
<1>12. \A b : b.start \in Nat /\ b.end \in Nat /\ Covered(d, b) => Covered(g, b)
  BY <1>1, <1>10, <1>11, CoverJoins DEF n
<1>13. Tiles(s, d, g)
  BY <1>7, <1>10, <1>12 DEF Tiles, end
<1>. QED
  BY <1>3, <1>7, <1>13 DEF n, h

LEMMA TilesJoin ==
  ASSUME NEW s, NEW c, NEW d, NEW g, Tiles(s, c, d), Tiles(s, d, g)
  PROVE  Tiles(s, c, g) /\ Tiles(s, d, d)
<1>1. Tiles(s, c, g)
  BY DEF Tiles
<1>2. Tiles(s, d, d)
  BY DEF Tiles
<1>. QED
  BY <1>1, <1>2

\* The chunks are fit, at most MaxChunks, and the drafts where those were.
LEMMA CappedTiles ==
  ASSUME NEW s, IsScan(s), NEW d, Tiles(s, d, d)
  PROVE  /\ Tiles(s, d, Capped(d)) /\ Len(Capped(d)) <= MaxChunks
         /\ Len(d) <= MaxChunks => Capped(d) = d
<1>. DEFINE n == Len(d)
            R == {g \in Seq(FitDrafts(s)) : Tiles(s, d, g)}
<1>1. n \in Nat \ {0} /\ MaxChunks \in Nat \ {0}
  BY ChunkAssumption, EmptySeq DEF Tiles
<1>2. d \in R
  BY DEF Tiles
<1>3. ASSUME NEW x \in R
      PROVE  /\ Cap(x) \in R /\ Len(x) \in Nat \ {0}
             /\ Len(x) <= MaxChunks => Cap(x) = x
             /\ Len(x) > MaxChunks => Len(Cap(x)) < Len(x)
  <2>1. Tiles(s, d, x) /\ Tiles(s, x, x) /\ Len(x) \in Nat \ {0}
    BY EmptySeq DEF Tiles
  <2>2. Tiles(s, x, Halved(x)) /\ Len(Halved(x)) = (Len(x) + 1) \div 2
    BY <2>1, HalvedTiles
  <2>3. Tiles(s, d, Halved(x))
    BY <2>1, <2>2, TilesJoin
  <2>4. Halved(x) \in R
    BY <2>3 DEF Tiles
  <2>5. CASE Len(x) > MaxChunks
    <3>1. Cap(x) = Halved(x)
      BY <2>5 DEF Cap
    <3>2. (Len(x) + 1) \div 2 < Len(x)
      <4>. DEFINE l == Len(x)
      <4>1. l \in Nat /\ l > 1
        BY <1>1, <2>1, <2>5
      <4>. HIDE DEF l
      <4>2. (l + 1) \div 2 < l
        BY <4>1
      <4>. QED
        BY <4>2 DEF l
    <3>3. ~(Len(x) <= MaxChunks)
      BY <1>1, <2>1, <2>5
    <3>. QED
      BY <2>1, <2>2, <2>4, <3>1, <3>2, <3>3
  <2>6. CASE ~(Len(x) > MaxChunks)
    BY <2>1, <2>6 DEF Cap
  <2>. QED
    BY <2>5, <2>6
<1>4. PICK f : CapsRun(d, n, R, f)
  <2>. HIDE DEF n, R
  <2>1. n = Len(d)
    BY DEF n
  <2>. QED
    BY <1>1, <1>2, <1>3, <2>1, CapsUnfold
<1>. HIDE DEF R
<1>5. /\ f \in [0..n -> R] /\ f[0] = d /\ Capped(d) = f[n]
      /\ \A k \in 1..n : f[k] = Cap(f[k - 1])
  BY <1>4 DEF CapsRun
<1>. DEFINE A == {k \in 0..n : /\ Len(f[k]) <= MaxChunks \/ Len(f[k]) <= n - k
                               /\ n <= MaxChunks => f[k] = d}
<1>6. 0 \in A
  BY <1>1, <1>5
<1>7. ASSUME NEW k \in 0..n, k < n, k \in A PROVE k + 1 \in A
  <2>. DEFINE a == f[k]
  <2>1. k \in Nat /\ k + 1 \in 1..n /\ k + 1 \in 0..n /\ (k + 1) - 1 = k /\ a \in R
    BY <1>1, <1>5, <1>7
  <2>2. f[k + 1] = Cap(a)
    BY <1>5, <2>1
  <2>3. /\ Len(a) <= MaxChunks \/ Len(a) <= n - k
        /\ n <= MaxChunks => a = d
    BY <1>7
  <2>. HIDE DEF a
  <2>4. /\ Cap(a) \in R /\ Len(a) \in Nat \ {0}
        /\ Len(a) <= MaxChunks => Cap(a) = a
        /\ Len(a) > MaxChunks => Len(Cap(a)) < Len(a)
    BY <1>3, <2>1
  <2>5. Len(Cap(a)) \in Nat
    BY <1>3, <2>4
  <2>6. n <= MaxChunks => Cap(a) = d
    <3>1. ASSUME n <= MaxChunks PROVE Cap(a) = d
      BY <2>3, <2>4, <3>1 DEF n
    <3>. QED
      BY <3>1
  <2>7. Len(Cap(a)) <= MaxChunks \/ Len(Cap(a)) <= n - (k + 1)
    <3>1. CASE Len(a) <= MaxChunks
      BY <2>4, <3>1
    <3>2. CASE ~(Len(a) <= MaxChunks)
      <4>1. Len(a) > MaxChunks
        BY <1>1, <2>4, <3>2
      <4>. DEFINE l == Len(a)
                  m == Len(Cap(a))
      <4>2. l \in Nat /\ m \in Nat /\ m < l /\ l <= n - k
        BY <2>3, <2>4, <2>5, <3>2, <4>1
      <4>. HIDE DEF l, m, n
      <4>3. m <= n - (k + 1)
        BY <1>1, <2>1, <4>2
      <4>. QED
        BY <4>3 DEF m
    <3>. QED
      BY <3>1, <3>2
  <2>. HIDE DEF n
  <2>. QED
    BY <2>1, <2>2, <2>6, <2>7
<1>. HIDE DEF n
<1>8. n \in A
  <2>. HIDE DEF A
  <2>1. \A k \in 0..n : k \in A
    BY <1>1, <1>6, <1>7, Climb
  <2>. QED
    BY <1>1, <2>1
<1>. DEFINE g == f[n]
<1>9. g \in R /\ (Len(g) <= MaxChunks \/ Len(g) <= n - n) /\ (n <= MaxChunks => g = d)
  BY <1>1, <1>5, <1>8
<1>. HIDE DEF g, A
<1>10. Len(g) \in Nat
  BY <1>3, <1>9
<1>11. Len(g) <= MaxChunks
  BY <1>1, <1>9, <1>10
<1>12. Tiles(s, d, g)
  BY <1>9 DEF R
<1>. QED
  BY <1>5, <1>9, <1>11, <1>12 DEF g, n

-----------------------------------------------------------------------------
(* The chunks of a page                                                    *)

LEMMA NormalizedTyped ==
  ASSUME NEW written \in Seq(Lines)
  PROVE  Normalized(written) \in Seq(Lines)
<1>. DEFINE n == Len(written)
            solid == {i \in 1..n : written[i].kind # "blank"}
            lo == CHOOSE i \in solid : \A j \in solid : i <= j
            hi == CHOOSE i \in solid : \A j \in solid : i >= j
<1>1. n \in Nat /\ \A i \in 1..n : written[i] \in Lines
  BY LenProperties, ElementOfSeq
<1>2. solid \in SUBSET Nat /\ \A i \in solid : i \in 1..n /\ i <= n
  BY <1>1
<1>3. CASE solid = {}
  <2>1. Normalized(written) = <<>>
    BY <1>3 DEF Normalized
  <2>. QED
    BY <2>1, EmptySeq
<1>4. CASE solid # {}
  <2>. HIDE DEF solid, n
  <2>1. lo \in solid
    <3>1. Min(solid) \in solid /\ \A j \in solid : Min(solid) <= j
      BY <1>2, <1>4, Least
    <3>. QED
      BY <3>1
  <2>2. hi \in solid
    <3>1. Max(solid) \in solid /\ \A j \in solid : j <= Max(solid)
      BY <1>1, <1>2, <1>4, Greatest
    <3>2. Max(solid) \in Nat /\ \A j \in solid : j \in Nat
      BY <1>2, <3>1
    <3>3. \A j \in solid : Max(solid) >= j
      BY <3>1, <3>2
    <3>. QED
      BY <3>1, <3>3
  <2>3. Normalized(written) = SubSeq(written, lo, hi)
    BY <1>4 DEF Normalized, solid, n
  <2>. HIDE DEF lo, hi
  <2>4. lo \in 1..n /\ hi \in 1..n
    BY <1>2, <2>1, <2>2
  <2>5. \A i \in lo..hi : written[i] \in Lines
    BY <1>1, <2>4
  <2>6. SubSeq(written, lo, hi) \in Seq(Lines)
    BY <1>1, <2>4, <2>5, SubSeqProperties
  <2>. QED
    BY <2>3, <2>6
<1>. QED
  BY <1>3, <1>4

LEMMA CappedEmpty == Capped(<<>>) = <<>>
<1>1. <<>> \in {<<>>} /\ \A x \in {<<>>}, k \in 1..0 : Cap(x) \in {<<>>}
  OBVIOUS
<1>2. Len(<<>>) = 0 /\ 0 \in Nat
  BY EmptySeq
<1>3. PICK f : CapsRun(<<>>, 0, {<<>>}, f)
  BY <1>1, <1>2, CapsUnfold
<1>. QED
  BY <1>3 DEF CapsRun

\* The chunks of a scan.
LEMMA ChunksAre ==
  ASSUME NEW s, IsScan(s), NEW us, us = split_sections(s), NEW j, j = Joined(s, us),
         NEW c, c = Capped(j)
  PROVE  /\ IsUnits(s, us) /\ IsDrafts(s, us, j)
         /\ s = <<>> => us = <<>> /\ c = <<>>
         /\ s # <<>> => Tiles(s, j, c)
         /\ Len(c) <= MaxChunks /\ (Len(j) <= MaxChunks => c = j)
<1>1. IsUnits(s, us)
  BY UnitsAre
<1>2. IsDrafts(s, us, j)
  <2>1. IsPacks(s, us, Packs(us))
    BY <1>1, PacksAre
  <2>2. IsDrafts(s, us, Drafts(s, Packs(us)))
    BY <1>1, <2>1, DraftsAre
  <2>. QED
    BY <1>1, <2>2, MergedAre DEF Joined
<1>3. CASE s = <<>>
  <2>1. us = <<>> /\ j = <<>>
    BY <1>1, <1>2, <1>3 DEF IsUnits, IsDrafts
  <2>2. c = <<>> /\ Len(c) = 0
    BY <2>1, CappedEmpty, EmptySeq
  <2>3. Len(c) <= MaxChunks
    BY <2>2, ChunkAssumption
  <2>. QED
    BY <1>1, <1>2, <1>3, <2>1, <2>2, <2>3
<1>4. CASE s # <<>>
  <2>1. j \in Seq(GoodDrafts(s, us)) /\ j # <<>> /\ Chain(j, 0, s[Len(s)].end)
    BY <1>2, <1>4 DEF IsDrafts
  <2>2. GoodDrafts(s, us) \subseteq FitDrafts(s)
    BY DEF GoodDrafts, FitDrafts
  <2>3. j \in Seq(FitDrafts(s))
    BY <2>1, <2>2
  <2>4. Tiles(s, j, j)
    BY <2>1, <2>3 DEF Tiles
  <2>. QED
    BY <1>1, <1>2, <1>4, <2>4, CappedTiles
<1>. QED
  BY <1>3, <1>4

ChunkInv ==
  /\ page \in Seq(Lines) /\ IsScan(lines)
  /\ units = split_sections(lines) /\ chunks = Capped(Joined(lines, units))

LEMMA ChunkInvIsInductive ==
  /\ ChunkInit => ChunkInv
  /\ ChunkInv /\ [WriteLine]_chunkVars => ChunkInv'
<1>1. ASSUME ChunkInit PROVE ChunkInv
  <2>1. page = <<>> /\ lines = <<>> /\ units = <<>> /\ chunks = <<>>
    BY <1>1 DEF ChunkInit
  <2>2. page \in Seq(Lines)
    BY <2>1, EmptySeq
  <2>3. IsScan(<<>>)
    BY EmptySeq DEF IsScan
  <2>4. split_sections(<<>>) = <<>>
    BY <2>3, UnitsAre DEF IsUnits
  <2>5. Capped(Joined(<<>>, <<>>)) = <<>>
    BY <2>3, <2>4, ChunksAre
  <2>. QED
    BY <2>1, <2>2, <2>3, <2>4, <2>5 DEF ChunkInv
<1>2. ASSUME ChunkInv, WriteLine PROVE ChunkInv'
  <2>1. PICK line \in Lines : page' = Append(page, line)
    BY <1>2 DEF WriteLine
  <2>2. page' \in Seq(Lines)
    BY <1>2, <2>1, AppendProperties DEF ChunkInv
  <2>3. IsScan(lines')
    BY <1>2, <2>2, NormalizedTyped, ScanIs DEF WriteLine
  <2>4. units' = split_sections(lines') /\ chunks' = Capped(Joined(lines', units'))
    BY <1>2 DEF WriteLine
  <2>. QED
    BY <2>2, <2>3, <2>4 DEF ChunkInv
<1>3. ASSUME ChunkInv, UNCHANGED chunkVars PROVE ChunkInv'
  BY <1>3 DEF ChunkInv, chunkVars
<1>. QED
  BY <1>1, <1>2, <1>3

LEMMA ChunkInvIsSound == ChunkInv => ChunkingIsSound
<1>. DEFINE j == Joined(lines, units)
<1>1. SUFFICES ASSUME ChunkInv PROVE ChunkingIsSound
  OBVIOUS
<1>2. /\ IsUnits(lines, units) /\ IsDrafts(lines, units, j)
      /\ lines = <<>> => units = <<>> /\ chunks = <<>>
      /\ lines # <<>> => Tiles(lines, j, chunks)
      /\ Len(chunks) <= MaxChunks /\ (Len(j) <= MaxChunks => chunks = j)
  BY <1>1, ChunksAre DEF ChunkInv
<1>3. Joinable => chunks = j
  BY <1>2 DEF Joinable
<1>. HIDE DEF j
<1>4. ASSUME NEW k \in 1..Len(chunks)
      PROVE  /\ lines # <<>> /\ Fit(lines, chunks[k])
             /\ chunks = j => Snug(lines, units, chunks[k])
             /\ LinesOf(k) = Within(lines, chunks[k])
  <2>1. lines # <<>>
    BY <1>2, EmptySeq
  <2>2. chunks[k] \in FitDrafts(lines)
    BY <1>2, <2>1, ElementOfSeq DEF Tiles
  <2>3. ASSUME chunks = j PROVE Snug(lines, units, chunks[k])
    <3>1. chunks[k] \in GoodDrafts(lines, units)
      BY <1>2, <2>3, ElementOfSeq DEF IsDrafts
    <3>. QED
      BY <3>1 DEF GoodDrafts
  <2>. QED
    BY <2>1, <2>2, <2>3 DEF FitDrafts, LinesOf, Within
<1>5. ChunksTile
  <2>. SUFFICES ASSUME lines # <<>>
                PROVE  /\ chunks # <<>> /\ chunks[1].start = 0 /\ Last(chunks).end = Last(lines).end
                       /\ \A k \in 1..Len(chunks) - 1 : chunks[k].end = chunks[k + 1].start
                       /\ \A k \in 1..Len(chunks) : chunks[k].start < chunks[k].end
                       /\ \A k \in 1..Len(chunks), i \in 1..Len(lines) :
                            chunks[k].start \in lines[i].start..lines[i].end - 1
                              => (chunks[k].start - lines[i].start) % lines[i].width = 0
    BY DEF ChunksTile
  <2>1. Chain(chunks, 0, lines[Len(lines)].end)
    BY <1>2 DEF Tiles
  <2>2. \A k \in 1..Len(chunks), i \in 1..Len(lines) :
          chunks[k].start \in lines[i].start..lines[i].end - 1
            => (chunks[k].start - lines[i].start) % lines[i].width = 0
    BY <1>4 DEF Fit, Clean
  <2>3. Last(chunks).end = Last(lines).end
    BY <2>1 DEF Chain, Last
  <2>. QED
    BY <2>1, <2>2, <2>3 DEF Chain
<1>6. ChunksAreBounded
  <2>1. ASSUME Joinable, NEW k \in 1..Len(chunks)
        PROVE  /\ chunks[k].end - chunks[k].start <= AtomicMax
               /\ \/ chunks[k].end - chunks[k].start <= HardMax
                  \/ \E u \in Range(units) :
                       Atomic(u) /\ u.start < chunks[k].end /\ chunks[k].start < u.end
    BY <1>3, <1>4, <2>1 DEF Snug
  <2>. QED
    BY <1>2, <2>1 DEF ChunksAreBounded
<1>7. AtomicUnitsStayWhole
  <2>1. ASSUME NEW u \in Range(units), Atomic(u), u.end - u.start <= AtomicMax PROVE Covered(chunks, u)
    <3>1. units \in Seq(UnitRecs) /\ Len(units) \in Nat
      BY <1>2, UnitFacts
    <3>2. PICK i \in 1..Len(units) : u = units[i]
      BY <3>1, RangeEquality
    <3>3. u.start \in Nat /\ u.end \in Nat
      BY <1>2, <3>2, UnitFacts
    <3>4. lines # <<>>
      <4>1. units # <<>>
        BY <3>1, <3>2, EmptySeq
      <4>. QED
        BY <1>2, <4>1
    <3>5. Covered(j, u)
      BY <1>2, <2>1 DEF IsDrafts, UnitsWhole
    <3>. QED
      BY <1>2, <3>3, <3>4, <3>5 DEF Tiles
  <2>. QED
    BY <2>1 DEF AtomicUnitsStayWhole, Covered
<1>8. PathsCoverTheirLines
  <2>1. ASSUME NEW k \in 1..Len(chunks), NEW i \in LinesOf(k)
        PROVE  /\ IsPrefix(chunks[k].path, lines[i].path)
               /\ Joinable /\ lines[i].path # <<>> => chunks[k].path # <<>>
    BY <1>3, <1>4, <2>1 DEF Fit, Snug
  <2>. QED
    BY <2>1 DEF PathsCoverTheirLines
<1>. QED
  BY <1>5, <1>6, <1>7, <1>8 DEF ChunkingIsSound

\* The chunks of every page tile it, in bounded pieces cut between characters,
\* with the fences and tables of bearable size whole and each under a path that
\* is above all its lines: wiki/chunk.rs, chunk_markdown.
THEOREM SoundChunks == RequestsSpec => []ChunkingIsSound
<1>1. RequestsInit => ChunkInit
  BY DEF RequestsInit
<1>2. [RequestsNext]_<<accessVars, others, focus>> => [WriteLine]_chunkVars
  BY DEF RequestsNext, others
<1>3. ChunkInit => ChunkInv
  BY ChunkInvIsInductive
<1>4. ChunkInv /\ [WriteLine]_chunkVars => ChunkInv'
  BY ChunkInvIsInductive
<1>5. ChunkInv => ChunkingIsSound
  BY ChunkInvIsSound
<1>. QED
  BY <1>1, <1>2, <1>3, <1>4, <1>5, PTL DEF RequestsSpec
=============================================================================
