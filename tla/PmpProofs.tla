----------------------------- MODULE PmpProofs -----------------------------
(***************************************************************************)
(* Proofs about physical memory protection, for any number of entries, any *)
(* address space, any configurations and any programs: the registers hold  *)
(* legal values, locked entries stay, and what is mapped lazily is at      *)
(* every moment within what the registers give.                            *)
(*                                                                         *)
(* Induction is by least counterexample (LeastNat): the recursive          *)
(* functions pow2 and mapAt are shown to exist and to meet their           *)
(* definitions that way.                                                   *)
(***************************************************************************)
EXTENDS PmpProperties, FiniteSetTheorems, WellFoundedInduction, TLAPS

-----------------------------------------------------------------------------
(* Numbers.                                                                *)

\* Every non-empty set of natural numbers has a least element.
LEMMA LeastNat ==
  ASSUME NEW T, T \subseteq Nat, T # {}
  PROVE  \E x \in T : \A y \in T : x <= y
<1> DEFINE R == OpToRel(<, Nat)
<1>1. PICK x \in T : \A y \in T : ~(<<y, x>> \in R)
  BY NatLessThanWellFounded, WFMin, Zenon
<1>2. \A y \in T : <<y, x>> \in R <=> y < x
  BY DEF OpToRel
<1> HIDE DEF R
<1>3. \A y \in T : ~(y < x)
  BY <1>1, <1>2, Zenon
<1> QED
  BY <1>1, <1>3

\* The equation of pow2 on the numbers up to k.
PowUpTo(g, k) ==
  /\ g \in [0..k -> Nat]
  /\ g[0] = 1
  /\ \A n \in 1..k : g[n] = 2 * g[n - 1]

\* Powers of two up to k exist.
LEMMA PowUpToExists ==
  \A k \in Nat : \E g : PowUpTo(g, k)
<1> DEFINE T == {k \in Nat : ~\E g : PowUpTo(g, k)}
<1> SUFFICES ASSUME T # {} PROVE FALSE
  OBVIOUS
<1>1. PICK k \in T : \A j \in T : k <= j
  BY LeastNat
<1>2. k # 0
  <2>1. PowUpTo([n \in 0..0 |-> 1], 0)
    BY DEF PowUpTo
  <2> QED
    BY <1>1, <2>1
<1>3. k \in Nat /\ k - 1 \in Nat /\ k - 1 \notin T
  BY <1>1, <1>2
<1>4. PICK g : PowUpTo(g, k - 1)
  BY <1>3
<1> DEFINE h == [n \in 0..k |-> IF n = k THEN 2 * g[k - 1] ELSE g[n]]
<1>5. PowUpTo(h, k)
  BY <1>3, <1>4, <1>2 DEF PowUpTo
<1> QED
  BY <1>1, <1>5

\* ... and are unique.
LEMMA PowUpToUnique ==
  ASSUME NEW k \in Nat, NEW l \in Nat, NEW g, NEW h, PowUpTo(g, k), PowUpTo(h, l)
  PROVE  \A n \in Nat : n <= k /\ n <= l => g[n] = h[n]
<1> DEFINE T == {n \in Nat : n <= k /\ n <= l /\ g[n] # h[n]}
<1> SUFFICES ASSUME T # {} PROVE FALSE
  OBVIOUS
<1>1. PICK n \in T : \A j \in T : n <= j
  BY LeastNat
<1>2. n # 0
  BY <1>1 DEF PowUpTo
<1>3. n - 1 \in Nat /\ n - 1 \notin T /\ n \in 1..k /\ n \in 1..l
  BY <1>1, <1>2
<1>4. g[n - 1] = h[n - 1]
  BY <1>3
<1> QED
  BY <1>1, <1>3, <1>4 DEF PowUpTo

PowEq(f) == f = [n \in Nat |-> IF n = 0 THEN 1 ELSE 2 * f[n - 1]]

\* pow2 satisfies its definition and is positive.
LEMMA Pow2 ==
  /\ pow2[0] = 1
  /\ \A n \in Nat : pow2[n] \in Nat \ {0} /\ pow2[n + 1] = 2 * pow2[n]
<1> DEFINE f == [n \in Nat |-> (CHOOSE g : PowUpTo(g, n))[n]]
<1>1. \A n \in Nat : PowUpTo(CHOOSE g : PowUpTo(g, n), n)
  BY PowUpToExists, Zenon
<1>2. ASSUME NEW n \in Nat PROVE f[n] \in Nat
  <2>1. PICK g : g = CHOOSE x : PowUpTo(x, n)
    OBVIOUS
  <2>2. PowUpTo(g, n)
    BY <1>1, <2>1
  <2>3. f[n] = g[n]
    BY <2>1
  <2> QED
    BY <2>2, <2>3 DEF PowUpTo
<1>3. f[0] = 1
  BY <1>1 DEF PowUpTo
<1>4. ASSUME NEW n \in Nat \ {0} PROVE f[n] = 2 * f[n - 1]
  <2>1. PICK g : g = CHOOSE x : PowUpTo(x, n)
    OBVIOUS
  <2>2. PICK h : h = CHOOSE x : PowUpTo(x, n - 1)
    OBVIOUS
  <2>3. PowUpTo(g, n) /\ PowUpTo(h, n - 1) /\ n - 1 \in Nat /\ n \in 1..n
    BY <1>1, <2>1, <2>2
  <2>4. g[n - 1] = h[n - 1]
    BY <2>3, PowUpToUnique
  <2>5. f[n] = g[n] /\ f[n - 1] = h[n - 1]
    BY <2>1, <2>2, <2>3
  <2> QED
    BY <2>3, <2>4, <2>5 DEF PowUpTo
<1> HIDE DEF f
<1>5. PowEq(f)
  <2>1. f = [n \in Nat |-> f[n]]
    BY DEF f
  <2>2. \A n \in Nat : f[n] = IF n = 0 THEN 1 ELSE 2 * f[n - 1]
    BY <1>3, <1>4
  <2> QED
    BY <2>1, <2>2 DEF PowEq
<1>6. PowEq(pow2)
  <2>1. pow2 = CHOOSE g : PowEq(g)
    BY Zenon DEF pow2, PowEq
  <2> QED
    BY <1>5, <2>1, Zenon
<1>7. pow2[0] = 1 /\ \A n \in Nat \ {0} : pow2[n] = 2 * pow2[n - 1]
  BY <1>6 DEF PowEq
<1> DEFINE T == {n \in Nat : pow2[n] \notin Nat \ {0}}
<1>8. T = {}
  <2> SUFFICES ASSUME T # {} PROVE FALSE
    OBVIOUS
  <2>1. PICK n \in T : \A j \in T : n <= j
    BY LeastNat
  <2>2. n # 0
    BY <1>7, <2>1
  <2>3. n \in Nat \ {0} /\ n - 1 \in Nat /\ n - 1 \notin T
    BY <2>1, <2>2
  <2>4. pow2[n - 1] \in Nat \ {0} /\ pow2[n] = 2 * pow2[n - 1]
    BY <1>7, <2>3
  <2> QED
    BY <2>1, <2>4
<1>9. \A n \in Nat : pow2[n + 1] = 2 * pow2[n]
  BY <1>7
<1> QED
  BY <1>7, <1>8, <1>9

\* A power of two exceeds its exponent.
LEMMA Pow2Exceeds ==
  \A n \in Nat : pow2[n] > n
<1> DEFINE T == {n \in Nat : ~(pow2[n] > n)}
<1> SUFFICES ASSUME T # {} PROVE FALSE
  BY Pow2
<1>1. PICK n \in T : \A j \in T : n <= j
  BY LeastNat
<1>2. n # 0
  BY <1>1, Pow2
<1>3. n \in Nat /\ n - 1 \in Nat /\ n - 1 \notin T /\ n = (n - 1) + 1
  BY <1>1, <1>2
<1>4. pow2[n - 1] > n - 1 /\ pow2[n - 1] \in Nat /\ pow2[n] = 2 * pow2[n - 1]
  BY <1>3, Pow2
<1> QED
  BY <1>1, <1>3, <1>4

\* Quotient and remainder of natural numbers.
LEMMA Quotient ==
  ASSUME NEW v \in Nat, NEW p \in Nat \ {0}
  PROVE  /\ v \div p \in Nat
         /\ (v \div p) * p \in Nat /\ (v \div p) * p <= v
         /\ ((v \div p) * p) \div p = v \div p
OBVIOUS

\* Clearing low bits (floor) gives a number not above the old one, and twice
\* is once.
LEMMA FloorIs ==
  ASSUME NEW v \in Nat, NEW n \in Nat
  PROVE  /\ floor(v, n) \in Nat /\ floor(v, n) <= v
         /\ floor(floor(v, n), n) = floor(v, n)
<1> DEFINE p == pow2[n]
<1>1. p \in Nat \ {0}
  BY Pow2
<1> HIDE DEF p
<1>2. floor(v, n) = (v \div p) * p
  BY DEF floor, p
<1>3. floor(floor(v, n), n) = (((v \div p) * p) \div p) * p
  BY <1>2 DEF floor, p
<1> QED
  BY <1>1, <1>2, <1>3, Quotient

\* The size of a NAPOT region is a positive number of words.
LEMMA NapotWordsIs ==
  ASSUME NEW v \in Nat
  PROVE  napotWords(v) \in Nat \ {0}
<1> DEFINE T == {k \in Nat : (v + 1) % pow2[k] # 0}
<1>1. v + 1 \in T
  <2> DEFINE p == pow2[v + 1]
  <2>1. p \in Nat \ {0} /\ p > v + 1
    BY Pow2, Pow2Exceeds
  <2> HIDE DEF p
  <2>2. (v + 1) % p = v + 1
    BY <2>1
  <2> QED
    BY <2>2 DEF p
<1>2. PICK k \in T : \A j \in T : k <= j
  BY <1>1, LeastNat
<1>3. k # 0
  BY <1>2, Pow2
<1>4. k \in 1..(v + 1) /\ k - 1 \in Nat /\ k - 1 \notin T
  BY <1>1, <1>2, <1>3
<1>5. (v + 1) % pow2[k] # 0 /\ (v + 1) % pow2[k - 1] = 0
  BY <1>2, <1>4
<1> DEFINE P(j) == (v + 1) % pow2[j] # 0 /\ (v + 1) % pow2[j - 1] = 0
<1>6. PICK c : c = CHOOSE j \in 1..(v + 1) : P(j)
  OBVIOUS
<1>7. c \in 1..(v + 1)
  <2>1. P(k)
    BY <1>5
  <2> HIDE DEF P
  <2> QED
    BY <1>4, <2>1, <1>6, Zenon
<1>8. napotWords(v) = pow2[c]
  BY <1>6 DEF napotWords
<1> QED
  BY <1>7, <1>8, Pow2

-----------------------------------------------------------------------------
(* Entries.                                                                *)

\* Values of the configuration and the registers.
Regs(c, a) == config \in Config /\ c \in [Entry -> Cfg] /\ a \in [Entry -> PmpAddr]

\* The address an entry reads as is a natural number.
LEMMA EffectiveIs ==
  ASSUME NEW c, NEW a, NEW i \in Entry, Regs(c, a)
  PROVE  getEffectivePMPAddr(c, a, i) \in Nat
<1>1. a[i] \in Nat /\ config.grain \in Nat
  BY PmpAssumption DEF Regs, PmpAddr, Config
<1>2. floor(a[i], config.grain) \in Nat
  BY <1>1, FloorIs
<1>3. CASE config.grain >= 2
  <2>1. config.grain - 1 \in Nat
    BY <1>1, <1>3
  <2>2. floor(a[i], config.grain - 1) \in Nat /\ pow2[config.grain - 1] \in Nat \ {0}
    BY <1>1, <2>1, FloorIs, Pow2
  <2>3. floor(a[i], config.grain - 1) + pow2[config.grain - 1] - 1 \in Nat
    BY <2>2
  <2> QED
    BY <1>2, <1>3, <2>3 DEF getEffectivePMPAddr
<1>4. CASE ~(config.grain >= 2)
  BY <1>1, <1>2, <1>4 DEF getEffectivePMPAddr
<1> QED
  BY <1>3, <1>4

\* Rounding an address to the size of a region leaves it a multiple of 4.
LEMMA NapotBounds ==
  ASSUME NEW e \in Nat, NEW w \in Nat \ {0}
  PROVE  /\ ((4 * e) \div (4 * w)) * (4 * w) = 4 * (((4 * e) \div (4 * w)) * w)
         /\ ((4 * e) \div (4 * w)) * w \in Nat
<1> DEFINE q == (4 * e) \div (4 * w)
<1>1. q \in Nat
  <2>1. 4 * e \in Nat /\ 4 * w \in Nat \ {0}
    OBVIOUS
  <2> QED
    BY <2>1, Quotient
<1> HIDE DEF q
<1>2. q * (4 * w) = 4 * (q * w) /\ q * w \in Nat
  BY <1>1
<1> QED
  BY <1>2 DEF q

\* Bounds of entries are multiples of words; only TOR entries may be reversed.
LEMMA BoundsAre ==
  ASSUME NEW c, NEW a, NEW i \in Entry, Regs(c, a)
  PROVE  \E p, q \in Nat :
           /\ getPMPEntryBounds(c, a, i) = <<4 * p, 4 * q - 1>>
           /\ c[i].mode \in {"NA4", "NAPOT"} => p < q
<1> DEFINE eff == getEffectivePMPAddr(c, a, i)
<1>1. eff \in Nat
  BY EffectiveIs
<1> HIDE DEF eff
<1>2. CASE c[i].mode = "NA4"
  <2>1. getPMPEntryBounds(c, a, i) = <<4 * eff, 4 * eff + 3>>
    BY <1>2 DEF getPMPEntryBounds, eff
  <2>2. PICK q : q = eff + 1
    OBVIOUS
  <2>3. 4 * eff + 3 = 4 * q - 1 /\ q \in Nat /\ eff < q
    BY <1>1, <2>2
  <2>4. getPMPEntryBounds(c, a, i) = <<4 * eff, 4 * q - 1>>
    BY <2>1, <2>3
  <2> QED
    BY <1>1, <2>3, <2>4
<1>3. CASE c[i].mode = "NAPOT"
  <2> DEFINE w == napotWords(eff)
             q == (4 * eff) \div (4 * w)
  <2>1. w \in Nat \ {0}
    BY <1>1, NapotWordsIs
  <2>2. q * (4 * w) = 4 * (q * w) /\ q * w \in Nat
    BY <1>1, <2>1, NapotBounds
  <2>3. getPMPEntryBounds(c, a, i) = <<q * (4 * w), q * (4 * w) + 4 * w - 1>>
    BY <1>3 DEF getPMPEntryBounds, eff
  <2> HIDE DEF q, w
  <2>4. PICK r : r = q * w
    OBVIOUS
  <2>5. r \in Nat /\ getPMPEntryBounds(c, a, i) = <<4 * r, 4 * r + 4 * w - 1>>
    BY <2>2, <2>3, <2>4
  <2>6. 4 * r + 4 * w - 1 = 4 * (r + w) - 1 /\ r + w \in Nat /\ r < r + w
    BY <2>1, <2>5
  <2> QED
    BY <2>5, <2>6
<1>4. CASE c[i].mode \notin {"NA4", "NAPOT"}
  <2> DEFINE lo == IF i = 0 THEN 0 ELSE floor(a[i - 1], config.grain)
  <2>1. lo \in Nat
    <3>1. CASE i # 0
      <4>1. i - 1 \in Entry
        BY <1>4, <3>1, PmpAssumption DEF Entry
      <4>2. a[i - 1] \in Nat /\ config.grain \in Nat
        BY <4>1, PmpAssumption DEF Regs, PmpAddr, Config
      <4> QED
        BY <3>1, <4>2, FloorIs
    <3> QED
      BY <3>1
  <2>2. getPMPEntryBounds(c, a, i) = <<4 * lo, 4 * eff - 1>>
    BY <1>4 DEF getPMPEntryBounds, eff
  <2> QED
    BY <1>1, <1>4, <2>1, <2>2
<1> QED
  BY <1>2, <1>3, <1>4

\* An entry's bytes depend on its own registers, and on the address register
\* below it if it is TOR.
LEMMA RegionSame ==
  ASSUME NEW c, NEW a, NEW d, NEW b, NEW i, c[i] \in Cfg,
         c[i] = d[i], a[i] = b[i], i # 0 /\ c[i].mode = "TOR" => a[i - 1] = b[i - 1]
  PROVE  /\ region(c, a, i) = region(d, b, i)
         /\ nonEmpty(c, a, i) <=> nonEmpty(d, b, i)
<1>1. getEffectivePMPAddr(c, a, i) = getEffectivePMPAddr(d, b, i)
  BY DEF getEffectivePMPAddr
<1>2. getPMPRegionActive(c, a, i) <=> getPMPRegionActive(d, b, i)
  BY <1>1 DEF getPMPRegionActive
<1>3. CASE c[i].mode \in {"TOR", "NA4", "NAPOT"}
  <2>1. getPMPEntryBounds(c, a, i) = getPMPEntryBounds(d, b, i)
    BY <1>1, <1>3 DEF getPMPEntryBounds
  <2>2. nonEmpty(c, a, i) <=> nonEmpty(d, b, i)
    BY <1>2, <2>1 DEF nonEmpty
  <2> QED
    BY <2>1, <2>2 DEF region
<1>4. CASE c[i].mode \notin {"TOR", "NA4", "NAPOT"}
  <2>1. nonEmpty(c, a, i) <=> nonEmpty(d, b, i)
    BY <1>2, <1>4 DEF nonEmpty
  <2>2. c[i].mode = "OFF"
    BY <1>4 DEF Cfg
  <2>3. ~nonEmpty(c, a, i)
    BY <2>2 DEF nonEmpty, getPMPRegionActive
  <2> QED
    BY <2>1, <2>3 DEF region
<1> QED
  BY <1>3, <1>4

\* Privileges are sets of R, W and X.
LEMMA PrivsAre ==
  ASSUME NEW s, NEW m, NEW e \in Cfg
  PROVE  getPMPEntryPriv(s, m, e) \in Priv /\ getPMPUnmatchedMode(s, m) \in Priv
<1>1. e.priv \in Priv /\ RWX \in Priv
  BY DEF Cfg, Priv, RWX
<1>2. \A p \in Priv : noReserved(p) \in Priv
  BY DEF noReserved, Priv
<1>3. \A p \in Priv : mapMML1ML0[p] \in Priv
  BY DEF mapMML1ML0, Priv
<1>4. \A p \in Priv : mapMML1ML1[p] \in Priv
  BY DEF mapMML1ML1, Priv
<1>5. \A p \in Priv : mapMML1SL0[p] \in Priv
  BY DEF mapMML1SL0, Priv
<1>6. \A p \in Priv : mapMML1SL1[p] \in Priv
  BY DEF mapMML1SL1, Priv
<1>7. getPMPEntryPriv(s, m, e) \in Priv
  <2>1. CASE ~s.MML
    BY <1>1, <1>2, <2>1 DEF getPMPEntryPriv
  <2>2. CASE s.MML
    BY <1>1, <1>3, <1>4, <1>5, <1>6, <2>2 DEF getPMPEntryPriv
  <2> QED
    BY <2>1, <2>2
<1>8. getPMPUnmatchedMode(s, m) \in Priv
  BY <1>1 DEF getPMPUnmatchedMode, Priv
<1> QED
  BY <1>7, <1>8

\* Entry g has priority at address x (NumPMP: none matches).
Governs(c, a, g, x) ==
  /\ g \in 0..NumPMP
  /\ g # NumPMP => x \in region(c, a, g)
  /\ \A j \in Entry : j < g => x \notin region(c, a, j)

\* Privileges of mode m where g has priority.
PrivOf(s, c, m, g) ==
  IF g = NumPMP THEN getPMPUnmatchedMode(s, m) ELSE getPMPEntryPriv(s, m, c[g])

\* One entry, or none, has priority at an address.
LEMMA GovernsUnique ==
  ASSUME NEW c, NEW a, NEW x, NEW g, NEW h, Governs(c, a, g, x), Governs(c, a, h, x)
  PROVE  g = h
BY PmpAssumption DEF Governs, Entry

\* governing is that entry.
LEMMA GoverningIs ==
  ASSUME NEW x
  PROVE  Governs(pmpcfg, pmpaddr, governing(x), x)
<1> DEFINE T == matching(x) \cup {NumPMP}
<1>1. T \subseteq Nat /\ T # {} /\ matching(x) \subseteq T
  BY PmpAssumption DEF matching, Entry
<1>2. PICK g \in T : \A j \in T : g <= j
  BY <1>1, LeastNat
<1>3. \E i \in T : \A j \in matching(x) : i <= j
  BY <1>1, <1>2
<1>4. governing(x) \in T /\ \A j \in matching(x) : governing(x) <= j
  <2> DEFINE P(i) == \A j \in matching(x) : i <= j
  <2>1. governing(x) = CHOOSE i \in T : P(i)
    BY DEF governing
  <2>2. \E i \in T : P(i)
    BY <1>3
  <2>3. governing(x) \in T /\ P(governing(x))
    <3> HIDE DEF T, P
    <3> QED
      BY <2>1, <2>2, Zenon
  <2> QED
    BY <2>3
<1>5. PICK h : h = governing(x)
  OBVIOUS
<1>6. h \in T /\ \A j \in matching(x) : h <= j
  BY <1>4, <1>5
<1>7. Governs(pmpcfg, pmpaddr, h, x)
  BY <1>6, PmpAssumption DEF Governs, matching, Entry
<1> QED
  BY <1>5, <1>7

-----------------------------------------------------------------------------
(* mapAt: the range and the privileges it finds for an address.            *)

\* r, found by the entries from k on, is a range of words around x where one
\* entry g of those, or none, has priority, whose privileges r has.
Refined(m, x, k, r) ==
  /\ r.low <= x /\ x <= r.high
  /\ \E p, q \in Nat, pr \in Priv : r = [low |-> 4 * p, high |-> 4 * q - 1, priv |-> pr]
  /\ \E g \in k..NumPMP :
       /\ r.priv = PrivOf(mseccfg, pmpcfg, m, g)
       /\ \A y \in Addr : r.low <= y /\ y <= r.high =>
            /\ g # NumPMP => y \in region(pmpcfg, pmpaddr, g)
            /\ \A j \in Entry : k <= j /\ j < g => y \notin region(pmpcfg, pmpaddr, j)

\* Bytes of an entry with bounds <<lo, hi>>.
LEMMA RegionIs ==
  ASSUME NEW c, NEW a, NEW i, nonEmpty(c, a, i),
         NEW lo \in Int, NEW hi \in Int, getPMPEntryBounds(c, a, i) = <<lo, hi>>
  PROVE  \A y \in Addr : y \in region(c, a, i) <=> lo <= y /\ y <= hi
<1>1. region(c, a, i) = (lo..hi) \cap Addr
  BY DEF region
<1> QED
  BY <1>1, PmpAssumption DEF Addr

\* A range that avoids or equals entry i stays refined when i is looked at.
LEMMA RefinedKeep ==
  ASSUME NEW m, NEW x, NEW i \in Entry, NEW r, NEW s, Refined(m, x, i + 1, r),
         s.low <= x /\ x <= s.high, s.priv = r.priv,
         NEW p \in Nat, NEW q \in Nat, s = [low |-> 4 * p, high |-> 4 * q - 1, priv |-> r.priv],
         r.low <= s.low, s.high <= r.high,
         \A y \in Addr : s.low <= y /\ y <= s.high => y \notin region(pmpcfg, pmpaddr, i)
  PROVE  Refined(m, x, i, s)
<1>1. PICK g \in (i + 1)..NumPMP :
        /\ r.priv = PrivOf(mseccfg, pmpcfg, m, g)
        /\ \A y \in Addr : r.low <= y /\ y <= r.high =>
             /\ g # NumPMP => y \in region(pmpcfg, pmpaddr, g)
             /\ \A j \in Entry : i + 1 <= j /\ j < g => y \notin region(pmpcfg, pmpaddr, j)
  BY Zenon DEF Refined
<1>2. PICK p0, q0 \in Nat, pr \in Priv :
        r = [low |-> 4 * p0, high |-> 4 * q0 - 1, priv |-> pr]
  BY Zenon DEF Refined
<1>3. g \in i..NumPMP /\ i \in Nat
  BY <1>1, PmpAssumption DEF Entry
<1>4. ASSUME NEW y \in Addr, s.low <= y, y <= s.high
      PROVE  /\ g # NumPMP => y \in region(pmpcfg, pmpaddr, g)
             /\ \A j \in Entry : i <= j /\ j < g => y \notin region(pmpcfg, pmpaddr, j)
  <2>1. r.low <= y /\ y <= r.high
    BY <1>2, <1>4, PmpAssumption DEF Addr
  <2>2. \A j \in Entry : i <= j => j = i \/ i + 1 <= j
    BY PmpAssumption DEF Entry
  <2> QED
    BY <1>1, <1>4, <2>1, <2>2
<1>5. \E pa, qa \in Nat, pr1 \in Priv : s = [low |-> 4 * pa, high |-> 4 * qa - 1, priv |-> pr1]
  <2>1. r.priv = pr
    BY <1>2
  <2> QED
    BY <1>2, <2>1
<1> QED
  BY <1>1, <1>3, <1>4, <1>5 DEF Refined

\* The entry that matches gives the range.
LEMMA RefinedMatch ==
  ASSUME NEW m, NEW x, NEW i \in Entry, Regs(pmpcfg, pmpaddr),
         nonEmpty(pmpcfg, pmpaddr, i),
         NEW p \in Nat, NEW q \in Nat,
         getPMPEntryBounds(pmpcfg, pmpaddr, i) = <<4 * p, 4 * q - 1>>,
         4 * p <= x, x <= 4 * q - 1
  PROVE  Refined(m, x, i, [low |-> 4 * p, high |-> 4 * q - 1,
                           priv |-> getPMPEntryPriv(mseccfg, m, pmpcfg[i])])
<1> DEFINE pr == getPMPEntryPriv(mseccfg, m, pmpcfg[i])
           s == [low |-> 4 * p, high |-> 4 * q - 1, priv |-> pr]
<1>1. pr \in Priv
  <2>1. pmpcfg[i] \in Cfg
    BY DEF Regs
  <2> QED
    BY <2>1, PrivsAre
<1>2. i \in i..NumPMP /\ i # NumPMP
  BY PmpAssumption DEF Entry
<1>3. pr = PrivOf(mseccfg, pmpcfg, m, i)
  BY <1>2 DEF PrivOf
<1>4. \A y \in Addr : y \in region(pmpcfg, pmpaddr, i) <=> 4 * p <= y /\ y <= 4 * q - 1
  BY RegionIs
<1>5. \A j \in Entry : ~(i <= j /\ j < i)
  BY PmpAssumption DEF Entry
<1> HIDE DEF pr
<1>6. s.low = 4 * p /\ s.high = 4 * q - 1 /\ s.priv = pr
  OBVIOUS
<1>7. \E pa, qa \in Nat, pr1 \in Priv : s = [low |-> 4 * pa, high |-> 4 * qa - 1, priv |-> pr1]
  BY <1>1
<1> HIDE DEF s
<1>8. Refined(m, x, i, s)
  BY <1>2, <1>3, <1>4, <1>5, <1>6, <1>7 DEF Refined
<1> QED
  BY <1>8 DEF s, pr

\* Looking at entry i (refinePMPRegionRange) keeps the range refined.
LEMMA RefineStep ==
  ASSUME NEW m, NEW x \in Addr, NEW i \in Entry, NEW r, Regs(pmpcfg, pmpaddr),
         Refined(m, x, i + 1, r)
  PROVE  Refined(m, x, i, refinePMPRegionRange(m, r, x, i))
<1> DEFINE new == refinePMPRegionRange(m, r, x, i)
           b == getPMPEntryBounds(pmpcfg, pmpaddr, i)
<1>1. PICK p, q \in Nat : b = <<4 * p, 4 * q - 1>>
  BY BoundsAre, ZenonT(60)
<1>2. PICK p0, q0 \in Nat, pr \in Priv :
        r = [low |-> 4 * p0, high |-> 4 * q0 - 1, priv |-> pr]
  BY Zenon DEF Refined
<1>3. r.low <= x /\ x <= r.high /\ r.low = 4 * p0 /\ r.high = 4 * q0 - 1 /\ r.priv = pr
  BY <1>2 DEF Refined
<1>4. x \in Nat
  BY PmpAssumption DEF Addr
<1>5. r.low <= r.low /\ r.high <= r.high
  BY <1>3
<1>6. CASE ~nonEmpty(pmpcfg, pmpaddr, i)
  <2>1. new = r
    BY <1>6 DEF refinePMPRegionRange
  <2>2. region(pmpcfg, pmpaddr, i) = {}
    BY <1>6 DEF region
  <2>3. Refined(m, x, i, r)
    BY <1>2, <1>3, <1>5, <2>2, RefinedKeep
  <2> QED
    BY <2>1, <2>3
<1>7. CASE nonEmpty(pmpcfg, pmpaddr, i)
  <2>1. \A y \in Addr : y \in region(pmpcfg, pmpaddr, i) <=> 4 * p <= y /\ y <= 4 * q - 1
    BY <1>1, <1>7, RegionIs
  <2>2. b[1] = 4 * p /\ b[2] = 4 * q - 1
    BY <1>1
  <2>3. CASE 4 * p <= x /\ x <= 4 * q - 1
    <3>1. new = [low |-> 4 * p, high |-> 4 * q - 1,
                 priv |-> getPMPEntryPriv(mseccfg, m, pmpcfg[i])]
      BY <1>7, <2>2, <2>3 DEF refinePMPRegionRange
    <3> QED
      BY <1>1, <1>7, <2>3, <3>1, RefinedMatch
  <2>4. CASE 4 * p > x /\ 4 * p < r.high
    <3> DEFINE s == [low |-> 4 * p0, high |-> 4 * p - 1, priv |-> r.priv]
    <3>1. new = s
      <4>1. new = [r EXCEPT !.high = 4 * p - 1]
        BY <1>3, <1>4, <1>7, <2>2, <2>4 DEF refinePMPRegionRange
      <4> QED
        BY <1>2, <1>3, <4>1
    <3>2. s.low = 4 * p0 /\ s.high = 4 * p - 1 /\ s.priv = r.priv
      OBVIOUS
    <3>3. s.low <= x /\ x <= s.high /\ r.low <= s.low /\ s.high <= r.high
      BY <1>3, <1>4, <2>4, <3>2
    <3>4. \A y \in Addr : s.low <= y /\ y <= s.high => y \notin region(pmpcfg, pmpaddr, i)
      BY <2>1, <3>2, PmpAssumption DEF Addr
    <3> HIDE DEF s
    <3>5. s = [low |-> 4 * p0, high |-> 4 * p - 1, priv |-> r.priv]
      BY DEF s
    <3>6. Refined(m, x, i, s)
      BY <3>2, <3>3, <3>4, <3>5, RefinedKeep
    <3> QED
      BY <3>1, <3>6
  <2>5. CASE ~(4 * p <= x /\ x <= 4 * q - 1) /\ ~(4 * p > x /\ 4 * p < r.high)
             /\ 4 * q - 1 < x /\ 4 * q - 1 > r.low
    <3> DEFINE s == [low |-> 4 * q, high |-> 4 * q0 - 1, priv |-> r.priv]
    <3>1. new = s
      <4>1. new = [r EXCEPT !.low = (4 * q - 1) + 1]
        BY <1>3, <1>4, <1>7, <2>2, <2>5 DEF refinePMPRegionRange
      <4>2. (4 * q - 1) + 1 = 4 * q
        OBVIOUS
      <4> QED
        BY <1>2, <4>1, <4>2
    <3>2. s.low = 4 * q /\ s.high = 4 * q0 - 1 /\ s.priv = r.priv
      OBVIOUS
    <3>3. s.low <= x /\ x <= s.high /\ r.low <= s.low /\ s.high <= r.high
      BY <1>3, <1>4, <2>5, <3>2
    <3>4. \A y \in Addr : s.low <= y /\ y <= s.high => y \notin region(pmpcfg, pmpaddr, i)
      BY <2>1, <3>2, PmpAssumption DEF Addr
    <3> HIDE DEF s
    <3>5. s = [low |-> 4 * q, high |-> 4 * q0 - 1, priv |-> r.priv]
      BY DEF s
    <3>6. Refined(m, x, i, s)
      BY <3>2, <3>3, <3>4, <3>5, RefinedKeep
    <3> QED
      BY <3>1, <3>6
  <2>6. CASE /\ ~(4 * p <= x /\ x <= 4 * q - 1) /\ ~(4 * p > x /\ 4 * p < r.high)
             /\ ~(4 * q - 1 < x /\ 4 * q - 1 > r.low)
    <3>1. new = r
      BY <1>3, <1>4, <1>7, <2>2, <2>6 DEF refinePMPRegionRange
    <3>2. \A y \in Addr : r.low <= y /\ y <= r.high => y \notin region(pmpcfg, pmpaddr, i)
      <4> SUFFICES ASSUME NEW y \in Addr, r.low <= y, y <= r.high,
                          4 * p <= y, y <= 4 * q - 1
                   PROVE  FALSE
        BY <2>1
      <4>1. y \in Nat
        BY PmpAssumption DEF Addr
      <4>2. CASE 4 * p > x
        BY <1>3, <1>4, <2>6, <4>1, <4>2
      <4>3. CASE 4 * q - 1 < x
        BY <1>3, <1>4, <2>6, <4>1, <4>3
      <4> QED
        BY <1>4, <2>6, <4>2, <4>3
    <3>3. Refined(m, x, i, r)
      BY <1>2, <1>3, <1>5, <3>2, RefinedKeep
    <3> QED
      BY <3>1, <3>3
  <2> QED
    BY <1>3, <1>4, <2>3, <2>4, <2>5, <2>6
<1> QED
  BY <1>6, <1>7

\* What is known of an address before any entry is looked at.
Whole(m) == [low |-> 0, high |-> MaxPA, priv |-> getPMPUnmatchedMode(mseccfg, m)]

\* f is the recursive function of mapAt on the entries from k on.
MapsFrom(m, x, k, f) ==
  f = [i \in k..NumPMP |-> IF i = NumPMP THEN Whole(m)
                           ELSE refinePMPRegionRange(m, f[i + 1], x, i)]

\* That function exists.
LEMMA MapsFromExists ==
  ASSUME NEW m, NEW x
  PROVE  \E f : MapsFrom(m, x, 0, f)
<1> DEFINE T == {n \in Nat : n <= NumPMP /\ ~\E f : MapsFrom(m, x, NumPMP - n, f)}
<1>1. NumPMP \in Nat /\ NumPMP - NumPMP = 0
  BY PmpAssumption
<1>2. T = {}
  <2> SUFFICES ASSUME T # {} PROVE FALSE
    OBVIOUS
  <2>1. PICK n \in T : \A j \in T : n <= j
    BY LeastNat
  <2>2. n # 0
    <3> DEFINE f == [i \in NumPMP..NumPMP |-> Whole(m)]
    <3>1. NumPMP - 0 = NumPMP
      BY <1>1
    <3>2. \A i \in NumPMP..NumPMP : i = NumPMP
      BY <1>1
    <3>3. MapsFrom(m, x, NumPMP, f)
      BY <3>2 DEF MapsFrom
    <3> QED
      BY <2>1, <3>1, <3>3
  <2>3. n \in Nat /\ n - 1 \in Nat /\ n - 1 \notin T /\ n - 1 <= NumPMP /\ n <= NumPMP
    BY <1>1, <2>1, <2>2
  <2>4. PICK f : MapsFrom(m, x, NumPMP - (n - 1), f)
    BY <2>3
  <2> DEFINE k == NumPMP - n
             h == [i \in k..NumPMP |-> IF i = k THEN refinePMPRegionRange(m, f[k + 1], x, k)
                                       ELSE f[i]]
  <2>5. k \in Nat /\ k < NumPMP /\ NumPMP - (n - 1) = k + 1
    BY <1>1, <2>2, <2>3
  <2> HIDE DEF k
  <2>6. \A i \in (k + 1)..NumPMP :
          f[i] = IF i = NumPMP THEN Whole(m) ELSE refinePMPRegionRange(m, f[i + 1], x, i)
    BY <2>4, <2>5 DEF MapsFrom
  <2>7. ASSUME NEW i \in k..NumPMP
        PROVE  h[i] = IF i = NumPMP THEN Whole(m) ELSE refinePMPRegionRange(m, h[i + 1], x, i)
    <3>1. i # NumPMP => h[i + 1] = f[i + 1]
      BY <1>1, <2>5
    <3>2. CASE i = k
      BY <1>1, <2>5, <3>1, <3>2
    <3>3. CASE i # k
      <4>1. i \in (k + 1)..NumPMP
        BY <2>5, <3>3
      <4> QED
        BY <2>6, <3>1, <3>3, <4>1
    <3> QED
      BY <3>2, <3>3
  <2>8. MapsFrom(m, x, k, h)
    <3>1. h = [i \in k..NumPMP |-> h[i]]
      OBVIOUS
    <3> HIDE DEF h
    <3> QED
      BY <2>7, <3>1 DEF MapsFrom
  <2> QED
    BY <2>1, <2>8 DEF k
<1>3. NumPMP \notin T
  BY <1>2
<1> QED
  BY <1>1, <1>3

\* Each value of that function is a range refined by the entries seen so far.
LEMMA MapsRefined ==
  ASSUME NEW m, NEW x \in Addr, Regs(pmpcfg, pmpaddr), NEW f, MapsFrom(m, x, 0, f),
         NEW e \in 0..NumPMP
  PROVE  Refined(m, x, e, f[e])
<1>1. NumPMP \in Nat
  BY PmpAssumption
<1>2. Refined(m, x, NumPMP, f[NumPMP])
  <2> DEFINE w == Whole(m)
  <2>1. f[NumPMP] = Whole(m)
    BY <1>1 DEF MapsFrom
  <2>2. w.low = 0 /\ w.high = MaxPA /\ w.priv = getPMPUnmatchedMode(mseccfg, m)
    BY DEF Whole
  <2>3. w.priv \in Priv
    BY <2>2 DEF getPMPUnmatchedMode, Priv, RWX
  <2>4. PICK q \in Nat : MaxPA = 4 * q - 1
    <3>1. MaxPA \in Nat /\ MaxPA % 8 = 7
      BY PmpAssumption
    <3>2. (MaxPA \div 8) * 2 + 2 \in Nat /\ MaxPA = 4 * ((MaxPA \div 8) * 2 + 2) - 1
      BY <3>1
    <3> QED
      BY <3>2
  <2>5. w = [low |-> 4 * 0, high |-> 4 * q - 1, priv |-> w.priv]
    BY <2>4 DEF Whole
  <2>6. \E p, q1 \in Nat, pr \in Priv : w = [low |-> 4 * p, high |-> 4 * q1 - 1, priv |-> pr]
    BY <2>3, <2>4, <2>5
  <2>7. w.priv = PrivOf(mseccfg, pmpcfg, m, NumPMP)
    BY <2>2 DEF PrivOf
  <2>8. NumPMP \in NumPMP..NumPMP /\ \A j \in Entry : ~(NumPMP <= j)
    BY <1>1 DEF Entry
  <2>9. w.low <= x /\ x <= w.high
    BY <2>2, PmpAssumption DEF Addr
  <2> HIDE DEF w
  <2>10. Refined(m, x, NumPMP, w)
    BY <2>6, <2>7, <2>8, <2>9 DEF Refined
  <2> QED
    BY <2>1, <2>10 DEF w
<1> DEFINE T == {n \in Nat : n <= NumPMP /\ ~Refined(m, x, NumPMP - n, f[NumPMP - n])}
<1>3. T = {}
  <2> SUFFICES ASSUME T # {} PROVE FALSE
    OBVIOUS
  <2>1. PICK n \in T : \A j \in T : n <= j
    BY LeastNat
  <2>2. n # 0
    <3>1. NumPMP - 0 = NumPMP
      BY <1>1
    <3> QED
      BY <1>2, <2>1, <3>1
  <2>3. n \in Nat /\ n - 1 \in Nat /\ n - 1 \notin T /\ n - 1 <= NumPMP /\ n <= NumPMP
    BY <1>1, <2>1, <2>2
  <2>4. PICK k : k = NumPMP - n
    OBVIOUS
  <2>5. k \in Nat /\ k \in Entry /\ k # NumPMP /\ NumPMP - (n - 1) = k + 1 /\ k \in 0..NumPMP
    BY <1>1, <2>2, <2>3, <2>4 DEF Entry
  <2>6. Refined(m, x, k + 1, f[k + 1])
    BY <2>3, <2>5
  <2>7. Refined(m, x, k, refinePMPRegionRange(m, f[k + 1], x, k))
    BY <2>5, <2>6, RefineStep
  <2>8. f[k] = refinePMPRegionRange(m, f[k + 1], x, k)
    BY <2>5 DEF MapsFrom
  <2> QED
    BY <2>1, <2>4, <2>7, <2>8
<1>4. NumPMP - e \notin T /\ NumPMP - e \in Nat /\ NumPMP - e <= NumPMP
  <2>1. NumPMP - e \in Nat /\ NumPMP - e <= NumPMP
    BY <1>1
  <2> QED
    BY <1>3, <2>1
<1>5. NumPMP - (NumPMP - e) = e
  BY <1>1
<1> QED
  BY <1>4, <1>5

\* Looking at entry i gives two addresses the same range if it leaves the
\* second in the range of the first, and they had the same range before if the
\* second was in that of the first.
LEMMA RefineSame ==
  ASSUME NEW m, NEW u \in Addr, NEW v \in Addr, NEW i \in Entry, NEW r, NEW r2,
         Regs(pmpcfg, pmpaddr), Refined(m, u, i + 1, r),
         r.low <= v /\ v <= r.high => r2 = r,
         refinePMPRegionRange(m, r, u, i).low <= v, v <= refinePMPRegionRange(m, r, u, i).high
  PROVE  refinePMPRegionRange(m, r2, v, i) = refinePMPRegionRange(m, r, u, i)
<1> DEFINE new == refinePMPRegionRange(m, r, u, i)
           b == getPMPEntryBounds(pmpcfg, pmpaddr, i)
           match == [low |-> b[1], high |-> b[2],
                     priv |-> getPMPEntryPriv(mseccfg, m, pmpcfg[i])]
<1>1. PICK p, q \in Nat : b = <<4 * p, 4 * q - 1>> /\ (pmpcfg[i].mode \in {"NA4", "NAPOT"} => p < q)
  BY BoundsAre
<1>2. PICK p0, q0 \in Nat, pr \in Priv :
        r = [low |-> 4 * p0, high |-> 4 * q0 - 1, priv |-> pr]
  BY Zenon DEF Refined
<1>3. r.low <= u /\ u <= r.high /\ r.low = 4 * p0 /\ r.high = 4 * q0 - 1
  BY <1>2 DEF Refined
<1>4. u \in Nat /\ v \in Nat /\ b[1] = 4 * p /\ b[2] = 4 * q - 1
  BY <1>1, PmpAssumption DEF Addr
<1>5. CASE ~nonEmpty(pmpcfg, pmpaddr, i)
  <2>1. new = r
    BY <1>5 DEF refinePMPRegionRange
  <2>2. r2 = r
    BY <2>1
  <2> QED
    BY <1>5, <2>2 DEF refinePMPRegionRange
<1>6. CASE nonEmpty(pmpcfg, pmpaddr, i)
  <2>0. b[1] <= b[2]
    <3>1. CASE pmpcfg[i].mode \in {"NA4", "NAPOT"}
      BY <1>1, <1>4, <3>1
    <3>2. CASE pmpcfg[i].mode = "TOR"
      BY <1>6, <3>2 DEF nonEmpty
    <3>3. pmpcfg[i].mode \in {"OFF", "TOR", "NA4", "NAPOT"}
      BY DEF Regs, Cfg
    <3>4. pmpcfg[i].mode # "OFF"
      BY <1>6 DEF nonEmpty, getPMPRegionActive
    <3> QED
      BY <3>1, <3>2, <3>3, <3>4
  <2>1. CASE 4 * p <= u /\ u <= 4 * q - 1
    <3>1. new = match
      BY <1>4, <1>6, <2>1 DEF refinePMPRegionRange
    <3>2. b[1] <= v /\ v <= b[2]
      BY <3>1
    <3>3. refinePMPRegionRange(m, r2, v, i) = match
      BY <1>6, <3>2 DEF refinePMPRegionRange
    <3> QED
      BY <3>1, <3>3
  <2>2. CASE 4 * p > u /\ 4 * p < r.high
    <3>1. new = [r EXCEPT !.high = b[1] - 1]
      BY <1>3, <1>4, <1>6, <2>2 DEF refinePMPRegionRange
    <3>2. new.low = r.low /\ new.high = 4 * p - 1
      BY <1>2, <1>4, <3>1
    <3>3. v < 4 * p /\ r.low <= v /\ v <= r.high
      BY <1>3, <1>4, <2>2, <3>2
    <3>4. refinePMPRegionRange(m, r, v, i) = [r EXCEPT !.high = b[1] - 1]
      BY <1>3, <1>4, <1>6, <2>2, <3>3 DEF refinePMPRegionRange
    <3> QED
      BY <3>1, <3>3, <3>4
  <2>3. CASE ~(4 * p <= u /\ u <= 4 * q - 1) /\ ~(4 * p > u /\ 4 * p < r.high)
             /\ 4 * q - 1 < u /\ 4 * q - 1 > r.low
    <3>1. new = [r EXCEPT !.low = b[2] + 1]
      BY <1>3, <1>4, <1>6, <2>3 DEF refinePMPRegionRange
    <3>2. new.low = 4 * q - 1 + 1 /\ new.high = r.high
      BY <1>2, <1>4, <3>1
    <3>3. v > 4 * q - 1 /\ r.low <= v /\ v <= r.high
      BY <1>3, <1>4, <2>3, <3>2
    <3>4. ~(4 * p > v)
      BY <1>4, <2>0, <3>3
    <3>5. refinePMPRegionRange(m, r, v, i) = [r EXCEPT !.low = b[2] + 1]
      BY <1>3, <1>4, <1>6, <2>3, <3>3, <3>4 DEF refinePMPRegionRange
    <3> QED
      BY <3>1, <3>3, <3>5
  <2>4. CASE /\ ~(4 * p <= u /\ u <= 4 * q - 1) /\ ~(4 * p > u /\ 4 * p < r.high)
             /\ ~(4 * q - 1 < u /\ 4 * q - 1 > r.low)
    <3>1. new = r
      BY <1>3, <1>4, <1>6, <2>4 DEF refinePMPRegionRange
    <3>2. r.low <= v /\ v <= r.high /\ r2 = r
      BY <3>1
    <3>3. ~(4 * p <= v /\ v <= 4 * q - 1)
      BY <1>3, <1>4, <2>4, <3>2
    <3>4. ~(4 * p > v /\ 4 * p < r.high)
      BY <1>3, <1>4, <2>0, <2>4, <3>2
    <3>5. ~(4 * q - 1 < v /\ 4 * q - 1 > r.low)
      BY <1>3, <1>4, <2>0, <2>4, <3>2
    <3>6. refinePMPRegionRange(m, r, v, i) = r
      BY <1>3, <1>4, <1>6, <3>3, <3>4, <3>5 DEF refinePMPRegionRange
    <3> QED
      BY <3>1, <3>2, <3>6
  <2> QED
    BY <1>3, <1>4, <2>1, <2>2, <2>3, <2>4
<1> QED
  BY <1>5, <1>6

\* The value of mapAt is that of such a function at the first entry.
LEMMA MapAtFrom ==
  ASSUME NEW m, NEW x
  PROVE  \E f : MapsFrom(m, x, 0, f) /\ mapAt(m, x) = f[0]
<1>1. PICK f : f = CHOOSE g : MapsFrom(m, x, 0, g)
  OBVIOUS
<1>2. MapsFrom(m, x, 0, f)
  BY <1>1, MapsFromExists, Zenon
<1>3. mapAt(m, x) = f[0]
  BY <1>1, Zenon DEF mapAt, MapsFrom, Whole
<1> QED
  BY <1>2, <1>3

\* What mapAt returns for an address: a range around it governed by one entry,
\* or by none, with its privileges.
LEMMA MapAtIs ==
  ASSUME NEW m, NEW x \in Addr, Regs(pmpcfg, pmpaddr)
  PROVE  Refined(m, x, 0, mapAt(m, x))
<1>1. PICK f : MapsFrom(m, x, 0, f) /\ mapAt(m, x) = f[0]
  BY MapAtFrom
<1>2. 0 \in 0..NumPMP
  BY PmpAssumption
<1> QED
  BY <1>1, <1>2, MapsRefined

\* Addresses in the range of another have the same range: the ranges divide
\* the address space.
LEMMA SameRange ==
  ASSUME NEW m, NEW u \in Addr, NEW v \in Addr, Regs(pmpcfg, pmpaddr),
         mapAt(m, u).low <= v, v <= mapAt(m, u).high
  PROVE  mapAt(m, v) = mapAt(m, u)
<1>1. PICK f : MapsFrom(m, u, 0, f) /\ mapAt(m, u) = f[0]
  BY MapAtFrom
<1>2. PICK h : MapsFrom(m, v, 0, h) /\ mapAt(m, v) = h[0]
  BY MapAtFrom
<1>3. NumPMP \in Nat
  BY PmpAssumption
<1> DEFINE Same(k) == f[k].low <= v /\ v <= f[k].high => h[k] = f[k]
           T == {n \in Nat : n <= NumPMP /\ ~Same(NumPMP - n)}
<1>4. T = {}
  <2> SUFFICES ASSUME T # {} PROVE FALSE
    OBVIOUS
  <2>1. PICK n \in T : \A j \in T : n <= j
    BY LeastNat
  <2>2. n # 0
    <3>1. f[NumPMP] = Whole(m) /\ h[NumPMP] = Whole(m)
      BY <1>1, <1>2, <1>3 DEF MapsFrom
    <3>2. NumPMP - 0 = NumPMP
      BY <1>3
    <3> QED
      BY <2>1, <3>1, <3>2
  <2>3. n \in Nat /\ n - 1 \in Nat /\ n - 1 \notin T /\ n - 1 <= NumPMP /\ n <= NumPMP
    BY <1>3, <2>1, <2>2
  <2>4. PICK k : k = NumPMP - n
    OBVIOUS
  <2>5. /\ k \in Nat /\ k \in Entry /\ k # NumPMP /\ NumPMP - (n - 1) = k + 1
        /\ k \in 0..NumPMP /\ k + 1 \in 0..NumPMP
    BY <1>3, <2>2, <2>3, <2>4 DEF Entry
  <2>6. Same(k + 1)
    BY <2>3, <2>5
  <2>7. Refined(m, u, k + 1, f[k + 1])
    BY <1>1, <2>5, MapsRefined
  <2>8. /\ f[k] = refinePMPRegionRange(m, f[k + 1], u, k)
        /\ h[k] = refinePMPRegionRange(m, h[k + 1], v, k)
    BY <1>1, <1>2, <2>5 DEF MapsFrom
  <2>9. Same(k)
    BY <2>5, <2>6, <2>7, <2>8, RefineSame
  <2> QED
    BY <2>1, <2>4, <2>9
<1>5. NumPMP \notin T /\ NumPMP - NumPMP = 0
  BY <1>3, <1>4
<1> QED
  BY <1>1, <1>2, <1>3, <1>5

-----------------------------------------------------------------------------
(* The invariant, in terms of values of the variables.                     *)

\* Domain d of mapping mp grants nothing that the registers do not.
SoundIn(mp, s, c, a, d) ==
  \A x \in Addr, g \in 0..NumPMP :
    Governs(c, a, g, x) => mp[d][x] \subseteq PrivOf(s, c, d[1], g)

\* MappedWithinPMP speaks of domain d.
Covered(s, d) == d[1] = "M" /\ s.MMWP => s.MML

\* MappedWithinPMP by SoundIn.
LEMMA MappedIsSound ==
  MappedWithinPMP <=>
    \A d \in Domain : Covered(mseccfg, d) => SoundIn(mapped, mseccfg, pmpcfg, pmpaddr, d)
<1>1. ASSUME NEW d \in Domain
      PROVE  domainSound(d) <=> SoundIn(mapped, mseccfg, pmpcfg, pmpaddr, d)
  <2>1. \A x : Governs(pmpcfg, pmpaddr, governing(x), x)
    BY GoverningIs
  <2>2. \A x : privAt(d[1], x) = PrivOf(mseccfg, pmpcfg, d[1], governing(x))
    BY DEF privAt, PrivOf
  <2>3. \A x : governing(x) \in 0..NumPMP
    BY <2>1 DEF Governs
  <2>4. \A x, g : Governs(pmpcfg, pmpaddr, g, x) => g = governing(x)
    BY <2>1, GovernsUnique
  <2>5. domainSound(d) => SoundIn(mapped, mseccfg, pmpcfg, pmpaddr, d)
    BY <2>2, <2>4 DEF domainSound, SoundIn
  <2>6. SoundIn(mapped, mseccfg, pmpcfg, pmpaddr, d) => domainSound(d)
    BY <2>1, <2>2, <2>3 DEF domainSound, SoundIn
  <2> QED
    BY <2>5, <2>6
<1> QED
  BY <1>1 DEF MappedWithinPMP, Covered

\* An entry's bytes after a step that keeps the configuration.
LEMMA RegionPrime ==
  ASSUME config' = config, NEW i
  PROVE  region(pmpcfg, pmpaddr, i)' = region(pmpcfg', pmpaddr', i)
<1>1. getEffectivePMPAddr(pmpcfg, pmpaddr, i)' = getEffectivePMPAddr(pmpcfg', pmpaddr', i)
  BY DEF getEffectivePMPAddr, floor
<1>2. getPMPRegionActive(pmpcfg, pmpaddr, i)' <=> getPMPRegionActive(pmpcfg', pmpaddr', i)
  BY <1>1 DEF getPMPRegionActive
<1>3. getPMPEntryBounds(pmpcfg, pmpaddr, i)' = getPMPEntryBounds(pmpcfg', pmpaddr', i)
  BY <1>1 DEF getPMPEntryBounds, floor
<1>4. nonEmpty(pmpcfg, pmpaddr, i)' <=> nonEmpty(pmpcfg', pmpaddr', i)
  BY <1>2, <1>3 DEF nonEmpty
<1> QED
  BY <1>3, <1>4 DEF region

\* MappedWithinPMP after such a step.
LEMMA MappedPrime ==
  ASSUME config' = config
  PROVE  MappedWithinPMP' <=>
           \A d \in Domain : Covered(mseccfg', d)
                             => SoundIn(mapped', mseccfg', pmpcfg', pmpaddr', d)
<1>1. Domain' = Domain
  BY DEF Domain
<1>2. \A g, x : Governs(pmpcfg, pmpaddr, g, x)' <=> Governs(pmpcfg', pmpaddr', g, x)
  BY RegionPrime DEF Governs
<1>3. \A d : SoundIn(mapped, mseccfg, pmpcfg, pmpaddr, d)'
              <=> SoundIn(mapped', mseccfg', pmpcfg', pmpaddr', d)
  BY <1>2 DEF SoundIn, PrivOf, getPMPEntryPriv, getPMPUnmatchedMode
<1>4. (MappedWithinPMP <=>
        \A d \in Domain : Covered(mseccfg, d)
                          => SoundIn(mapped, mseccfg, pmpcfg, pmpaddr, d))'
  BY MappedIsSound, PTL
<1>5. MappedWithinPMP' <=>
        \A d \in Domain' : Covered(mseccfg, d)'
                          => SoundIn(mapped, mseccfg, pmpcfg, pmpaddr, d)'
  BY <1>4
<1>6. \A d : Covered(mseccfg, d)' <=> Covered(mseccfg', d)
  BY DEF Covered
<1> QED
  BY <1>1, <1>3, <1>5, <1>6

-----------------------------------------------------------------------------
(* Steps.                                                                  *)

\* TypeOK gives the types that the lemmas need.
LEMMA TypesOf ==
  ASSUME TypeOK
  PROVE  /\ Regs(pmpcfg, pmpaddr)
         /\ config \in Configs /\ config \in Config
         /\ mseccfg \in [MML : BOOLEAN, MMWP : BOOLEAN, RLB : BOOLEAN]
         /\ mapped \in [Domain -> [Addr -> Priv]]
BY PmpAssumption DEF TypeOK, Regs

\* Every byte in a range of mapAt has the privileges of that range.
LEMMA RangeGives ==
  ASSUME NEW m, NEW x \in Addr, Regs(pmpcfg, pmpaddr), NEW y \in Addr,
         mapAt(m, x).low <= y, y <= mapAt(m, x).high
  PROVE  /\ mapAt(m, x).priv \in Priv
         /\ mapAt(m, x).low \in Int /\ mapAt(m, x).high \in Int
         /\ \A g : Governs(pmpcfg, pmpaddr, g, y)
                   => mapAt(m, x).priv = PrivOf(mseccfg, pmpcfg, m, g)
<1>1. PICK r : r = mapAt(m, x)
  OBVIOUS
<1>2. Refined(m, x, 0, r)
  BY <1>1, MapAtIs
<1>3. PICK p, q \in Nat, pr \in Priv :
        r = [low |-> 4 * p, high |-> 4 * q - 1, priv |-> pr]
  BY <1>2, Zenon DEF Refined
<1>4. PICK g \in 0..NumPMP :
       /\ r.priv = PrivOf(mseccfg, pmpcfg, m, g)
       /\ \A z \in Addr : r.low <= z /\ z <= r.high =>
            /\ g # NumPMP => z \in region(pmpcfg, pmpaddr, g)
            /\ \A j \in Entry : 0 <= j /\ j < g => z \notin region(pmpcfg, pmpaddr, j)
  BY <1>2, Zenon DEF Refined
<1>5. \A j \in Entry : 0 <= j
  BY PmpAssumption DEF Entry
<1>6. Governs(pmpcfg, pmpaddr, g, y)
  BY <1>1, <1>4, <1>5 DEF Governs
<1>7. \A h : Governs(pmpcfg, pmpaddr, h, y) => h = g
  BY <1>6, GovernsUnique
<1>8. r.priv \in Priv /\ r.low \in Int /\ r.high \in Int
  BY <1>3
<1> QED
  BY <1>1, <1>4, <1>7, <1>8

\* Clamping to a page only narrows a range.
LEMMA ClampNarrows ==
  ASSUME NEW low \in Nat, NEW high \in Nat, NEW pr, NEW l \in Int, NEW h \in Int, NEW r,
         r = [low |-> l, high |-> h, priv |-> pr], config \in Config
  PROVE  /\ riscvClampPage(low, high, r).low \in Int /\ riscvClampPage(low, high, r).high \in Int
         /\ riscvClampPage(low, high, r).low >= l
         /\ riscvClampPage(low, high, r).high <= h
         /\ riscvClampPage(low, high, r).priv = pr
<1> DEFINE mp == config.max_page
<1>1. mp \in Nat
  BY DEF Config
<1>2. CASE mp = 0
  BY <1>2 DEF riscvClampPage
<1>3. CASE mp # 0
  <2> DEFINE lo == low - (low % mp)
             hi == high - (high % mp) + mp - 1
  <2>1. lo \in Int /\ hi \in Int
    BY <1>1, <1>3
  <2>2. riscvClampPage(low, high, r) = [r EXCEPT !.low = IF @ < lo THEN lo ELSE @,
                                                 !.high = IF @ > hi THEN hi ELSE @]
    BY <1>3 DEF riscvClampPage
  <2> HIDE DEF lo, hi
  <2>3. riscvClampPage(low, high, r) = [low |-> IF l < lo THEN lo ELSE l,
                                        high |-> IF h > hi THEN hi ELSE h, priv |-> pr]
    BY <2>2
  <2> QED
    BY <2>1, <2>3
<1> QED
  BY <1>2, <1>3

\* A domain is given no more than the privileges of the range.
LEMMA DomainPrivIs ==
  ASSUME NEW d \in Domain, NEW p \in Priv, config \in Config
  PROVE  domainPriv(d, p) \subseteq p /\ domainPriv(d, p) \in Priv
<1>1. config.separate \in BOOLEAN
  BY DEF Config
<1>2. CASE ~config.separate
  BY <1>2 DEF domainPriv
<1>3. CASE config.separate
  <2>1. d[2] \in {"data", "code"}
    BY <1>3 DEF Domain
  <2> QED
    BY <1>3, <2>1 DEF domainPriv, Priv
<1> QED
  BY <1>1, <1>2, <1>3

\* Bytes that an access to low..high grants with the range of address x.
GrantedBytes(m, low, high, x) ==
  LET r == riscvClampPage(low, high, mapAt(m, x)) IN r.low..r.high

\* A byte y of domain d loses its privileges, keeps them, or is given those of
\* a range that it lies in.
ByteEffect(m, low, high, d, y) ==
  \/ mapped'[d][y] \in {{}, mapped[d][y]}
  \/ \E x \in low..high : /\ y \in GrantedBytes(m, low, high, x)
                          /\ mapped'[d][y] = domainPriv(d, mapAt(m, x).priv)

\* This is what mapPMP does, in the domains of its mode.
LEMMA MapEffect ==
  ASSUME NEW m, NEW p, NEW low, NEW high, mapPMP(m, p, low, high)
  PROVE  /\ mapped' = [d \in Domain |-> mapped'[d]]
         /\ \A d \in Domain :
              \/ mapped'[d] = mapped[d]
              \/ /\ d[1] = m
                 /\ mapped'[d] = [y \in Addr |-> mapped'[d][y]]
                 /\ \A y \in Addr : ByteEffect(m, low, high, d, y)
<1> DEFINE maps  == {mapAt(m, x) : x \in low..high}
           first == mapAt(m, low)
           last  == mapAt(m, high)
           clamp(r) == riscvClampPage(low, high, r)
           update(r) == {u \in {"LO", "HI"} :
                           \/ u = "LO" /\ r = first /\ clamp(r).low = r.low
                           \/ u = "HI" /\ r = last /\ clamp(r).high = r.high}
           inner == IF Cardinality(maps) = 1 THEN {} ELSE innerBytes(first, last, low, high)
           cut(regs) == inner \cup UNION {adjacent(clamp(r).low, clamp(r).high, update(r)) : r \in regs}
           bytes(r) == clamp(r).low..clamp(r).high
           regs(d) == {r \in maps : domainPriv(d, r.priv) # {}}
           chosen(d, y) == CHOOSE r \in regs(d) : y \in bytes(r)
           gives(d, y) == \E r \in regs(d) : y \in bytes(r) /\ y \notin cut(regs(d))
           val(d, y) == CASE y \in cut(regs(d)) -> {}
                          [] gives(d, y) -> domainPriv(d, chosen(d, y).priv)
                          [] OTHER -> mapped[d][y]
<1>1. mapped' = [d \in Domain |-> IF d[1] # m THEN mapped[d] ELSE [y \in Addr |-> val(d, y)]]
  BY Zenon DEF mapPMP
<1>2. ASSUME NEW d \in Domain, NEW y \in Addr
      PROVE  \/ val(d, y) \in {{}, mapped[d][y]}
             \/ \E x \in low..high : /\ y \in GrantedBytes(m, low, high, x)
                                     /\ val(d, y) = domainPriv(d, mapAt(m, x).priv)
  <2>1. y \in cut(regs(d)) => ~gives(d, y)
    OBVIOUS
  <2>2. ASSUME gives(d, y)
        PROVE  \E x \in low..high : /\ y \in GrantedBytes(m, low, high, x)
                                    /\ chosen(d, y) = mapAt(m, x)
    <3>1. \E r \in regs(d) : y \in bytes(r)
      BY <2>2
    <3>2. chosen(d, y) \in regs(d) /\ y \in bytes(chosen(d, y))
      <4> DEFINE P(r) == y \in bytes(r)
      <4>1. chosen(d, y) = CHOOSE r \in regs(d) : P(r)
        OBVIOUS
      <4>2. \E r \in regs(d) : P(r)
        BY <3>1
      <4>3. chosen(d, y) \in regs(d) /\ P(chosen(d, y))
        <5> HIDE DEF regs, P, chosen
        <5> QED
          BY <4>1, <4>2, Zenon
      <4> QED
        BY <4>3
    <3>3. PICK x \in low..high : chosen(d, y) = mapAt(m, x)
      <4> HIDE DEF chosen
      <4> QED
        BY <3>2
    <3> HIDE DEF chosen, regs
    <3>4. y \in GrantedBytes(m, low, high, x)
      BY <3>2, <3>3 DEF GrantedBytes
    <3> QED
      BY <3>3, <3>4
  <2> HIDE DEF gives, cut, regs, chosen
  <2> QED
    BY <2>1, <2>2
<1> HIDE DEF val
<1>3. ASSUME NEW d \in Domain
      PROVE  mapped'[d] = IF d[1] # m THEN mapped[d] ELSE [y \in Addr |-> val(d, y)]
  BY <1>1
<1>4. mapped' = [d \in Domain |-> mapped'[d]]
  BY <1>1
<1>5. ASSUME NEW d \in Domain, d[1] = m, NEW y \in Addr
      PROVE  ByteEffect(m, low, high, d, y)
  <2>1. mapped'[d][y] = val(d, y)
    BY <1>3, <1>5
  <2> QED
    BY <1>2, <2>1 DEF ByteEffect
<1> QED
  BY <1>3, <1>4, <1>5

\* An access that misses grants only what the registers give.
LEMMA MapStep ==
  ASSUME TypeOK, MappedWithinPMP, NEW m, NEW p, NEW low \in Addr, NEW high \in Addr,
         mapPMP(m, p, low, high)
  PROVE  /\ mapped' \in [Domain -> [Addr -> Priv]]
         /\ \A d \in Domain : Covered(mseccfg', d)
                              => SoundIn(mapped', mseccfg', pmpcfg', pmpaddr', d)
<1>1. /\ Regs(pmpcfg, pmpaddr) /\ config \in Config
      /\ mapped \in [Domain -> [Addr -> Priv]]
  BY TypesOf
<1>2. pmpcfg' = pmpcfg /\ pmpaddr' = pmpaddr /\ mseccfg' = mseccfg
  BY DEF mapPMP
<1>3. low \in Nat /\ high \in Nat /\ low..high \subseteq Addr /\ {} \in Priv
  BY PmpAssumption DEF Addr, Priv
<1>4. ASSUME NEW d \in Domain, NEW x \in low..high, NEW y \in Addr,
             y \in GrantedBytes(m, low, high, x)
      PROVE  /\ domainPriv(d, mapAt(m, x).priv) \in Priv
             /\ \A g : Governs(pmpcfg, pmpaddr, g, y) =>
                  domainPriv(d, mapAt(m, x).priv) \subseteq PrivOf(mseccfg, pmpcfg, m, g)
  <2>1. x \in Addr
    BY <1>3
  <2>2. Refined(m, x, 0, mapAt(m, x))
    BY <1>1, <2>1, MapAtIs
  <2>3. PICK r : r = mapAt(m, x)
    OBVIOUS
  <2>4. PICK k, q \in Nat, pr \in Priv : r = [low |-> 4 * k, high |-> 4 * q - 1, priv |-> pr]
    BY <2>2, <2>3, Zenon DEF Refined
  <2>5. r.low = 4 * k /\ r.high = 4 * q - 1 /\ 4 * k \in Int /\ 4 * q - 1 \in Int
    BY <2>4
  <2> DEFINE cl == riscvClampPage(low, high, r)
  <2>6. cl.low \in Int /\ cl.high \in Int /\ cl.low >= 4 * k /\ cl.high <= 4 * q - 1
    BY <1>1, <1>3, <2>4, <2>5, ClampNarrows
  <2>7. y \in cl.low..cl.high
    BY <1>4, <2>3 DEF GrantedBytes
  <2> HIDE DEF cl
  <2>8. r.low <= y /\ y <= r.high
    BY <2>5, <2>6, <2>7
  <2>9. r.priv \in Priv /\ \A g : Governs(pmpcfg, pmpaddr, g, y)
                                  => r.priv = PrivOf(mseccfg, pmpcfg, m, g)
    BY <1>1, <2>1, <2>3, <2>8, RangeGives
  <2>10. domainPriv(d, r.priv) \subseteq r.priv /\ domainPriv(d, r.priv) \in Priv
    BY <1>1, <2>9, DomainPrivIs
  <2> QED
    BY <2>3, <2>9, <2>10
<1>5. ASSUME NEW d \in Domain PROVE mapped'[d] \in [Addr -> Priv]
  <2>1. CASE mapped'[d] = mapped[d]
    BY <1>1, <2>1
  <2>2. CASE mapped'[d] # mapped[d]
    <3>1. mapped'[d] = [y \in Addr |-> mapped'[d][y]]
      BY <2>2, MapEffect
    <3>2. ASSUME NEW y \in Addr PROVE mapped'[d][y] \in Priv
      <4>1. ByteEffect(m, low, high, d, y)
        BY <2>2, MapEffect, Zenon
      <4>2. mapped[d][y] \in Priv
        BY <1>1
      <4>3. CASE mapped'[d][y] \in {{}, mapped[d][y]}
        BY <1>3, <4>2, <4>3
      <4>4. CASE ~(mapped'[d][y] \in {{}, mapped[d][y]})
        <5>1. PICK x \in low..high : /\ y \in GrantedBytes(m, low, high, x)
                                     /\ mapped'[d][y] = domainPriv(d, mapAt(m, x).priv)
          BY <4>1, <4>4 DEF ByteEffect
        <5>2. domainPriv(d, mapAt(m, x).priv) \in Priv
          BY <1>4, <5>1
        <5> QED
          BY <5>1, <5>2
      <4> QED
        BY <4>3, <4>4
    <3> QED
      BY <3>1, <3>2
  <2> QED
    BY <2>1, <2>2
<1>6. ASSUME NEW d \in Domain, Covered(mseccfg', d)
      PROVE  SoundIn(mapped', mseccfg, pmpcfg, pmpaddr, d)
  <2>1. SoundIn(mapped, mseccfg, pmpcfg, pmpaddr, d)
    BY <1>2, <1>6, MappedIsSound
  <2>2. CASE mapped'[d] = mapped[d]
    BY <2>1, <2>2 DEF SoundIn
  <2>3. CASE mapped'[d] # mapped[d]
    <3>1. d[1] = m
      BY <2>3, MapEffect
    <3> SUFFICES ASSUME NEW y \in Addr, NEW g \in 0..NumPMP, Governs(pmpcfg, pmpaddr, g, y)
                 PROVE  mapped'[d][y] \subseteq PrivOf(mseccfg, pmpcfg, d[1], g)
      BY DEF SoundIn
    <3>2. ByteEffect(m, low, high, d, y)
      BY <2>3, MapEffect, Zenon
    <3>3. mapped[d][y] \subseteq PrivOf(mseccfg, pmpcfg, d[1], g)
      BY <2>1 DEF SoundIn
    <3>4. CASE mapped'[d][y] \in {{}, mapped[d][y]}
      BY <3>3, <3>4
    <3>5. CASE ~(mapped'[d][y] \in {{}, mapped[d][y]})
      <4>1. PICK x \in low..high : /\ y \in GrantedBytes(m, low, high, x)
                                   /\ mapped'[d][y] = domainPriv(d, mapAt(m, x).priv)
        BY <3>2, <3>5 DEF ByteEffect
      <4>2. domainPriv(d, mapAt(m, x).priv) \subseteq PrivOf(mseccfg, pmpcfg, m, g)
        BY <1>4, <4>1
      <4> QED
        BY <3>1, <4>1, <4>2
    <3> QED
      BY <3>4, <3>5
  <2> QED
    BY <2>2, <2>3
<1> QED
  BY <1>2, <1>5, <1>6, MapEffect

\* unmap takes the privileges of the bytes lost, and leaves the others.
LEMMA UnmapIs ==
  ASSUME TypeOK, NEW lost, mapped' = unmap(lost)
  PROVE  /\ mapped' \in [Domain -> [Addr -> Priv]]
         /\ \A d \in Domain, x \in Addr :
              mapped'[d][x] = IF x \in lost[d[1]] THEN {} ELSE mapped[d][x]
<1>1. mapped \in [Domain -> [Addr -> Priv]] /\ {} \in Priv
  BY TypesOf DEF Priv
<1> DEFINE val(d, x) == IF x \in lost[d[1]] THEN {} ELSE mapped[d][x]
<1>2. mapped' = [d \in Domain |-> [x \in Addr |-> val(d, x)]]
  BY DEF unmap
<1>3. \A d \in Domain, x \in Addr : val(d, x) \in Priv
  BY <1>1
<1>4. \A d \in Domain, x \in Addr : mapped'[d][x] = val(d, x)
  BY <1>2
<1> HIDE DEF val
<1>5. mapped' \in [Domain -> [Addr -> Priv]]
  BY <1>2, <1>3
<1> QED
  BY <1>4, <1>5 DEF val

\* Entry i, or the bytes it covers, is not what decides at x under c, a and
\* under e, b: either it is the same under both, or x is in neither region.
Indifferent(c, a, e, b, x, i) ==
  \/ c[i] = e[i] /\ region(c, a, i) = region(e, b, i)
  \/ x \notin region(c, a, i) /\ x \notin region(e, b, i)

\* Then the same entry has priority at x before and after.
LEMMA KeepsPriority ==
  ASSUME NEW c, NEW a, NEW e, NEW b, NEW x, NEW g, Governs(e, b, g, x),
         \A i \in Entry : i <= g => Indifferent(c, a, e, b, x, i)
  PROVE  Governs(c, a, g, x) /\ (g # NumPMP => c[g] = e[g])
<1>1. g \in 0..NumPMP /\ g \in Nat /\ NumPMP \in Nat
  BY PmpAssumption DEF Governs
<1>2. g # NumPMP => g \in Entry /\ g <= g
  BY <1>1 DEF Entry
<1>3. \A j \in Entry : j < g => j <= g
  BY <1>1 DEF Entry
<1> QED
  BY <1>1, <1>2, <1>3 DEF Governs, Indifferent

\* Checks of mode m at an address that g governs depend on the entries.
Checked(s, m, c, g) == m = "S" \/ s.MML \/ (g # NumPMP /\ c[g].L)

\* Where they do not, M mode may do anything.
LEMMA UncheckedAll ==
  ASSUME NEW s \in [MML : BOOLEAN, MMWP : BOOLEAN, RLB : BOOLEAN], NEW c, NEW d \in Domain,
         NEW g, Covered(s, d), ~Checked(s, d[1], c, g)
  PROVE  PrivOf(s, c, d[1], g) = RWX
<1>1. d[1] = "M" /\ ~s.MML /\ ~s.MMWP
  BY DEF Checked, Covered, Domain, Mode
<1>2. CASE g = NumPMP
  BY <1>1, <1>2 DEF PrivOf, getPMPUnmatchedMode
<1>3. CASE g # NumPMP
  <2>1. ~c[g].L
    BY <1>3 DEF Checked
  <2>2. noReserved(RWX) = RWX
    BY DEF noReserved, RWX
  <2> QED
    BY <1>1, <1>3, <2>1, <2>2 DEF PrivOf, getPMPEntryPriv
<1> QED
  BY <1>2, <1>3

\* A byte that is mapped after the step was mapped before, and governed by the
\* same entry as under c and a where checks depend on that.
GovernorKept(c, a) ==
  \A d \in Domain, x \in Addr : mapped'[d][x] # {} =>
    /\ mapped[d][x] # {}
    /\ \A g : Governs(c, a, g, x) /\ Checked(mseccfg, d[1], c, g)
              => Governs(pmpcfg, pmpaddr, g, x)

\* A register write keeps the mapping sound if the bytes it does not unmap
\* have the same entry before and after, wherever checks depend on entries.
LEMMA WriteStep ==
  ASSUME TypeOK, MappedWithinPMP, NEW lost, mapped' = unmap(lost), NEW c, NEW a,
         ASSUME NEW d \in Domain, NEW x \in Addr, NEW g, Governs(c, a, g, x),
                Checked(mseccfg, d[1], c, g), x \notin lost[d[1]], NEW i \in Entry, i <= g
         PROVE  Indifferent(pmpcfg, pmpaddr, c, a, x, i)
  PROVE  /\ \A d \in Domain : Covered(mseccfg, d) => SoundIn(mapped', mseccfg, c, a, d)
         /\ GovernorKept(c, a)
<1>0. GovernorKept(c, a)
  <2> SUFFICES ASSUME NEW d \in Domain, NEW x \in Addr, mapped'[d][x] # {}
               PROVE  /\ mapped[d][x] # {}
                      /\ \A g : Governs(c, a, g, x) /\ Checked(mseccfg, d[1], c, g)
                                => Governs(pmpcfg, pmpaddr, g, x)
    BY Zenon DEF GovernorKept
  <2>1. mapped'[d][x] = IF x \in lost[d[1]] THEN {} ELSE mapped[d][x]
    BY UnmapIs
  <2>2. x \notin lost[d[1]] /\ mapped[d][x] # {}
    BY <2>1
  <2>3. ASSUME NEW g, Governs(c, a, g, x), Checked(mseccfg, d[1], c, g)
        PROVE  Governs(pmpcfg, pmpaddr, g, x)
    <3>1. \A i \in Entry : i <= g => Indifferent(pmpcfg, pmpaddr, c, a, x, i)
      BY <2>2, <2>3
    <3> QED
      BY <2>3, <3>1, KeepsPriority
  <2> QED
    BY <2>2, <2>3
<1> SUFFICES ASSUME NEW d \in Domain, Covered(mseccfg, d),
                    NEW x \in Addr, NEW g \in 0..NumPMP, Governs(c, a, g, x)
             PROVE  mapped'[d][x] \subseteq PrivOf(mseccfg, c, d[1], g)
  BY <1>0 DEF SoundIn
<1>1. mapped \in [Domain -> [Addr -> Priv]]
      /\ mseccfg \in [MML : BOOLEAN, MMWP : BOOLEAN, RLB : BOOLEAN]
  BY TypesOf
<1>2. mapped'[d][x] = IF x \in lost[d[1]] THEN {} ELSE mapped[d][x]
  BY UnmapIs
<1>3. CASE x \in lost[d[1]]
  BY <1>2, <1>3
<1>4. CASE x \notin lost[d[1]] /\ ~Checked(mseccfg, d[1], c, g)
  <2>1. PrivOf(mseccfg, c, d[1], g) = RWX
    BY <1>1, <1>4, UncheckedAll
  <2>2. mapped[d][x] \in Priv
    BY <1>1
  <2> QED
    BY <1>2, <1>4, <2>1, <2>2 DEF Priv, RWX
<1>5. CASE x \notin lost[d[1]] /\ Checked(mseccfg, d[1], c, g)
  <2>1. \A i \in Entry : i <= g => Indifferent(pmpcfg, pmpaddr, c, a, x, i)
    BY <1>5
  <2>2. Governs(pmpcfg, pmpaddr, g, x) /\ (g # NumPMP => pmpcfg[g] = c[g])
    BY <2>1, KeepsPriority
  <2>3. PrivOf(mseccfg, c, d[1], g) = PrivOf(mseccfg, pmpcfg, d[1], g)
    BY <2>2 DEF PrivOf
  <2>4. SoundIn(mapped, mseccfg, pmpcfg, pmpaddr, d)
    BY MappedIsSound
  <2>5. mapped[d][x] \subseteq PrivOf(mseccfg, pmpcfg, d[1], g)
    BY <2>2, <2>4 DEF SoundIn
  <2> QED
    BY <1>2, <1>5, <2>3, <2>5
<1> QED
  BY <1>3, <1>4, <1>5

\* Invalidating an entry unmaps all its bytes if the mode uses it or an entry
\* g of lower priority.
LEMMA Invalidates ==
  ASSUME NEW s, NEW c, NEW a, NEW i, NEW m, NEW g,
         \/ m = "S" \/ s.MML \/ c[i].L
         \/ g \in Entry /\ g > i /\ c[g].L /\ c[g].mode # "OFF"
  PROVE  invalidatePMPEntry(s, c, a, i, m) = region(c, a, i)
<1>1. CASE m = "S" \/ s.MML \/ c[i].L
  BY <1>1 DEF invalidatePMPEntry, usePMPEntryMMode
<1>2. CASE g \in Entry /\ g > i /\ c[g].L /\ c[g].mode # "OFF"
  BY <1>2 DEF invalidatePMPEntry, useLowerPriorityPMPEntryMMode, usePMPEntryMMode
<1> QED
  BY <1>1, <1>2

\* An entry with bytes is not off.
LEMMA NotOff ==
  ASSUME NEW c, NEW a, NEW i, NEW x, x \in region(c, a, i)
  PROVE  c[i].mode # "OFF"
BY DEF region, nonEmpty, getPMPRegionActive

\* Values that entries take are legal values.
LEMMA LegalCFGIs ==
  ASSUME TypeOK, NEW i \in Entry, NEW src \in Cfg
  PROVE  /\ legalCFG(i, src) \in Cfg
         /\ ~mseccfg.MML => legalCFG(i, src).priv = noReserved(legalCFG(i, src).priv)
         /\ config.grain > 0 => legalCFG(i, src).mode # "NA4"
<1> DEFINE dst == pmpcfg[i]
           addsLockedX == /\ config.Smepmp /\ mseccfg.MML /\ ~mseccfg.RLB /\ src.L
                          /\ "X" \in mapMML1ML1[src.priv]
           new == IF addsLockedX THEN dst ELSE src
           pr == IF config.Smepmp /\ mseccfg.MML THEN new.priv ELSE noReserved(new.priv)
           md == IF config.grain > 0 /\ new.mode = "NA4" THEN dst.mode ELSE new.mode
<1>1. dst \in Cfg /\ (config.grain > 0 => dst.mode # "NA4")
  BY DEF TypeOK, legalEntry
<1>2. new \in Cfg
  BY <1>1
<1>3. legalCFG(i, src) = [new EXCEPT !.priv = pr, !.mode = md]
  BY DEF legalCFG
<1>4. \A p \in Priv : noReserved(p) \in Priv /\ noReserved(noReserved(p)) = noReserved(p)
  BY DEF noReserved, Priv
<1> HIDE DEF new
<1>5. new.priv \in Priv /\ new.mode \in {"OFF", "TOR", "NA4", "NAPOT"} /\ new.L \in BOOLEAN
  BY <1>2 DEF Cfg
<1>6. pr \in Priv /\ (~mseccfg.MML => pr = noReserved(pr))
  BY <1>4, <1>5
<1>7. md \in {"OFF", "TOR", "NA4", "NAPOT"} /\ (config.grain > 0 => md # "NA4")
  BY <1>1, <1>5 DEF Cfg
<1> HIDE DEF pr, md
<1>8. legalCFG(i, src) = [priv |-> pr, mode |-> md, L |-> new.L]
  BY <1>2, <1>3 DEF Cfg
<1> QED
  BY <1>5, <1>6, <1>7, <1>8 DEF Cfg

\* Writing pmpcfg keeps the mapping sound.
LEMMA CfgStep ==
  ASSUME TypeOK, MappedWithinPMP, NEW r, NEW src \in [cfgEntries(r) -> CfgValues],
         riscvVMWritePMPCFG(r, src)
  PROVE  /\ mapped' \in [Domain -> [Addr -> Priv]]
         /\ pmpcfg' \in [Entry -> Cfg]
         /\ \A d \in Domain : Covered(mseccfg', d)
                              => SoundIn(mapped', mseccfg', pmpcfg', pmpaddr', d)
         /\ GovernorKept(pmpcfg', pmpaddr')
<1> DEFINE new == [i \in Entry |-> IF i \in cfgEntries(r) /\ ~pmpLocked(i)
                                   THEN legalCFG(i, src[i]) ELSE pmpcfg[i]]
           changed == {i \in Entry : new[i] # pmpcfg[i]}
           from(k) == [i \in Entry |-> IF i >= k THEN new[i] ELSE pmpcfg[i]]
           gone(m, i) == invalidatePMPEntry(mseccfg, from(i + 1), pmpaddr, i, m)
                           \cup invalidatePMPEntry(mseccfg, from(i), pmpaddr, i, m)
           lost == [m \in Mode |-> UNION {gone(m, i) : i \in changed}]
<1>1. pmpcfg' = new /\ mapped' = unmap(lost) /\ pmpaddr' = pmpaddr /\ mseccfg' = mseccfg
  BY Zenon DEF riscvVMWritePMPCFG
<1>2. Regs(pmpcfg, pmpaddr)
  BY TypesOf
<1>3. new \in [Entry -> Cfg]
  <2>1. ASSUME NEW i \in Entry, i \in cfgEntries(r) PROVE legalCFG(i, src[i]) \in Cfg
    <3>1. src[i] \in Cfg
      BY <2>1, PmpAssumption
    <3> QED
      BY <3>1, LegalCFGIs
  <2> QED
    BY <1>2, <2>1 DEF Regs
<1> HIDE DEF new
<1>4. ASSUME NEW d \in Domain, NEW x \in Addr, NEW g, Governs(new, pmpaddr, g, x),
             Checked(mseccfg, d[1], new, g), x \notin lost[d[1]], NEW i \in Entry, i <= g
      PROVE  Indifferent(pmpcfg, pmpaddr, new, pmpaddr, x, i)
  <2>1. CASE i \notin changed
    <3>1. new[i] = pmpcfg[i] /\ pmpcfg[i] \in Cfg
      BY <1>2, <2>1 DEF Regs
    <3> QED
      BY <3>1, RegionSame DEF Indifferent
  <2>2. CASE i \in changed
    <3>1. d[1] \in Mode /\ i \in Nat /\ g \in 0..NumPMP /\ NumPMP \in Nat
      BY <1>4, PmpAssumption DEF Domain, Governs, Entry
    <3>2. x \notin gone(d[1], i)
      <4> HIDE DEF gone, changed
      <4>1. lost[d[1]] = UNION {gone(d[1], j) : j \in changed}
        BY <3>1
      <4> HIDE DEF lost
      <4> QED
        BY <1>4, <2>2, <4>1
    <3>3. from(i + 1)[i] = pmpcfg[i] /\ from(i)[i] = new[i] /\ pmpcfg[i] \in Cfg /\ new[i] \in Cfg
      BY <1>2, <1>3, <3>1 DEF Regs
    <3>4. /\ region(from(i + 1), pmpaddr, i) = region(pmpcfg, pmpaddr, i)
          /\ region(from(i), pmpaddr, i) = region(new, pmpaddr, i)
      <4> HIDE DEF from
      <4> QED
        BY <3>3, RegionSame
    <3>5. CASE d[1] = "S" \/ mseccfg.MML
      <4> HIDE DEF from
      <4>1. gone(d[1], i) = region(from(i + 1), pmpaddr, i) \cup region(from(i), pmpaddr, i)
        <5>1. ASSUME NEW c
              PROVE  invalidatePMPEntry(mseccfg, c, pmpaddr, i, d[1]) = region(c, pmpaddr, i)
          <6>1. \/ d[1] = "S" \/ mseccfg.MML \/ c[i].L
                \/ g \in Entry /\ g > i /\ c[g].L /\ c[g].mode # "OFF"
            BY <3>5
          <6> QED
            BY <6>1, Invalidates
        <5> QED
          BY <5>1
      <4> QED
        BY <3>2, <3>4, <4>1 DEF Indifferent
    <3>6. CASE g # NumPMP /\ new[g].L
      <4>1. g \in Entry /\ x \in region(new, pmpaddr, g)
        BY <1>4, <3>1, <3>6 DEF Governs, Entry
      <4>2. new[g].mode # "OFF"
        BY <4>1, NotOff
      <4>3. CASE i = g
        <5>1. from(i)[i].L
          BY <3>3, <3>6, <4>3
        <5>2. invalidatePMPEntry(mseccfg, from(i), pmpaddr, i, d[1]) = region(from(i), pmpaddr, i)
          <6> HIDE DEF from
          <6> QED
            BY <5>1, Invalidates
        <5> HIDE DEF from
        <5> QED
          BY <3>2, <3>4, <4>1, <4>3, <5>2
      <4>4. CASE i # g
        <5>1. g > i /\ from(i + 1)[g] = new[g] /\ from(i)[g] = new[g]
          BY <1>4, <3>1, <4>1, <4>4
        <5> HIDE DEF from
        <5>2. invalidatePMPEntry(mseccfg, from(i), pmpaddr, i, d[1]) = region(from(i), pmpaddr, i)
          BY <3>6, <4>1, <4>2, <5>1, Invalidates
        <5>3. invalidatePMPEntry(mseccfg, from(i + 1), pmpaddr, i, d[1])
                = region(from(i + 1), pmpaddr, i)
          BY <3>6, <4>1, <4>2, <5>1, Invalidates
        <5> QED
          BY <3>2, <3>4, <5>2, <5>3 DEF Indifferent
      <4> QED
        BY <4>3, <4>4
    <3> QED
      BY <1>4, <3>5, <3>6 DEF Checked
  <2> QED
    BY <2>1, <2>2
<1> HIDE DEF lost
<1>5. /\ \A d \in Domain : Covered(mseccfg, d) => SoundIn(mapped', mseccfg, new, pmpaddr, d)
      /\ GovernorKept(new, pmpaddr)
  BY <1>1, <1>4, WriteStep
<1>6. mapped' \in [Domain -> [Addr -> Priv]]
  BY <1>1, UnmapIs
<1> QED
  BY <1>1, <1>3, <1>5, <1>6

\* Writing pmpaddr keeps the mapping sound: only entry i, and the one above if
\* it is TOR, cover other bytes afterwards.
LEMMA AddrStep ==
  ASSUME TypeOK, MappedWithinPMP, NEW k \in Entry, NEW v \in AddrValues,
         riscvVMWritePMPAddr(k, v)
  PROVE  /\ mapped' \in [Domain -> [Addr -> Priv]]
         /\ \A d \in Domain : Covered(mseccfg', d)
                              => SoundIn(mapped', mseccfg', pmpcfg', pmpaddr', d)
         /\ GovernorKept(pmpcfg', pmpaddr')
<1> DEFINE new == [pmpaddr EXCEPT ![k] = maskPMPAddr(v)]
           gone(m, a) == invalidatePMPEntry(mseccfg, pmpcfg, a, k, m)
                           \cup invalidatePMPEntryTOR(mseccfg, pmpcfg, a, k + 1, m)
           lost == [m \in Mode |-> UNION {gone(m, a) : a \in {pmpaddr, new}}]
<1>1. pmpaddr' = new /\ mapped' = unmap(lost) /\ pmpcfg' = pmpcfg /\ mseccfg' = mseccfg
  BY Zenon DEF riscvVMWritePMPAddr
<1>2. Regs(pmpcfg, pmpaddr)
  BY TypesOf
<1>3. \A j \in Entry : j # k => new[j] = pmpaddr[j]
  BY <1>2 DEF Regs
<1> HIDE DEF new
<1>4. ASSUME NEW d \in Domain, NEW x \in Addr, NEW g, Governs(pmpcfg, new, g, x),
             Checked(mseccfg, d[1], pmpcfg, g), x \notin lost[d[1]], NEW i \in Entry, i <= g
      PROVE  Indifferent(pmpcfg, pmpaddr, pmpcfg, new, x, i)
  <2>1. d[1] \in Mode /\ i \in Nat /\ k \in Nat /\ g \in 0..NumPMP /\ NumPMP \in Nat
    BY <1>4, PmpAssumption DEF Domain, Governs, Entry
  <2>2. pmpcfg[i] \in Cfg
    BY <1>2 DEF Regs
  <2>3. CASE ~(i = k \/ (i = k + 1 /\ pmpcfg[i].mode = "TOR"))
    <3>1. new[i] = pmpaddr[i]
      BY <1>3, <2>3
    <3>2. i # 0 /\ pmpcfg[i].mode = "TOR" => new[i - 1] = pmpaddr[i - 1]
      <4>1. i # 0 => i - 1 \in Entry
        BY <2>1 DEF Entry
      <4>2. pmpcfg[i].mode = "TOR" => i - 1 # k
        BY <2>1, <2>3
      <4> QED
        BY <1>3, <4>1, <4>2
    <3> QED
      BY <2>2, <3>1, <3>2, RegionSame DEF Indifferent
  <2>4. CASE i = k \/ (i = k + 1 /\ pmpcfg[i].mode = "TOR")
    <3>1. ASSUME NEW a \in {pmpaddr, new}
          PROVE  x \notin invalidatePMPEntry(mseccfg, pmpcfg, a, i, d[1])
      <4>1. x \notin gone(d[1], a)
        <5> HIDE DEF gone
        <5>1. lost[d[1]] = UNION {gone(d[1], b) : b \in {pmpaddr, new}}
          BY <2>1
        <5> HIDE DEF lost
        <5> QED
          BY <1>4, <3>1, <5>1
      <4> QED
        BY <2>4, <4>1 DEF invalidatePMPEntryTOR
    <3>2. \/ d[1] = "S" \/ mseccfg.MML \/ pmpcfg[i].L
          \/ g \in Entry /\ g > i /\ pmpcfg[g].L /\ pmpcfg[g].mode # "OFF"
      <4>1. CASE g # NumPMP /\ pmpcfg[g].L
        <5>1. g \in Entry /\ x \in region(pmpcfg, new, g)
          BY <1>4, <2>1, <4>1 DEF Governs, Entry
        <5>2. pmpcfg[g].mode # "OFF"
          BY <5>1, NotOff
        <5>3. i = g \/ g > i
          BY <1>4, <2>1
        <5> QED
          BY <4>1, <5>1, <5>2, <5>3
      <4> QED
        BY <1>4, <4>1 DEF Checked
    <3>3. \A a : invalidatePMPEntry(mseccfg, pmpcfg, a, i, d[1]) = region(pmpcfg, a, i)
      BY <3>2, Invalidates
    <3> QED
      BY <3>1, <3>3 DEF Indifferent
  <2> QED
    BY <2>3, <2>4
<1> HIDE DEF lost
<1>5. /\ \A d \in Domain : Covered(mseccfg, d) => SoundIn(mapped', mseccfg, pmpcfg, new, d)
      /\ GovernorKept(pmpcfg, new)
  BY <1>1, <1>4, WriteStep
<1>6. mapped' \in [Domain -> [Addr -> Priv]]
  BY <1>1, UnmapIs
<1> QED
  BY <1>1, <1>5, <1>6

\* Writing mseccfg keeps the mapping sound.
LEMMA SecStep ==
  ASSUME TypeOK, MappedWithinPMP, NEW v \in [MML : BOOLEAN, MMWP : BOOLEAN, RLB : BOOLEAN],
         mseccfgW(v)
  PROVE  /\ mapped' \in [Domain -> [Addr -> Priv]]
         /\ mseccfg' \in [MML : BOOLEAN, MMWP : BOOLEAN, RLB : BOOLEAN]
         /\ mseccfg.MML => mseccfg'.MML
         /\ \A d \in Domain : Covered(mseccfg', d)
                              => SoundIn(mapped', mseccfg', pmpcfg', pmpaddr', d)
<1>1. pmpcfg' = pmpcfg /\ pmpaddr' = pmpaddr
  BY DEF mseccfgW
<1>2. /\ mseccfg \in [MML : BOOLEAN, MMWP : BOOLEAN, RLB : BOOLEAN]
      /\ mapped \in [Domain -> [Addr -> Priv]]
  BY TypesOf
<1>3. /\ mseccfg' \in [MML : BOOLEAN, MMWP : BOOLEAN, RLB : BOOLEAN]
      /\ mseccfg.MML => mseccfg'.MML
  BY <1>2 DEF mseccfgW
<1>4. CASE mseccfg'.MML = mseccfg.MML /\ mseccfg'.MMWP = mseccfg.MMWP
  <2>1. mapped' = mapped
    BY <1>4 DEF mseccfgW
  <2>2. \A m, g : PrivOf(mseccfg', pmpcfg, m, g) = PrivOf(mseccfg, pmpcfg, m, g)
    BY <1>4 DEF PrivOf, getPMPEntryPriv, getPMPUnmatchedMode
  <2>3. \A d \in Domain : Covered(mseccfg', d) => Covered(mseccfg, d)
    BY <1>4 DEF Covered
  <2>4. \A d \in Domain : Covered(mseccfg, d)
                          => SoundIn(mapped, mseccfg, pmpcfg, pmpaddr, d)
    BY MappedIsSound
  <2> QED
    BY <1>1, <1>2, <1>3, <2>1, <2>2, <2>3, <2>4 DEF SoundIn
<1>5. CASE ~(mseccfg'.MML = mseccfg.MML /\ mseccfg'.MMWP = mseccfg.MMWP)
  <2> DEFINE lost == [m \in Mode |-> Addr]
  <2>1. mapped' = unmap(lost)
    BY <1>5 DEF mseccfgW
  <2>2. \A d \in Domain : lost[d[1]] = Addr
    BY DEF Domain
  <2> HIDE DEF lost
  <2>3. mapped' \in [Domain -> [Addr -> Priv]]
    BY <2>1, UnmapIs
  <2>4. \A d \in Domain, x \in Addr : mapped'[d][x] = {}
    BY <2>1, <2>2, UnmapIs
  <2>5. \A d \in Domain : SoundIn(mapped', mseccfg', pmpcfg', pmpaddr', d)
    BY <2>4 DEF SoundIn
  <2> QED
    BY <1>3, <2>3, <2>5
<1> QED
  BY <1>4, <1>5

\* Reset invalidates each entry with the address registers below it cleared:
\* that covers at least its old bytes.
LEMMA ResetCovers ==
  ASSUME Regs(pmpcfg, pmpaddr), NEW i \in Entry, NEW a, a[i] = pmpaddr[i],
         i # 0 => a[i - 1] = 0
  PROVE  region(pmpcfg, pmpaddr, i) \subseteq region(pmpcfg, a, i)
<1>1. pmpcfg[i] \in Cfg
  BY DEF Regs
<1>2. CASE pmpcfg[i].mode # "TOR" \/ i = 0
  BY <1>1, <1>2, RegionSame
<1>3. CASE pmpcfg[i].mode = "TOR" /\ i # 0
  <2> DEFINE eff == getEffectivePMPAddr(pmpcfg, pmpaddr, i)
             lo == floor(pmpaddr[i - 1], config.grain)
  <2>1. i - 1 \in Entry /\ config.grain \in Nat /\ pmpaddr[i - 1] \in Nat
    <3>1. i - 1 \in Entry
      BY <1>3, PmpAssumption DEF Entry
    <3> QED
      BY <3>1, PmpAssumption DEF Regs, Config, PmpAddr
  <2>2. eff \in Nat /\ lo \in Nat
    BY <2>1, EffectiveIs, FloorIs
  <2>3. floor(0, config.grain) = 0
    <3>1. floor(0, config.grain) \in Nat /\ floor(0, config.grain) <= 0
      BY <2>1, FloorIs
    <3> QED
      BY <3>1
  <2>4. getEffectivePMPAddr(pmpcfg, a, i) = eff
    BY DEF getEffectivePMPAddr
  <2> HIDE DEF eff, lo
  <2>5. getPMPEntryBounds(pmpcfg, pmpaddr, i) = <<4 * lo, 4 * eff - 1>>
    BY <1>3 DEF getPMPEntryBounds, eff, lo
  <2>6. getPMPEntryBounds(pmpcfg, a, i) = <<4 * 0, 4 * eff - 1>>
    BY <1>3, <2>3, <2>4 DEF getPMPEntryBounds
  <2>7. nonEmpty(pmpcfg, pmpaddr, i) => nonEmpty(pmpcfg, a, i)
    BY <1>3, <2>2, <2>4, <2>5, <2>6 DEF nonEmpty, getPMPRegionActive, eff
  <2>8. CASE nonEmpty(pmpcfg, pmpaddr, i)
    <3>1. \A y \in Addr : y \in region(pmpcfg, pmpaddr, i) <=> 4 * lo <= y /\ y <= 4 * eff - 1
      BY <2>2, <2>5, <2>8, RegionIs
    <3>2. \A y \in Addr : y \in region(pmpcfg, a, i) <=> 4 * 0 <= y /\ y <= 4 * eff - 1
      BY <2>2, <2>6, <2>7, <2>8, RegionIs
    <3>3. region(pmpcfg, pmpaddr, i) \subseteq Addr
      BY DEF region
    <3>4. \A y \in Addr : 4 * lo <= y => 4 * 0 <= y
      BY <2>2, PmpAssumption DEF Addr
    <3> QED
      BY <3>1, <3>2, <3>3, <3>4
  <2>9. CASE ~nonEmpty(pmpcfg, pmpaddr, i)
    BY <2>9 DEF region
  <2> QED
    BY <2>8, <2>9
<1> QED
  BY <1>2, <1>3

\* Entries that are off have no bytes.
LEMMA OffEmpty ==
  ASSUME NEW c, NEW a, NEW i, c[i] = NoCfg
  PROVE  region(c, a, i) = {}
BY DEF NoCfg, region, nonEmpty, getPMPRegionActive

\* Reset keeps the mapping sound.
LEMMA ResetStep ==
  ASSUME TypeOK, MappedWithinPMP, riscvVMResetPMP
  PROVE  /\ mapped' \in [Domain -> [Addr -> Priv]]
         /\ \A d \in Domain : Covered(mseccfg', d)
                              => SoundIn(mapped', mseccfg', pmpcfg', pmpaddr', d)
<1> DEFINE from(k) == [j \in Entry |-> IF j < k THEN 0 ELSE pmpaddr[j]]
           gone(m, i) == invalidatePMPEntry(mseccfg, pmpcfg, from(i), i, m)
           lost == [m \in Mode |-> UNION {gone(m, i) : i \in Entry}]
<1>1. /\ pmpcfg' = [i \in Entry |-> NoCfg] /\ mseccfg' = NoSec
      /\ mapped' = unmap(lost)
  BY Zenon DEF riscvVMResetPMP
<1>2. Regs(pmpcfg, pmpaddr) /\ mapped \in [Domain -> [Addr -> Priv]]
  BY TypesOf
<1>3. ASSUME NEW d \in Domain, NEW x \in Addr, NEW g \in 0..NumPMP,
             Governs(pmpcfg', pmpaddr', g, x)
      PROVE  mapped'[d][x] \subseteq PrivOf(mseccfg', pmpcfg', d[1], g)
  <2>1. g = NumPMP
    <3> SUFFICES ASSUME g # NumPMP PROVE FALSE
      OBVIOUS
    <3>1. g \in Entry /\ x \in region(pmpcfg', pmpaddr', g)
      BY <1>3, PmpAssumption DEF Governs, Entry
    <3>2. pmpcfg'[g] = NoCfg
      BY <1>1, <3>1
    <3>3. region(pmpcfg', pmpaddr', g) = {}
      BY <3>2, OffEmpty
    <3> QED
      BY <3>1, <3>3
  <2>2. mapped'[d][x] = IF x \in lost[d[1]] THEN {} ELSE mapped[d][x]
    <3> HIDE DEF lost
    <3> QED
      BY <1>1, UnmapIs
  <2>3. CASE d[1] = "M"
    <3>1. PrivOf(mseccfg', pmpcfg', d[1], g) = RWX
      BY <1>1, <2>1, <2>3 DEF PrivOf, getPMPUnmatchedMode, NoSec
    <3>2. mapped[d][x] \in Priv
      BY <1>2
    <3> HIDE DEF lost
    <3> QED
      BY <2>2, <3>1, <3>2 DEF Priv, RWX
  <2>4. CASE d[1] # "M" /\ x \notin lost[d[1]]
    <3>1. d[1] = "S"
      BY <2>4 DEF Domain, Mode
    <3>2. ASSUME NEW i \in Entry PROVE x \notin region(pmpcfg, pmpaddr, i)
      <4>1. x \notin gone(d[1], i)
        <5> HIDE DEF gone
        <5>1. lost[d[1]] = UNION {gone(d[1], j) : j \in Entry}
          BY <3>1 DEF Mode
        <5> HIDE DEF lost
        <5> QED
          BY <2>4, <5>1
      <4>2. gone(d[1], i) = region(pmpcfg, from(i), i)
        <5> HIDE DEF from
        <5> QED
          BY <3>1 DEF invalidatePMPEntry
      <4>3. i \in Nat /\ (i # 0 => i - 1 \in Entry /\ i - 1 < i)
        BY PmpAssumption DEF Entry
      <4>4. from(i)[i] = pmpaddr[i] /\ (i # 0 => from(i)[i - 1] = 0)
        BY <4>3
      <4> HIDE DEF from, gone
      <4>5. region(pmpcfg, pmpaddr, i) \subseteq region(pmpcfg, from(i), i)
        BY <1>2, <4>4, ResetCovers
      <4> QED
        BY <4>1, <4>2, <4>5
    <3>3. Governs(pmpcfg, pmpaddr, NumPMP, x)
      BY <3>2, PmpAssumption DEF Governs
    <3>4. Covered(mseccfg, d) /\ NumPMP \in 0..NumPMP
      BY <2>4, PmpAssumption DEF Covered
    <3>5. SoundIn(mapped, mseccfg, pmpcfg, pmpaddr, d)
      BY <3>4, MappedIsSound
    <3>6. mapped[d][x] \subseteq PrivOf(mseccfg, pmpcfg, d[1], NumPMP)
      BY <3>3, <3>4, <3>5 DEF SoundIn
    <3>7. PrivOf(mseccfg, pmpcfg, d[1], NumPMP) = {}
      BY <3>1 DEF PrivOf, getPMPUnmatchedMode
    <3> HIDE DEF lost
    <3> QED
      BY <2>2, <2>4, <3>6, <3>7
  <2>5. CASE x \in lost[d[1]]
    <3> HIDE DEF lost
    <3> QED
      BY <2>2, <2>5
  <2> QED
    BY <2>3, <2>4, <2>5
<1> HIDE DEF lost
<1>4. mapped' \in [Domain -> [Addr -> Priv]]
  BY <1>1, UnmapIs
<1> QED
  BY <1>3, <1>4 DEF SoundIn

-----------------------------------------------------------------------------
(* Types, and the theorems.                                                *)

\* What pmpaddr keeps of a value is a legal value.
LEMMA MaskIs ==
  ASSUME NEW v \in PmpAddr, config \in Config
  PROVE  maskPMPAddr(v) \in PmpAddr /\ maskPMPAddr(maskPMPAddr(v)) = maskPMPAddr(v)
<1>1. v \in Nat /\ config.grain \in Nat /\ MaxPA \div 4 \in Nat
  BY PmpAssumption DEF PmpAddr, Config
<1>2. CASE config.grain > 0
  <2>1. config.grain - 1 \in Nat
    BY <1>1, <1>2
  <2> DEFINE n == config.grain - 1
  <2>2. floor(v, n) \in Nat /\ floor(v, n) <= v /\ floor(floor(v, n), n) = floor(v, n)
    BY <1>1, <2>1, FloorIs
  <2>3. maskPMPAddr(v) = floor(v, n) /\ maskPMPAddr(maskPMPAddr(v)) = floor(floor(v, n), n)
    BY <1>2 DEF maskPMPAddr
  <2> HIDE DEF n
  <2> QED
    BY <1>1, <2>2, <2>3 DEF PmpAddr
<1>3. CASE ~(config.grain > 0)
  BY <1>3 DEF maskPMPAddr
<1> QED
  BY <1>2, <1>3

\* The values of entry i are legal.
LegalAt(s, c, a, i) ==
  /\ ~s.MML => c[i].priv = noReserved(c[i].priv)
  /\ config.grain > 0 => c[i].mode # "NA4"
  /\ a[i] = maskPMPAddr(a[i])

\* TypeOK after a step that keeps the configuration.
LEMMA TypePrime ==
  ASSUME config' = config, config \in Configs,
         pmpcfg' \in [Entry -> Cfg], pmpaddr' \in [Entry -> PmpAddr],
         mseccfg' \in [MML : BOOLEAN, MMWP : BOOLEAN, RLB : BOOLEAN],
         mapped' \in [Domain -> [Addr -> Priv]],
         \A i \in Entry : LegalAt(mseccfg', pmpcfg', pmpaddr', i)
  PROVE  TypeOK'
<1>1. Domain' = Domain
  BY DEF Domain
<1>2. ASSUME NEW i \in Entry PROVE legalEntry(i)'
  <2>1. maskPMPAddr(pmpaddr[i])' = maskPMPAddr(pmpaddr'[i])
    BY DEF maskPMPAddr, floor
  <2> QED
    BY <2>1 DEF LegalAt, legalEntry
<1> QED
  BY <1>1, <1>2 DEF TypeOK

\* TypeOK says that the values are legal.
LEMMA TypeLegal ==
  ASSUME TypeOK
  PROVE  \A i \in Entry : LegalAt(mseccfg, pmpcfg, pmpaddr, i)
BY DEF TypeOK, legalEntry, LegalAt

\* The inductive invariant: types, legal register values and a sound mapping.
IInv == TypeOK /\ MappedWithinPMP

\* Nothing is mapped and no entry is on initially.
LEMMA InitIInv == Init => IInv
<1> SUFFICES ASSUME Init PROVE IInv
  OBVIOUS
<1>1. config \in Configs /\ config \in Config
  BY PmpAssumption DEF Init
<1>2. NoCfg \in Cfg /\ {} \in Priv /\ 0 \in PmpAddr
  BY PmpAssumption DEF NoCfg, Cfg, Priv, PmpAddr
<1>3. /\ pmpcfg \in [Entry -> Cfg] /\ pmpaddr \in [Entry -> PmpAddr]
      /\ mapped \in [Domain -> [Addr -> Priv]]
  BY <1>2 DEF Init
<1>4. mseccfg \in [MML : BOOLEAN, MMWP : BOOLEAN, RLB : BOOLEAN]
  BY DEF Init, NoSec
<1>5. ASSUME NEW i \in Entry PROVE legalEntry(i)
  <2>1. pmpcfg[i] = NoCfg /\ pmpaddr[i] = 0
    BY DEF Init
  <2>2. maskPMPAddr(0) \in PmpAddr /\ maskPMPAddr(0) <= 0
    <3>1. config.grain \in Nat /\ (config.grain > 0 => config.grain - 1 \in Nat)
      BY <1>1 DEF Config
    <3>2. config.grain > 0 => floor(0, config.grain - 1) <= 0
      BY <3>1, FloorIs
    <3> QED
      BY <1>1, <1>2, <3>2, MaskIs DEF maskPMPAddr
  <2>3. maskPMPAddr(0) = 0
    BY <2>2, PmpAssumption DEF PmpAddr
  <2>4. noReserved({}) = {}
    BY DEF noReserved
  <2> QED
    BY <2>1, <2>3, <2>4 DEF legalEntry, NoCfg
<1>6. \A d \in Domain : SoundIn(mapped, mseccfg, pmpcfg, pmpaddr, d)
  <2>1. \A d \in Domain, x \in Addr : mapped[d][x] = {}
    BY DEF Init
  <2> QED
    BY <2>1 DEF SoundIn
<1>7. TypeOK
  BY <1>1, <1>3, <1>4, <1>5 DEF TypeOK
<1>8. MappedWithinPMP
  BY <1>6, MappedIsSound
<1> QED
  BY <1>7, <1>8 DEF IInv

\* Every step keeps it: one step of the proof per operation.
LEMMA NextIInv == IInv /\ [Next]_vars => IInv'
<1> SUFFICES ASSUME IInv, [Next]_vars PROVE IInv'
  OBVIOUS
<1>1. TypeOK /\ MappedWithinPMP
  BY DEF IInv
<1>2. /\ pmpcfg \in [Entry -> Cfg] /\ pmpaddr \in [Entry -> PmpAddr]
      /\ mseccfg \in [MML : BOOLEAN, MMWP : BOOLEAN, RLB : BOOLEAN]
      /\ config \in Configs /\ config \in Config
      /\ \A i \in Entry : LegalAt(mseccfg, pmpcfg, pmpaddr, i)
  BY <1>1, TypesOf, TypeLegal DEF Regs
<1>3. ASSUME NEW r, NEW src \in [cfgEntries(r) -> CfgValues], riscvVMWritePMPCFG(r, src)
      PROVE  IInv'
  <2>1. config' = config /\ pmpaddr' = pmpaddr /\ mseccfg' = mseccfg
    BY <1>3 DEF riscvVMWritePMPCFG
  <2>2. /\ mapped' \in [Domain -> [Addr -> Priv]] /\ pmpcfg' \in [Entry -> Cfg]
        /\ \A d \in Domain : Covered(mseccfg', d)
                             => SoundIn(mapped', mseccfg', pmpcfg', pmpaddr', d)
    BY <1>1, <1>3, CfgStep
  <2>3. ASSUME NEW i \in Entry PROVE LegalAt(mseccfg', pmpcfg', pmpaddr', i)
    <3>1. pmpcfg'[i] = IF i \in cfgEntries(r) /\ ~pmpLocked(i)
                       THEN legalCFG(i, src[i]) ELSE pmpcfg[i]
      BY <1>3 DEF riscvVMWritePMPCFG
    <3>2. CASE i \in cfgEntries(r) /\ ~pmpLocked(i)
      <4>1. src[i] \in Cfg
        BY <1>3, <3>2, PmpAssumption
      <4>2. /\ ~mseccfg.MML => legalCFG(i, src[i]).priv = noReserved(legalCFG(i, src[i]).priv)
            /\ config.grain > 0 => legalCFG(i, src[i]).mode # "NA4"
        BY <1>1, <4>1, LegalCFGIs
      <4> QED
        BY <1>2, <2>1, <3>1, <3>2, <4>2 DEF LegalAt
    <3>3. CASE ~(i \in cfgEntries(r) /\ ~pmpLocked(i))
      BY <1>2, <2>1, <3>1, <3>3 DEF LegalAt
    <3> QED
      BY <3>2, <3>3
  <2> QED
    BY <1>2, <2>1, <2>2, <2>3, TypePrime, MappedPrime DEF IInv
<1>4. ASSUME NEW k \in Entry, NEW v \in AddrValues, riscvVMWritePMPAddr(k, v)
      PROVE  IInv'
  <2>1. config' = config /\ pmpcfg' = pmpcfg /\ mseccfg' = mseccfg
        /\ pmpaddr' = [pmpaddr EXCEPT ![k] = maskPMPAddr(v)]
    BY <1>4 DEF riscvVMWritePMPAddr
  <2>2. /\ mapped' \in [Domain -> [Addr -> Priv]]
        /\ \A d \in Domain : Covered(mseccfg', d)
                             => SoundIn(mapped', mseccfg', pmpcfg', pmpaddr', d)
    BY <1>1, <1>4, AddrStep
  <2>3. maskPMPAddr(v) \in PmpAddr /\ maskPMPAddr(maskPMPAddr(v)) = maskPMPAddr(v)
    BY <1>2, <1>4, MaskIs, PmpAssumption
  <2>4. pmpaddr' \in [Entry -> PmpAddr]
    BY <1>2, <2>1, <2>3
  <2>5. \A i \in Entry : pmpaddr'[i] = maskPMPAddr(pmpaddr'[i])
    BY <1>2, <2>1, <2>3 DEF LegalAt
  <2>6. \A i \in Entry : LegalAt(mseccfg', pmpcfg', pmpaddr', i)
    BY <1>2, <2>1, <2>5 DEF LegalAt
  <2> QED
    BY <1>2, <2>1, <2>2, <2>4, <2>6, TypePrime, MappedPrime DEF IInv
<1>5. ASSUME NEW v \in [MML : BOOLEAN, MMWP : BOOLEAN, RLB : BOOLEAN], mseccfgW(v)
      PROVE  IInv'
  <2>1. config' = config /\ pmpcfg' = pmpcfg /\ pmpaddr' = pmpaddr
    BY <1>5 DEF mseccfgW
  <2>2. /\ mapped' \in [Domain -> [Addr -> Priv]]
        /\ mseccfg' \in [MML : BOOLEAN, MMWP : BOOLEAN, RLB : BOOLEAN]
        /\ mseccfg.MML => mseccfg'.MML
        /\ \A d \in Domain : Covered(mseccfg', d)
                             => SoundIn(mapped', mseccfg', pmpcfg', pmpaddr', d)
    BY <1>1, <1>5, SecStep
  <2>3. \A i \in Entry : LegalAt(mseccfg', pmpcfg', pmpaddr', i)
    BY <1>2, <2>1, <2>2 DEF LegalAt
  <2> QED
    BY <1>2, <2>1, <2>2, <2>3, TypePrime, MappedPrime DEF IInv
<1>6. ASSUME riscvVMResetPMP PROVE IInv'
  <2>1. /\ config' = config /\ pmpcfg' = [i \in Entry |-> NoCfg]
        /\ pmpaddr' = [i \in Entry |-> 0] /\ mseccfg' = NoSec
    BY <1>6, Zenon DEF riscvVMResetPMP
  <2>2. /\ mapped' \in [Domain -> [Addr -> Priv]]
        /\ \A d \in Domain : Covered(mseccfg', d)
                             => SoundIn(mapped', mseccfg', pmpcfg', pmpaddr', d)
    BY <1>1, <1>6, ResetStep
  <2>3. NoCfg \in Cfg /\ 0 \in PmpAddr /\ mseccfg' \in [MML : BOOLEAN, MMWP : BOOLEAN, RLB : BOOLEAN]
    BY <2>1, PmpAssumption DEF NoCfg, Cfg, Priv, PmpAddr, NoSec
  <2>4. pmpcfg' \in [Entry -> Cfg] /\ pmpaddr' \in [Entry -> PmpAddr]
    BY <2>1, <2>3
  <2>5. maskPMPAddr(0) = 0
    <3>1. config.grain \in Nat /\ (config.grain > 0 => config.grain - 1 \in Nat)
      BY <1>2 DEF Config
    <3>2. config.grain > 0 => floor(0, config.grain - 1) \in Nat /\ floor(0, config.grain - 1) <= 0
      BY <3>1, FloorIs
    <3> QED
      BY <3>2 DEF maskPMPAddr
  <2>6. noReserved({}) = {}
    BY DEF noReserved
  <2>7. \A i \in Entry : LegalAt(mseccfg', pmpcfg', pmpaddr', i)
    BY <2>1, <2>5, <2>6 DEF LegalAt, NoCfg
  <2> QED
    BY <1>2, <2>1, <2>2, <2>3, <2>4, <2>7, TypePrime, MappedPrime DEF IInv
<1>7. ASSUME NEW m \in Mode, NEW x \in Accesses, mapPMP(m, x[1], x[2], x[3]) PROVE IInv'
  <2>1. config' = config /\ pmpcfg' = pmpcfg /\ pmpaddr' = pmpaddr /\ mseccfg' = mseccfg
    BY <1>7 DEF mapPMP
  <2>2. x[2] \in Addr /\ x[3] \in Addr
    BY PmpAssumption
  <2>3. /\ mapped' \in [Domain -> [Addr -> Priv]]
        /\ \A d \in Domain : Covered(mseccfg', d)
                             => SoundIn(mapped', mseccfg', pmpcfg', pmpaddr', d)
    BY <1>1, <1>7, <2>2, MapStep
  <2>4. \A i \in Entry : LegalAt(mseccfg', pmpcfg', pmpaddr', i)
    BY <1>2, <2>1
  <2> QED
    BY <1>2, <2>1, <2>3, <2>4, TypePrime, MappedPrime DEF IInv
<1>8. CASE UNCHANGED vars
  <2>1. /\ config' = config /\ pmpcfg' = pmpcfg /\ pmpaddr' = pmpaddr
        /\ mseccfg' = mseccfg /\ mapped' = mapped
    BY <1>8 DEF vars
  <2>2. mapped' \in [Domain -> [Addr -> Priv]]
    BY <1>1, <2>1, TypesOf
  <2>3. \A d \in Domain : Covered(mseccfg', d)
                          => SoundIn(mapped', mseccfg', pmpcfg', pmpaddr', d)
    BY <1>1, <2>1, MappedIsSound
  <2>4. \A i \in Entry : LegalAt(mseccfg', pmpcfg', pmpaddr', i)
    BY <1>2, <2>1
  <2> QED
    BY <1>2, <2>1, <2>2, <2>3, <2>4, TypePrime, MappedPrime DEF IInv
<1> QED
  BY <1>3, <1>4, <1>5, <1>6, <1>7, <1>8, Zenon DEF Next

\* The invariant holds throughout.
LEMMA AlwaysIInv == Spec => []IInv
<1>1. Init => IInv
  BY InitIInv
<1>2. IInv /\ [Next]_vars => IInv'
  BY NextIInv
<1> QED
  BY <1>1, <1>2, PTL DEF Spec

\* Type correctness: the registers hold only values that can be written
\* (riscvVMWritePMPCFG, riscvVMWritePMPAddr), for any program.
THEOREM TypeCorrect == Spec => []TypeOK
<1>1. IInv => TypeOK
  BY DEF IInv
<1> QED
  BY <1>1, AlwaysIInv, PTL

\* What accesses have mapped lazily never exceeds what the registers give,
\* however they are written (invalidatePMPEntry, mapPMP).
THEOREM MappedIsWithinPMP == Spec => []MappedWithinPMP
<1>1. IInv => MappedWithinPMP
  BY DEF IInv
<1> QED
  BY <1>1, AlwaysIInv, PTL

\* What a step must keep of locked entry i.
KeptEntry(i) ==
  /\ pmpcfg'[i] = pmpcfg[i]
  /\ region(pmpcfg', pmpaddr', i) = region(pmpcfg, pmpaddr, i)
  /\ ~mseccfg'.RLB

\* No step but reset changes a locked entry.
LEMMA LockedStep ==
  ASSUME TypeOK, [Next]_vars, ~riscvVMResetPMP, NEW i \in Entry, pmpLocked(i)
  PROVE  KeptEntry(i)
<1>1. pmpcfg[i] \in Cfg /\ pmpcfg \in [Entry -> Cfg] /\ pmpaddr \in [Entry -> PmpAddr]
  BY DEF TypeOK
<1>2. ~mseccfg.RLB /\ pmpcfg[i].L
  BY DEF pmpLocked
<1>3. ASSUME NEW r, NEW src, riscvVMWritePMPCFG(r, src) PROVE KeptEntry(i)
  <2>1. pmpaddr' = pmpaddr /\ mseccfg' = mseccfg
    BY <1>3 DEF riscvVMWritePMPCFG
  <2>2. pmpcfg'[i] = pmpcfg[i]
    BY <1>3 DEF riscvVMWritePMPCFG
  <2> QED
    BY <1>1, <1>2, <2>1, <2>2, RegionSame DEF KeptEntry
<1>4. ASSUME NEW k \in Entry, NEW v, riscvVMWritePMPAddr(k, v) PROVE KeptEntry(i)
  <2>1. /\ pmpcfg' = pmpcfg /\ mseccfg' = mseccfg /\ ~pmpLocked(k) /\ ~pmpLockedTOR(k + 1)
        /\ pmpaddr' = [pmpaddr EXCEPT ![k] = maskPMPAddr(v)]
    BY <1>4 DEF riscvVMWritePMPAddr
  <2>2. \A j \in Entry : j # k => pmpaddr'[j] = pmpaddr[j]
    BY <1>1, <2>1
  <2>3. pmpaddr'[i] = pmpaddr[i]
    BY <2>1, <2>2
  <2>4. i # 0 /\ pmpcfg[i].mode = "TOR" => pmpaddr'[i - 1] = pmpaddr[i - 1]
    <3>1. i # 0 => i - 1 \in Entry /\ i = (i - 1) + 1
      BY PmpAssumption DEF Entry
    <3>2. pmpcfg[i].mode = "TOR" => i # k + 1
      BY <2>1 DEF pmpLockedTOR
    <3>3. i # 0 /\ pmpcfg[i].mode = "TOR" => i - 1 # k
      BY <3>1, <3>2
    <3> QED
      BY <2>2, <3>1, <3>3
  <2>5. region(pmpcfg, pmpaddr, i) = region(pmpcfg, pmpaddr', i)
    <3>1. pmpaddr[i] = pmpaddr'[i] /\ (i # 0 /\ pmpcfg[i].mode = "TOR" => pmpaddr[i - 1] = pmpaddr'[i - 1])
      BY <2>3, <2>4
    <3> QED
      BY <1>1, <3>1, RegionSame
  <2> QED
    BY <1>2, <2>1, <2>5 DEF KeptEntry
<1>5. ASSUME NEW v, mseccfgW(v) PROVE KeptEntry(i)
  <2>1. pmpcfg' = pmpcfg /\ pmpaddr' = pmpaddr
    BY <1>5 DEF mseccfgW
  <2>2. mseccfg'.RLB = (v.RLB /\ \A j \in Entry : ~pmpLocked(j))
    BY <1>2, <1>5 DEF mseccfgW
  <2>3. ~mseccfg'.RLB
    BY <2>2, Zenon
  <2> QED
    BY <2>1, <2>3 DEF KeptEntry
<1>6. ASSUME NEW m, NEW p, NEW low, NEW high, mapPMP(m, p, low, high) PROVE KeptEntry(i)
  BY <1>2, <1>6 DEF mapPMP, KeptEntry
<1>7. CASE UNCHANGED vars
  BY <1>2, <1>7 DEF vars, KeptEntry
<1> QED
  BY <1>3, <1>4, <1>5, <1>6, <1>7, Zenon DEF Next

\* A locked entry keeps its configuration and its bytes until reset, for any
\* neighbours and any writes of RLB (pmpLocked, pmpLockedTOR, mseccfgW).
THEOREM LockedEntriesStay == Spec => LockedStays
<1>1. TypeOK /\ [Next]_vars
      => [\A i \in Entry : pmpLocked(i) /\ ~riscvVMResetPMP
            => /\ pmpcfg'[i] = pmpcfg[i]
               /\ region(pmpcfg', pmpaddr', i) = region(pmpcfg, pmpaddr, i)
               /\ ~mseccfg'.RLB]_vars
  BY LockedStep DEF KeptEntry
<1> QED
  BY <1>1, TypeCorrect, PTL DEF Spec, LockedStays

-----------------------------------------------------------------------------
(* Bounds between regions.                                                 *)

\* Accesses that cross the bound above byte x may hit in domain d of mp.
\* Where unaligned accesses are decomposed both sides of a bound are mapped, and
\* only aligned accesses, of the eight bytes around it, are meant.
Together(mp, d, x) ==
  /\ mp[d][x] # {} /\ mp[d][x + 1] # {}
  /\ (config.unaligned /\ ~config.decompose) \/ x % 8 = 3
  /\ config.unaligned /\ config.decompose => \A z \in (x - 3)..(x + 4) : mp[d][z] # {}

\* Then no bound between entries is above x.
NotSplit(mp, c, a, d) ==
  \A x \in Addr : x + 1 \in Addr /\ Together(mp, d, x)
                  => \A g, h : Governs(c, a, g, x) /\ Governs(c, a, h, x + 1) => g = h

\* Page limits do not divide words that decomposed accesses map in parts.
WholeWords == config.unaligned /\ config.decompose => config.max_page % 4 = 0

\* All entries take part in the checks of domain d.
UsesAll(s, d) == d[1] = "S" \/ s.MML

\* The invariant: no domain that is checked against all entries has bytes on
\* both sides of a bound that an access refused there could hit.
BoundInv ==
  config.straddle /\ WholeWords =>
    \A d \in Domain : UsesAll(mseccfg, d) => NotSplit(mapped, pmpcfg, pmpaddr, d)

\* BoundInv after a step that keeps the configuration.
LEMMA BoundPrime ==
  ASSUME config' = config,
         config.straddle /\ WholeWords =>
           \A d \in Domain : UsesAll(mseccfg', d) => NotSplit(mapped', pmpcfg', pmpaddr', d)
  PROVE  BoundInv'
<1>1. Domain' = Domain
  BY DEF Domain
<1>2. \A g, x : Governs(pmpcfg, pmpaddr, g, x)' <=> Governs(pmpcfg', pmpaddr', g, x)
  BY RegionPrime DEF Governs
<1>3. \A d, x : Together(mapped, d, x)' <=> Together(mapped', d, x)
  BY DEF Together
<1>4. \A d : NotSplit(mapped, pmpcfg, pmpaddr, d)' <=> NotSplit(mapped', pmpcfg', pmpaddr', d)
  BY <1>2, <1>3 DEF NotSplit
<1>5. WholeWords' <=> WholeWords
  BY DEF WholeWords
<1>6. \A d : UsesAll(mseccfg, d)' <=> UsesAll(mseccfg', d)
  BY DEF UsesAll
<1> QED
  BY <1>1, <1>4, <1>5, <1>6 DEF BoundInv

\* The eight bytes around a bound are addresses.
LEMMA BlockIs ==
  ASSUME NEW x \in Addr, x % 8 = 3
  PROVE  (x - 3)..(x + 4) \subseteq Addr
BY PmpAssumption DEF Addr

\* A write of an entry keeps the invariant.
LEMMA BoundWrite ==
  ASSUME BoundInv, config' = config, mseccfg' = mseccfg, GovernorKept(pmpcfg', pmpaddr')
  PROVE  BoundInv'
<1> SUFFICES ASSUME config.straddle, WholeWords, NEW d \in Domain, UsesAll(mseccfg, d)
             PROVE  NotSplit(mapped', pmpcfg', pmpaddr', d)
  BY BoundPrime
<1> SUFFICES ASSUME NEW x \in Addr, x + 1 \in Addr, Together(mapped', d, x),
                    NEW g, NEW h,
                    Governs(pmpcfg', pmpaddr', g, x), Governs(pmpcfg', pmpaddr', h, x + 1)
             PROVE  g = h
  BY Zenon DEF NotSplit
<1>1. \A z \in Addr : mapped'[d][z] # {} => mapped[d][z] # {}
  BY DEF GovernorKept
<1>2. Together(mapped, d, x)
  <2>1. x % 8 = 3 => (x - 3)..(x + 4) \subseteq Addr
    BY BlockIs
  <2> QED
    BY <1>1, <2>1 DEF Together
<1>3. \A c, k : Checked(mseccfg, d[1], c, k)
  BY DEF Checked, UsesAll
<1>4. mapped'[d][x] # {} /\ mapped'[d][x + 1] # {}
  BY DEF Together
<1>5. Governs(pmpcfg, pmpaddr, g, x) /\ Governs(pmpcfg, pmpaddr, h, x + 1)
  BY <1>3, <1>4 DEF GovernorKept
<1>6. NotSplit(mapped, pmpcfg, pmpaddr, d)
  BY DEF BoundInv
<1> QED
  BY <1>2, <1>5, <1>6, Zenon DEF NotSplit

\* Two addresses in the range of a third are governed by the same entry.
LEMMA RangeOne ==
  ASSUME NEW m, NEW u \in Addr, Regs(pmpcfg, pmpaddr), NEW v \in Addr, NEW w \in Addr,
         mapAt(m, u).low <= v, v <= mapAt(m, u).high,
         mapAt(m, u).low <= w, w <= mapAt(m, u).high,
         NEW g, NEW h, Governs(pmpcfg, pmpaddr, g, v), Governs(pmpcfg, pmpaddr, h, w)
  PROVE  g = h
<1>1. PICK r : r = mapAt(m, u)
  OBVIOUS
<1>2. Refined(m, u, 0, r)
  BY <1>1, MapAtIs
<1>3. PICK k \in 0..NumPMP :
       /\ r.priv = PrivOf(mseccfg, pmpcfg, m, k)
       /\ \A z \in Addr : r.low <= z /\ z <= r.high =>
            /\ k # NumPMP => z \in region(pmpcfg, pmpaddr, k)
            /\ \A j \in Entry : 0 <= j /\ j < k => z \notin region(pmpcfg, pmpaddr, j)
  BY <1>2, Zenon DEF Refined
<1>4. \A j \in Entry : 0 <= j
  BY PmpAssumption DEF Entry
<1>5. Governs(pmpcfg, pmpaddr, k, v) /\ Governs(pmpcfg, pmpaddr, k, w)
  BY <1>1, <1>3, <1>4 DEF Governs
<1> QED
  BY <1>5, GovernsUnique

\* The range of an address is one of whole words around it.
LEMMA RangeWords ==
  ASSUME NEW m, NEW u \in Addr, Regs(pmpcfg, pmpaddr)
  PROVE  \E p, q \in Nat, pr \in Priv :
           /\ mapAt(m, u) = [low |-> 4 * p, high |-> 4 * q - 1, priv |-> pr]
           /\ 4 * p <= u /\ u <= 4 * q - 1
<1>1. PICK r : r = mapAt(m, u)
  OBVIOUS
<1>2. Refined(m, u, 0, r)
  BY <1>1, MapAtIs
<1>3. PICK p, q \in Nat, pr \in Priv : r = [low |-> 4 * p, high |-> 4 * q - 1, priv |-> pr]
  BY <1>2, Zenon DEF Refined
<1>4. 4 * p <= u /\ u <= 4 * q - 1
  BY <1>2, <1>3 DEF Refined
<1> QED
  BY <1>1, <1>3, <1>4

\* Clamping to pages of whole words leaves whole words.
LEMMA ClampWords ==
  ASSUME NEW low \in Nat, NEW high \in Nat, NEW pr, NEW p \in Nat, NEW q \in Nat, NEW r,
         r = [low |-> 4 * p, high |-> 4 * q - 1, priv |-> pr], config \in Config,
         config.max_page % 4 = 0
  PROVE  /\ riscvClampPage(low, high, r).low % 4 = 0
         /\ riscvClampPage(low, high, r).high % 4 = 3
<1> DEFINE mp == config.max_page
<1>1. mp \in Nat
  BY DEF Config
<1>2. CASE mp = 0
  BY <1>2 DEF riscvClampPage
<1>3. CASE mp # 0
  <2> DEFINE lo == low - (low % mp)
             hi == high - (high % mp) + mp - 1
  <2>1. riscvClampPage(low, high, r) = [r EXCEPT !.low = IF @ < lo THEN lo ELSE @,
                                                 !.high = IF @ > hi THEN hi ELSE @]
    BY <1>3 DEF riscvClampPage
  <2>2. PICK n \in Nat : mp = 4 * n
    <3>1. mp = 4 * (mp \div 4) /\ mp \div 4 \in Nat
      BY <1>1
    <3> QED
      BY <3>1
  <2>3. lo \in Int /\ lo % 4 = 0 /\ hi \in Int /\ hi % 4 = 3
    <3>1. \A v \in Nat : v - (v % mp) = (v \div mp) * mp /\ v \div mp \in Nat
      BY <1>1, <1>3
    <3> DEFINE a == low \div mp
               b == high \div mp
    <3>2. low - (low % mp) = a * mp /\ high - (high % mp) = b * mp /\ a \in Nat /\ b \in Nat
      BY <3>1
    <3> HIDE DEF a, b
    <3>3. a * mp = 4 * (a * n) /\ b * mp = 4 * (b * n) /\ a * n \in Nat /\ b * n \in Nat
      BY <2>2, <3>2
    <3>4. PICK i, j \in Nat : lo = 4 * i /\ hi = 4 * j + 4 * n - 1
      <4>1. lo = 4 * (a * n) /\ hi = 4 * (b * n) + 4 * n - 1
        BY <2>2, <3>2, <3>3
      <4> QED
        BY <3>3, <4>1
    <3> QED
      BY <3>4
  <2> HIDE DEF lo, hi
  <2>4. riscvClampPage(low, high, r) = [low |-> IF 4 * p < lo THEN lo ELSE 4 * p,
                                        high |-> IF 4 * q - 1 > hi THEN hi ELSE 4 * q - 1,
                                        priv |-> pr]
    BY <2>1
  <2> QED
    BY <2>3, <2>4
<1> QED
  BY <1>2, <1>3

\* A byte y next to the range of address x, which is clamped no further, that
\* an access to low..high unmaps.
EdgeCut(m, low, high, d, x, y) ==
  LET r  == mapAt(m, x)
      cl == riscvClampPage(low, high, r)
  IN /\ domainPriv(d, r.priv) # {}
     /\ \/ r = mapAt(m, high) /\ cl.high = r.high /\ y \in adjacent(cl.low, cl.high, {"HI"})
        \/ r = mapAt(m, low) /\ cl.low = r.low /\ y \in adjacent(cl.low, cl.high, {"LO"})

\* What mapPMP takes back: bytes next to the outer bounds, and inner bytes of an
\* access to several regions.
LEMMA MapCuts ==
  ASSUME NEW m, NEW p, NEW low, NEW high, mapPMP(m, p, low, high),
         NEW d \in Domain, d[1] = m, NEW y \in Addr
  PROVE  /\ /\ Cardinality({mapAt(m, x) : x \in low..high}) # 1
            /\ y \in innerBytes(mapAt(m, low), mapAt(m, high), low, high)
            => mapped'[d][y] = {}
         /\ \A x \in low..high : EdgeCut(m, low, high, d, x, y) => mapped'[d][y] = {}
<1> DEFINE maps  == {mapAt(m, x) : x \in low..high}
           first == mapAt(m, low)
           last  == mapAt(m, high)
           clamp(r) == riscvClampPage(low, high, r)
           update(r) == {u \in {"LO", "HI"} :
                           \/ u = "LO" /\ r = first /\ clamp(r).low = r.low
                           \/ u = "HI" /\ r = last /\ clamp(r).high = r.high}
           inner == IF Cardinality(maps) = 1 THEN {} ELSE innerBytes(first, last, low, high)
           outer(r) == adjacent(clamp(r).low, clamp(r).high, update(r))
           regs == {r \in maps : domainPriv(d, r.priv) # {}}
           cut == inner \cup UNION {outer(r) : r \in regs}
           bytes(r) == clamp(r).low..clamp(r).high
           gives == \E r \in regs : y \in bytes(r) /\ y \notin cut
           val == CASE y \in cut -> {}
                    [] gives -> domainPriv(d, (CHOOSE r \in regs : y \in bytes(r)).priv)
                    [] OTHER -> mapped[d][y]
<1>1. mapped'[d][y] = val
  BY Zenon DEF mapPMP
<1>2. y \in cut => mapped'[d][y] = {}
  <2>1. y \in cut => ~gives
    OBVIOUS
  <2> HIDE DEF cut, gives
  <2> QED
    BY <1>1, <2>1
<1>3. ASSUME NEW x \in low..high, EdgeCut(m, low, high, d, x, y) PROVE y \in cut
  <2>1. PICK r : r = mapAt(m, x)
    OBVIOUS
  <2>2. r \in regs
    BY <1>3, <2>1 DEF EdgeCut
  <2>3. \/ "HI" \in update(r) /\ y \in adjacent(clamp(r).low, clamp(r).high, {"HI"})
        \/ "LO" \in update(r) /\ y \in adjacent(clamp(r).low, clamp(r).high, {"LO"})
    BY <1>3, <2>1 DEF EdgeCut
  <2> HIDE DEF update, clamp
  <2>4. y \in outer(r)
    BY <2>3 DEF adjacent
  <2> HIDE DEF outer, regs, inner
  <2> QED
    BY <2>2, <2>4
<1>4. y \in inner => y \in cut
  OBVIOUS
<1> HIDE DEF cut
<1> QED
  BY <1>2, <1>3, <1>4

\* An access to low..high that grants privileges and leaves both sides of a bound
\* above byte x mapped.
LeavesBound(m, p, low, high, d, x) ==
  /\ low \in Addr /\ high \in Addr /\ high - low + 1 \in {1, 2, 4, 8}
  /\ config.unaligned \/ aligned(low, high)
  /\ mapPMP(m, p, low, high)
  /\ d \in Domain /\ d[1] = m
  /\ x \in Addr /\ x + 1 \in Addr /\ Together(mapped', d, x)
  /\ \E g, h : Governs(pmpcfg, pmpaddr, g, x) /\ Governs(pmpcfg, pmpaddr, h, x + 1) /\ g # h

\* No range is on both sides of a bound.
LEMMA BoundDivides ==
  ASSUME NEW m, NEW x \in Addr, x + 1 \in Addr, Regs(pmpcfg, pmpaddr),
         \E g, h : /\ Governs(pmpcfg, pmpaddr, g, x) /\ Governs(pmpcfg, pmpaddr, h, x + 1)
                   /\ g # h,
         NEW u \in Addr
  PROVE  ~(mapAt(m, u).low <= x /\ x + 1 <= mapAt(m, u).high)
<1> SUFFICES ASSUME mapAt(m, u).low <= x, x + 1 <= mapAt(m, u).high PROVE FALSE
  OBVIOUS
<1>1. PICK r : r = mapAt(m, u)
  OBVIOUS
<1>2. PICK k, q \in Nat, pr \in Priv : r = [low |-> 4 * k, high |-> 4 * q - 1, priv |-> pr]
  BY <1>1, RangeWords
<1>3. x \in Nat /\ r.low = 4 * k /\ r.high = 4 * q - 1
  BY <1>2, PmpAssumption DEF Addr
<1>4. x <= r.high /\ r.low <= x + 1
  BY <1>1, <1>2, <1>3
<1>5. PICK g, h : /\ Governs(pmpcfg, pmpaddr, g, x) /\ Governs(pmpcfg, pmpaddr, h, x + 1)
                  /\ g # h
  OBVIOUS
<1> QED
  BY <1>1, <1>4, <1>5, RangeOne

\* An access to both sides of a bound is decomposed, and unmaps a byte on one
\* side so that aligned accesses miss.
LEMMA AcrossBound ==
  ASSUME Regs(pmpcfg, pmpaddr), NEW m, NEW p, NEW low, NEW high, NEW d, NEW x,
         LeavesBound(m, p, low, high, d, x), low <= x, x + 1 <= high
  PROVE  FALSE
<1>1. /\ low \in Nat /\ high \in Nat /\ x \in Nat /\ low \in Addr /\ high \in Addr
      /\ x \in Addr /\ x + 1 \in Addr /\ x \in low..high /\ x + 1 \in low..high
      /\ low..high \subseteq Addr /\ high - low + 1 \in {1, 2, 4, 8}
  BY PmpAssumption DEF LeavesBound, Addr
<1>2. \A u \in Addr : ~(mapAt(m, u).low <= x /\ x + 1 <= mapAt(m, u).high)
  BY <1>1, BoundDivides DEF LeavesBound
<1> DEFINE maps == {mapAt(m, u) : u \in low..high}
           first == mapAt(m, low)
           last == mapAt(m, high)
<1>3. Cardinality(maps) # 1
  <2>1. mapAt(m, x) # mapAt(m, x + 1)
    <3>1. PICK r : r = mapAt(m, x)
      OBVIOUS
    <3>2. PICK k, q \in Nat, pr \in Priv :
            r = [low |-> 4 * k, high |-> 4 * q - 1, priv |-> pr] /\ 4 * k <= x /\ x <= 4 * q - 1
      BY <1>1, <3>1, RangeWords
    <3>3. PICK s : s = mapAt(m, x + 1)
      OBVIOUS
    <3>4. PICK k2, q2 \in Nat, pr2 \in Priv :
            /\ s = [low |-> 4 * k2, high |-> 4 * q2 - 1, priv |-> pr2]
            /\ 4 * k2 <= x + 1 /\ x + 1 <= 4 * q2 - 1
      BY <1>1, <3>3, RangeWords
    <3>5. r.low <= x /\ x + 1 <= s.high
      BY <3>2, <3>4
    <3> QED
      BY <1>1, <1>2, <3>1, <3>3, <3>5
  <2>2. mapAt(m, x) \in maps /\ mapAt(m, x + 1) \in maps
    BY <1>1
  <2>3. IsFiniteSet(maps)
    <3>1. IsFiniteSet(low..high)
      BY <1>1, FS_Interval
    <3> DEFINE f == [u \in low..high |-> mapAt(m, u)]
    <3>2. f \in Surjection(low..high, maps)
      BY DEF Surjection
    <3> HIDE DEF f, maps
    <3> QED
      BY <3>1, <3>2, FS_Surjection
  <2> HIDE DEF maps
  <2> QED
    BY <2>1, <2>2, <2>3, FS_Singleton
<1>4. ~aligned(low, high) /\ config.decompose /\ config.unaligned
  <2>1. allowed(maps, p, low, high)
    BY Zenon DEF LeavesBound, mapPMP
  <2> HIDE DEF maps
  <2> QED
    BY <1>3, <2>1 DEF LeavesBound, allowed
<1>5. x % 8 = 3 /\ \A z \in (x - 3)..(x + 4) : mapped'[d][z] # {}
  BY <1>4 DEF LeavesBound, Together
<1>6. (x - 3)..(x + 4) \subseteq Addr
  BY <1>1, <1>5, BlockIs
<1>7. \A z \in Addr : z \in innerBytes(first, last, low, high) => mapped'[d][z] = {}
  BY <1>3, MapCuts DEF LeavesBound
<1>8. PICK k, q \in Nat, pr \in Priv :
        /\ first = [low |-> 4 * k, high |-> 4 * q - 1, priv |-> pr]
        /\ 4 * k <= low /\ low <= 4 * q - 1
  BY <1>1, RangeWords
<1>9. PICK k2, q2 \in Nat, pr2 \in Priv :
        /\ last = [low |-> 4 * k2, high |-> 4 * q2 - 1, priv |-> pr2]
        /\ 4 * k2 <= high /\ high <= 4 * q2 - 1
  BY <1>1, RangeWords
<1>10. ~(first.low <= x /\ x + 1 <= first.high) /\ ~(last.low <= x /\ x + 1 <= last.high)
  BY <1>1, <1>2
<1> HIDE DEF first, last
<1>11. /\ first.low = 4 * k /\ first.high = 4 * q - 1
       /\ last.low = 4 * k2 /\ last.high = 4 * q2 - 1
  BY <1>8, <1>9
<1>12. CASE low > x - 3
  <2>1. first.high = x
    BY <1>1, <1>5, <1>8, <1>10, <1>11, <1>12
  <2>2. x - 3 \in Addr /\ x - 3 \in (x - 3)..(x + 4)
    BY <1>1, <1>6
  <2>3. x - 3 \in innerBytes(first, last, low, high)
    BY <1>1, <1>12, <2>1, <2>2 DEF innerBytes
  <2> QED
    BY <1>5, <1>7, <2>2, <2>3
<1>13. CASE low = x - 3
  <2>1. high - low + 1 = 8 /\ low % 8 = 0
    BY <1>1, <1>5, <1>13
  <2> QED
    BY <1>4, <2>1 DEF aligned
<1>14. CASE low < x - 3
  <2>1. high < x + 4
    BY <1>1, <1>14
  <2>2. last.low = x + 1
    BY <1>1, <1>5, <1>9, <1>10, <1>11, <2>1
  <2>3. x + 4 \in Addr /\ x + 4 \in (x - 3)..(x + 4)
    BY <1>1, <1>6
  <2>4. x + 4 \in innerBytes(first, last, low, high)
    BY <1>1, <2>1, <2>2, <2>3 DEF innerBytes
  <2> QED
    BY <1>5, <1>7, <2>3, <2>4
<1> QED
  BY <1>1, <1>12, <1>13, <1>14

\* An access grants nothing next to a bound that it leaves mapped on both sides,
\* nor, where unaligned accesses are decomposed, in the eight bytes around it.
LEMMA NoGrantAtBound ==
  ASSUME Regs(pmpcfg, pmpaddr), config.straddle, WholeWords,
         NEW m, NEW p, NEW low, NEW high, NEW d, NEW x, LeavesBound(m, p, low, high, d, x),
         NEW u \in low..high, NEW z \in Addr, z \in GrantedBytes(m, low, high, u),
         domainPriv(d, mapAt(m, u).priv) # {},
         \/ z \in {x, x + 1}
         \/ config.unaligned /\ config.decompose /\ z \in (x - 3)..(x + 4)
  PROVE  FALSE
<1>1. /\ low \in Nat /\ high \in Nat /\ x \in Nat /\ z \in Nat /\ low \in Addr /\ high \in Addr
      /\ x \in Addr /\ x + 1 \in Addr /\ u \in Addr /\ u \in Nat /\ low <= u /\ u <= high
      /\ config \in Config /\ low \in low..high /\ high \in low..high
  BY PmpAssumption DEF LeavesBound, Addr, Regs
<1>2. PICK r : r = mapAt(m, u)
  OBVIOUS
<1>3. PICK k, q \in Nat, pr \in Priv :
        r = [low |-> 4 * k, high |-> 4 * q - 1, priv |-> pr] /\ 4 * k <= u /\ u <= 4 * q - 1
  BY <1>1, <1>2, RangeWords
<1>4. PICK cl : cl = riscvClampPage(low, high, r)
  OBVIOUS
<1>5. cl.low \in Int /\ cl.high \in Int /\ cl.low >= 4 * k /\ cl.high <= 4 * q - 1
  <2>1. 4 * k \in Int /\ 4 * q - 1 \in Int
    BY <1>3
  <2> QED
    BY <1>1, <1>3, <1>4, <2>1, ClampNarrows
<1>6. z \in cl.low..cl.high /\ cl.low <= z /\ z <= cl.high
  BY <1>1, <1>2, <1>4, <1>5 DEF GrantedBytes
<1>7. config.unaligned /\ config.decompose => cl.low % 4 = 0 /\ cl.high % 4 = 3
  BY <1>1, <1>3, <1>4, ClampWords DEF WholeWords
<1>8. ~(4 * k <= x /\ x + 1 <= 4 * q - 1)
  <2>1. r.low = 4 * k /\ r.high = 4 * q - 1
    BY <1>3
  <2> QED
    BY <1>1, <1>2, <2>1, BoundDivides DEF LeavesBound
<1>9. /\ mapped'[d][x] # {} /\ mapped'[d][x + 1] # {}
      /\ config.unaligned \/ x % 8 = 3
      /\ config.unaligned /\ config.decompose => x % 8 = 3
  BY DEF LeavesBound, Together
<1>10. \A v \in Addr : 4 * k <= v /\ v <= 4 * q - 1 => mapAt(m, v) = r
  <2>1. r.low = 4 * k /\ r.high = 4 * q - 1
    BY <1>3
  <2> QED
    BY <1>1, <1>2, <2>1, SameRange
<1>11. CASE z <= x
  <2>1. cl.low <= x /\ x <= cl.high
    <3>1. CASE z = x
      BY <1>6, <3>1
    <3>2. CASE z # x
      <4>1. config.unaligned /\ config.decompose /\ z \in (x - 3)..(x + 4) /\ z # x + 1
        BY <1>1, <1>11, <3>2
      <4>2. cl.high % 4 = 3 /\ x % 8 = 3
        BY <1>7, <1>9, <4>1
      <4> QED
        BY <1>1, <1>5, <1>6, <1>11, <4>1, <4>2
    <3> QED
      BY <3>1, <3>2
  <2>2. x = 4 * q - 1 /\ cl.high = x
    BY <1>1, <1>3, <1>5, <1>8, <2>1
  <2>3. CASE r = mapAt(m, high)
    <3>1. x + 1 \in adjacent(cl.low, cl.high, {"HI"})
      <4>1. config.unaligned \/ (x + 1) % 8 # 0
        BY <1>1, <1>9
      <4> QED
        BY <1>1, <2>2, <4>1 DEF adjacent
    <3>2. EdgeCut(m, low, high, d, u, x + 1)
      <4>1. cl.high = r.high
        BY <1>3, <2>2
      <4> QED
        BY <1>2, <1>4, <2>3, <3>1, <4>1 DEF EdgeCut
    <3>3. mapped'[d][x + 1] = {}
      BY <1>1, <3>2, MapCuts DEF LeavesBound
    <3> QED
      BY <1>9, <3>3
  <2>4. CASE r # mapAt(m, high)
    <3>1. ~(4 * k <= high /\ high <= 4 * q - 1)
      BY <1>1, <1>10, <2>4
    <3>2. low <= x /\ x + 1 <= high
      BY <1>1, <1>3, <2>2, <3>1
    <3> QED
      BY <3>2, AcrossBound
  <2> QED
    BY <2>3, <2>4
<1>12. CASE z > x
  <2>1. cl.low <= x + 1 /\ x + 1 <= cl.high
    <3>1. CASE z = x + 1
      BY <1>6, <3>1
    <3>2. CASE z # x + 1
      <4>1. config.unaligned /\ config.decompose /\ z \in (x - 3)..(x + 4) /\ z # x
        BY <1>1, <1>12, <3>2
      <4>2. cl.low % 4 = 0 /\ x % 8 = 3
        BY <1>7, <1>9, <4>1
      <4> QED
        BY <1>1, <1>5, <1>6, <1>12, <4>1, <4>2
    <3> QED
      BY <3>1, <3>2
  <2>2. x + 1 = 4 * k /\ cl.low = x + 1
    BY <1>1, <1>3, <1>5, <1>8, <2>1
  <2>3. CASE r = mapAt(m, low)
    <3>1. x \in adjacent(cl.low, cl.high, {"LO"})
      <4>1. config.unaligned \/ (x + 1) % 8 # 0
        BY <1>1, <1>9
      <4>2. x = cl.low - 1
        BY <1>1, <2>2
      <4> QED
        BY <1>1, <2>2, <4>1, <4>2 DEF adjacent
    <3>2. EdgeCut(m, low, high, d, u, x)
      <4>1. cl.low = r.low
        BY <1>3, <2>2
      <4> QED
        BY <1>2, <1>4, <2>3, <3>1, <4>1 DEF EdgeCut
    <3>3. mapped'[d][x] = {}
      BY <1>1, <3>2, MapCuts DEF LeavesBound
    <3> QED
      BY <1>9, <3>3
  <2>4. CASE r # mapAt(m, low)
    <3>1. ~(4 * k <= low /\ low <= 4 * q - 1)
      BY <1>1, <1>10, <2>4
    <3>2. low <= x /\ x + 1 <= high
      BY <1>1, <1>3, <2>2, <3>1
    <3> QED
      BY <3>2, AcrossBound
  <2> QED
    BY <2>3, <2>4
<1> QED
  BY <1>1, <1>11, <1>12

\* An access keeps the invariant.
LEMMA BoundMap ==
  ASSUME TypeOK, BoundInv, NEW m, NEW a \in Accesses, config.unaligned \/ aligned(a[2], a[3]),
         mapPMP(m, a[1], a[2], a[3])
  PROVE  BoundInv'
<1> DEFINE low == a[2]
           high == a[3]
<1>1. config' = config /\ pmpcfg' = pmpcfg /\ pmpaddr' = pmpaddr /\ mseccfg' = mseccfg
  BY DEF mapPMP
<1> SUFFICES ASSUME config.straddle, WholeWords, NEW d \in Domain, UsesAll(mseccfg, d)
             PROVE  NotSplit(mapped', pmpcfg, pmpaddr, d)
  BY <1>1, BoundPrime
<1>2. Regs(pmpcfg, pmpaddr) /\ NotSplit(mapped, pmpcfg, pmpaddr, d)
  BY TypesOf DEF BoundInv
<1>3. CASE mapped'[d] = mapped[d]
  BY <1>2, <1>3 DEF NotSplit, Together
<1>4. CASE mapped'[d] # mapped[d]
  <2>1. d[1] = m /\ \A z \in Addr : ByteEffect(m, low, high, d, z)
    BY <1>4, MapEffect, Zenon
  <2> SUFFICES ASSUME NEW x \in Addr, x + 1 \in Addr, Together(mapped', d, x),
                      NEW g, NEW h, Governs(pmpcfg, pmpaddr, g, x),
                      Governs(pmpcfg, pmpaddr, h, x + 1), g # h
               PROVE  FALSE
    BY Zenon DEF NotSplit
  <2>2. LeavesBound(m, a[1], low, high, d, x)
    BY <2>1, PmpAssumption DEF LeavesBound
  <2>3. ASSUME NEW z \in Addr, mapped'[d][z] # {},
               \/ z \in {x, x + 1}
               \/ config.unaligned /\ config.decompose /\ z \in (x - 3)..(x + 4)
        PROVE  mapped[d][z] # {}
    <3>1. CASE mapped'[d][z] \in {{}, mapped[d][z]}
      BY <2>3, <3>1
    <3>2. CASE ~(mapped'[d][z] \in {{}, mapped[d][z]})
      <4>1. PICK u \in low..high : /\ z \in GrantedBytes(m, low, high, u)
                                   /\ mapped'[d][z] = domainPriv(d, mapAt(m, u).priv)
        BY <2>1, <3>2 DEF ByteEffect
      <4>2. domainPriv(d, mapAt(m, u).priv) # {}
        BY <2>3, <4>1
      <4> HIDE DEF low, high
      <4> QED
        BY <1>2, <2>2, <2>3, <4>1, <4>2, NoGrantAtBound
    <3> QED
      BY <3>1, <3>2
  <2>4. mapped'[d][x] # {} /\ mapped'[d][x + 1] # {}
    BY DEF Together
  <2>5. mapped[d][x] # {} /\ mapped[d][x + 1] # {}
    BY <2>3, <2>4
  <2>6. config.unaligned /\ config.decompose => \A z \in (x - 3)..(x + 4) : mapped[d][z] # {}
    <3> SUFFICES ASSUME config.unaligned, config.decompose, NEW z \in (x - 3)..(x + 4)
                 PROVE  mapped[d][z] # {}
      OBVIOUS
    <3>1. x % 8 = 3 /\ mapped'[d][z] # {}
      BY DEF Together
    <3>2. z \in Addr
      BY <3>1, BlockIs
    <3> QED
      BY <2>3, <3>1, <3>2
  <2>7. Together(mapped, d, x)
    BY <2>5, <2>6 DEF Together
  <2> QED
    BY <1>2, <2>7, Zenon DEF NotSplit
<1> QED
  BY <1>3, <1>4

\* Reset leaves nothing mapped below M mode, and M mode without MML.
LEMMA BoundReset ==
  ASSUME TypeOK, MappedWithinPMP, riscvVMResetPMP
  PROVE  BoundInv'
<1>1. config' = config /\ mseccfg' = NoSec /\ pmpcfg' = [i \in Entry |-> NoCfg]
  BY Zenon DEF riscvVMResetPMP
<1>2. ASSUME NEW d \in Domain, UsesAll(mseccfg', d), NEW x \in Addr PROVE mapped'[d][x] = {}
  <2>1. d[1] = "S"
    BY <1>1, <1>2 DEF UsesAll, NoSec
  <2>2. SoundIn(mapped', mseccfg', pmpcfg', pmpaddr', d)
    BY <2>1, ResetStep DEF Covered
  <2>3. \A j \in Entry : x \notin region(pmpcfg', pmpaddr', j)
    <3>1. \A j \in Entry : pmpcfg'[j] = NoCfg
      BY <1>1
    <3> QED
      BY <3>1, OffEmpty
  <2>4. Governs(pmpcfg', pmpaddr', NumPMP, x) /\ NumPMP \in 0..NumPMP
    BY <2>3, PmpAssumption DEF Governs
  <2>5. PrivOf(mseccfg', pmpcfg', d[1], NumPMP) = {}
    BY <2>1 DEF PrivOf, getPMPUnmatchedMode
  <2> QED
    BY <2>2, <2>4, <2>5 DEF SoundIn
<1>3. \A d \in Domain : UsesAll(mseccfg', d) => NotSplit(mapped', pmpcfg', pmpaddr', d)
  BY <1>2 DEF NotSplit, Together
<1> QED
  BY <1>1, <1>3, BoundPrime

\* A write of mseccfg keeps the invariant: where M mode comes to use all entries
\* nothing is left mapped.
LEMMA BoundSec ==
  ASSUME TypeOK, BoundInv, NEW v, mseccfgW(v)
  PROVE  BoundInv'
<1>1. config' = config /\ pmpcfg' = pmpcfg /\ pmpaddr' = pmpaddr
  BY DEF mseccfgW
<1>2. CASE mseccfg'.MML = mseccfg.MML /\ mseccfg'.MMWP = mseccfg.MMWP
  <2>1. mapped' = mapped
    BY <1>2 DEF mseccfgW
  <2> QED
    BY <1>1, <1>2, <2>1, BoundPrime DEF BoundInv, UsesAll
<1>3. CASE ~(mseccfg'.MML = mseccfg.MML /\ mseccfg'.MMWP = mseccfg.MMWP)
  <2> DEFINE lost == [n \in Mode |-> Addr]
  <2>1. mapped' = unmap(lost)
    BY <1>3 DEF mseccfgW
  <2>2. \A d \in Domain : lost[d[1]] = Addr
    BY DEF Domain
  <2> HIDE DEF lost
  <2>3. \A d \in Domain, x \in Addr : mapped'[d][x] = {}
    BY <2>1, <2>2, UnmapIs
  <2>4. \A d \in Domain : NotSplit(mapped', pmpcfg', pmpaddr', d)
    BY <2>3 DEF NotSplit, Together
  <2> QED
    BY <1>1, <2>4, BoundPrime
<1> QED
  BY <1>2, <1>3

\* Every step keeps the invariant: one step of the proof per operation.
LEMMA NextBoundInv ==
  ASSUME IInv, BoundInv, [Next]_vars
  PROVE  BoundInv'
<1>1. TypeOK /\ MappedWithinPMP
  BY DEF IInv
<1>2. ASSUME NEW r, NEW src \in [cfgEntries(r) -> CfgValues], riscvVMWritePMPCFG(r, src)
      PROVE  BoundInv'
  <2>1. config' = config /\ mseccfg' = mseccfg
    BY <1>2 DEF riscvVMWritePMPCFG
  <2>2. GovernorKept(pmpcfg', pmpaddr')
    BY <1>1, <1>2, CfgStep
  <2> QED
    BY <2>1, <2>2, BoundWrite
<1>3. ASSUME NEW i \in Entry, NEW v \in AddrValues, riscvVMWritePMPAddr(i, v)
      PROVE  BoundInv'
  <2>1. config' = config /\ mseccfg' = mseccfg
    BY <1>3 DEF riscvVMWritePMPAddr
  <2>2. GovernorKept(pmpcfg', pmpaddr')
    BY <1>1, <1>3, AddrStep
  <2> QED
    BY <2>1, <2>2, BoundWrite
<1>4. ASSUME NEW v, mseccfgW(v) PROVE BoundInv'
  BY <1>1, <1>4, BoundSec
<1>5. ASSUME riscvVMResetPMP PROVE BoundInv'
  BY <1>1, <1>5, BoundReset
<1>6. ASSUME NEW m \in Mode, NEW a \in Accesses, config.unaligned \/ aligned(a[2], a[3]),
             mapPMP(m, a[1], a[2], a[3])
      PROVE  BoundInv'
  BY <1>1, <1>6, BoundMap
<1>7. CASE UNCHANGED vars
  <2>1. /\ config' = config /\ pmpcfg' = pmpcfg /\ pmpaddr' = pmpaddr
        /\ mseccfg' = mseccfg /\ mapped' = mapped
    BY <1>7 DEF vars
  <2> QED
    BY <2>1, BoundPrime DEF BoundInv
<1> QED
  BY <1>2, <1>3, <1>4, <1>5, <1>6, <1>7, Zenon DEF Next

\* The bytes of a word are governed by one entry.
LEMMA WordGoverned ==
  ASSUME Regs(pmpcfg, pmpaddr), NEW x \in Addr, NEW y \in Addr, x \div 4 = y \div 4
  PROVE  governing(x) = governing(y)
<1>1. PICK r : r = mapAt("S", x)
  OBVIOUS
<1>2. PICK p, q \in Nat, pr \in Priv :
        r = [low |-> 4 * p, high |-> 4 * q - 1, priv |-> pr] /\ 4 * p <= x /\ x <= 4 * q - 1
  BY <1>1, RangeWords
<1>3. 4 * p <= y /\ y <= 4 * q - 1
  BY <1>2, PmpAssumption DEF Addr
<1>4. r.low = 4 * p /\ r.high = 4 * q - 1
  BY <1>2
<1>5. r.low <= x /\ x <= r.high /\ r.low <= y /\ y <= r.high
  BY <1>2, <1>3, <1>4
<1>6. /\ Governs(pmpcfg, pmpaddr, governing(x), x)
      /\ Governs(pmpcfg, pmpaddr, governing(y), y)
  BY GoverningIs
<1> QED
  BY <1>1, <1>5, <1>6, RangeOne

\* The invariant says that accesses that hit and are not divided are within one
\* region.
LEMMA BoundStraddle ==
  ASSUME TypeOK, BoundInv, WholeWords, NEW m \in Mode, m = "S" \/ mseccfg.MML,
         NEW a \in Accesses, undivided(a[2], a[3]), hit(m, a[1], a[2], a[3])
  PROVE  oneRegion(a[2], a[3])
<1>1. PICK low, high : low = a[2] /\ high = a[3]
  OBVIOUS
<1>2. PICK d : d = domainOf(m, a[1])
  OBVIOUS
<1>3. /\ low \in Addr /\ high \in Addr /\ low \in Nat /\ high \in Nat
      /\ high - low + 1 \in {1, 2, 4, 8} /\ low..high \subseteq Addr
  BY <1>1, PmpAssumption DEF Addr
<1>4. Regs(pmpcfg, pmpaddr) /\ config \in Configs
  BY TypesOf
<1>5. d \in Domain /\ UsesAll(mseccfg, d)
  BY <1>2 DEF domainOf, Domain, UsesAll
<1>6. \A x \in low..high : mapped[d][x] # {}
  BY <1>1, <1>2 DEF hit
<1>7. ASSUME NEW x \in Addr, x + 1 \in Addr, config.straddle, Together(mapped, d, x)
      PROVE  governing(x) = governing(x + 1)
  <2>1. NotSplit(mapped, pmpcfg, pmpaddr, d)
    BY <1>5, <1>7 DEF BoundInv
  <2>2. /\ Governs(pmpcfg, pmpaddr, governing(x), x)
        /\ Governs(pmpcfg, pmpaddr, governing(x + 1), x + 1)
    BY GoverningIs
  <2> QED
    BY <1>7, <2>1, <2>2, Zenon DEF NotSplit
<1>8. CASE config.unaligned /\ ~config.decompose
  <2>1. ASSUME NEW x \in Nat, low <= x, x < high PROVE governing(x) = governing(x + 1)
    <3>1. x \in low..high /\ x + 1 \in low..high
      BY <1>3, <2>1
    <3>2. Together(mapped, d, x)
      BY <1>6, <1>8, <3>1 DEF Together
    <3>3. config.straddle
      BY <1>4, <1>8, PmpAssumption
    <3> QED
      BY <1>3, <1>7, <3>1, <3>2, <3>3
  <2> DEFINE T == {n \in Nat : low + n <= high /\ governing(low + n) # governing(low)}
  <2>2. T = {}
    <3> SUFFICES ASSUME T # {} PROVE FALSE
      OBVIOUS
    <3>1. PICK n \in T : \A j \in T : n <= j
      BY LeastNat
    <3>2. n # 0
      <4>1. low + 0 = low
        BY <1>3
      <4> QED
        BY <3>1, <4>1
    <3>3. PICK k : k = n - 1
      OBVIOUS
    <3>4. /\ k \in Nat /\ k \notin T /\ low + k \in Nat /\ low <= low + k /\ low + k < high
          /\ low + k + 1 = low + n
      BY <1>3, <3>1, <3>2, <3>3
    <3>5. governing(low + k) = governing(low)
      BY <1>3, <3>4
    <3>6. governing(low + k) = governing(low + k + 1)
      BY <2>1, <3>4
    <3> QED
      BY <3>1, <3>4, <3>5, <3>6
  <2>3. ASSUME NEW x \in low..high PROVE governing(x) = governing(low)
    <3>1. x - low \in Nat /\ low + (x - low) = x /\ x <= high
      BY <1>3
    <3>2. x - low \notin T
      BY <2>2
    <3> QED
      BY <3>1, <3>2
  <2> QED
    BY <1>1, <2>3 DEF oneRegion
<1>9. CASE aligned(low, high) /\ high - low + 1 # 8
  <2>1. ASSUME NEW x \in low..high PROVE governing(x) = governing(low)
    <3>1. x \div 4 = low \div 4
      BY <1>3, <1>9 DEF aligned
    <3> QED
      BY <1>3, <1>4, <3>1, WordGoverned
  <2> QED
    BY <1>1, <2>1 DEF oneRegion
<1>10. CASE aligned(low, high) /\ high - low + 1 = 8
  <2>1. PICK x : x = low + 3
    OBVIOUS
  <2>2. /\ low % 8 = 0 /\ high = low + 7 /\ x \in Addr /\ x + 1 \in Addr /\ x % 8 = 3
        /\ x \in low..high /\ x + 1 \in low..high /\ x - 3 = low /\ x + 4 = high
    BY <1>3, <1>10, <2>1, PmpAssumption DEF aligned, Addr
  <2>3. config.straddle
    <3>1. a[3] - a[2] > 3
      BY <1>1, <1>3, <1>10
    <3> QED
      BY <1>4, <3>1, PmpAssumption
  <2>4. Together(mapped, d, x)
    BY <1>6, <2>2 DEF Together
  <2>5. governing(x) = governing(x + 1)
    BY <1>7, <2>2, <2>3, <2>4
  <2>6. governing(low) = governing(x)
    <3>1. low \div 4 = x \div 4
      BY <1>3, <2>1, <2>2
    <3> QED
      BY <1>3, <1>4, <2>2, <3>1, WordGoverned
  <2>7. ASSUME NEW y \in low..high PROVE governing(y) = governing(low)
    <3>1. y \in Addr /\ (y \div 4 = x \div 4 \/ y \div 4 = (x + 1) \div 4)
      BY <1>3, <2>1, <2>2
    <3> QED
      BY <1>4, <2>2, <2>5, <2>6, <3>1, WordGoverned
  <2> QED
    BY <1>1, <2>7 DEF oneRegion
<1> QED
  BY <1>1, <1>8, <1>9, <1>10 DEF undivided

\* No access that spans two regions and must be refused hits, though ranges are
\* mapped lazily, page by page, and bounds move (pmpProtect, mapPMP).
THEOREM StraddlesMiss == Spec => []StraddleMisses
<1>1. Init => BoundInv
  BY DEF Init, BoundInv, NotSplit, Together
<1>2. IInv /\ BoundInv /\ [Next]_vars => BoundInv'
  BY NextBoundInv
<1>3. IInv /\ BoundInv => StraddleMisses
  <2> SUFFICES ASSUME IInv, BoundInv, WholeWords, NEW a \in Accesses,
                      NEW m \in {"S"} \cup (IF mseccfg.MML THEN {"M"} ELSE {}),
                      undivided(a[2], a[3]), hit(m, a[1], a[2], a[3])
               PROVE  oneRegion(a[2], a[3])
    BY DEF StraddleMisses, WholeWords
  <2>1. TypeOK /\ m \in Mode /\ (m = "S" \/ mseccfg.MML)
    BY DEF IInv, Mode
  <2> QED
    BY <2>1, BoundStraddle
<1> QED
  BY <1>1, <1>2, <1>3, AlwaysIInv, PTL DEF Spec
=============================================================================
