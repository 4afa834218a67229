---------------------------- MODULE CountersProofs ----------------------------
(***************************************************************************)
(* Proofs about the counters, for any width of them and any harts.         *)
(***************************************************************************)
EXTENDS CountersProperties, TLAPS

-----------------------------------------------------------------------------
(* Arithmetic modulo the number of values of a counter.                    *)

\* The number of values of a counter is positive.
LEMMA Modulus == Half * Half \in Nat \ {0}
  BY CountersAssumption

\* Division by a positive number.
LEMMA Division ==
  ASSUME NEW k \in Nat \ {0}, NEW x \in Int
  PROVE  /\ x % k \in 0..(k - 1) /\ x \div k \in Int
         /\ x = k * (x \div k) + (x % k)
OBVIOUS

\* Two numbers below k that differ by a multiple of it are equal.
LEMMA Remainder ==
  ASSUME NEW k \in Nat \ {0}, NEW a \in 0..(k - 1), NEW b \in 0..(k - 1),
         NEW p \in Int, NEW q \in Int, k * p + a = k * q + b
  PROVE  a = b
<1> DEFINE d == p - q
<1>1. d \in Int /\ k * d = b - a
  OBVIOUS
<1> HIDE DEF d
<1>2. d >= 1 => k * d >= k
  BY <1>1
<1>3. d <= -1 => k * d <= -k
  BY <1>1
<1>4. d = 0
  BY <1>1, <1>2, <1>3
<1> QED
  BY <1>1, <1>4

\* Numbers that differ by a multiple of k have the same remainder.
LEMMA SameRemainder ==
  ASSUME NEW k \in Nat \ {0}, NEW x \in Int, NEW y \in Int, NEW p \in Int, x = y + k * p
  PROVE  x % k = y % k
<1> DEFINE a == x % k
           b == y % k
           m == x \div k
           n == y \div k
<1>1. a \in 0..(k - 1) /\ m \in Int /\ x = k * m + a
  BY Division
<1>2. b \in 0..(k - 1) /\ n \in Int /\ y = k * n + b
  BY Division
<1> HIDE DEF a, b, m, n
<1>3. n + p \in Int /\ k * m + a = k * (n + p) + b
  BY <1>1, <1>2
<1>4. a = b
  BY <1>1, <1>2, <1>3, Remainder
<1> QED
  BY <1>4 DEF a, b

\* A number that wraps is a value of a counter.
LEMMA WrapType ==
  ASSUME NEW x \in Int
  PROVE  wrap(x) \in Value
BY Modulus, Division DEF wrap, Value

\* A value does not wrap.
LEMMA WrapValue ==
  ASSUME NEW x \in Value
  PROVE  wrap(x) = x
<1> DEFINE k == Half * Half
<1>1. k \in Nat \ {0} /\ x \in 0..(k - 1)
  BY Modulus DEF Value
<1>2. wrap(x) = x % k
  BY DEF wrap
<1> HIDE DEF k
<1> DEFINE a == x % k
           m == x \div k
<1>3. a \in 0..(k - 1) /\ m \in Int /\ x = k * m + a
  BY <1>1, Division
<1> HIDE DEF a, m
<1>4. k * m + a = k * 0 + x
  BY <1>1, <1>3
<1>5. a = x
  BY <1>1, <1>3, <1>4, Remainder
<1> QED
  BY <1>2, <1>5 DEF a

\* Sums and differences may be wrapped at any point.
LEMMA WrapAdd ==
  ASSUME NEW x \in Int, NEW y \in Int
  PROVE  wrap(wrap(x) + y) = wrap(x + y) /\ wrap(y - wrap(x)) = wrap(y - x)
<1> DEFINE k == Half * Half
           a == x % k
           m == x \div k
<1>1. k \in Nat \ {0}
  BY Modulus
<1>2. wrap(x) = a /\ wrap(wrap(x) + y) = (a + y) % k /\ wrap(y - wrap(x)) = (y - a) % k
      /\ wrap(x + y) = (x + y) % k /\ wrap(y - x) = (y - x) % k
  BY DEF wrap
<1> HIDE DEF k
<1>3. a \in Int /\ m \in Int /\ x = k * m + a
  BY <1>1, Division
<1> HIDE DEF a, m
<1>4. x + y = (a + y) + k * m /\ x + y \in Int /\ a + y \in Int
  BY <1>1, <1>3
<1>5. y - a = (y - x) + k * m /\ y - a \in Int /\ y - x \in Int
  BY <1>1, <1>3
<1>6. (x + y) % k = (a + y) % k
  BY <1>1, <1>3, <1>4, SameRemainder
<1>7. (y - a) % k = (y - x) % k
  BY <1>1, <1>3, <1>5, SameRemainder
<1> QED
  BY <1>2, <1>6, <1>7

\* Values are numbers.
LEMMA ValueInt == Value \subseteq Int /\ 0 \in Value
BY Modulus DEF Value

\* The two halves of a value.
LEMMA Halves ==
  ASSUME NEW v \in Value
  PROVE  v \div Half \in 0..(Half - 1) /\ v % Half \in 0..(Half - 1)
<1> DEFINE q == v \div Half
           r == v % Half
           h == Half
<1>1. h \in Nat \ {0} /\ v \in Int /\ v >= 0 /\ v < h * h
  BY CountersAssumption, Modulus DEF Value
<1>2. r \in 0..(h - 1) /\ q \in Int /\ v = h * q + r
  BY CountersAssumption, <1>1, Division
<1> HIDE DEF q, r, h
<1>3. q <= -1 => h * q <= -h
  BY <1>1, <1>2
<1>4. q >= h => h * q >= h * h
  BY <1>1, <1>2
<1>5. q \in 0..(h - 1)
  BY <1>1, <1>2, <1>3, <1>4
<1> QED
  BY <1>2, <1>5 DEF q, r, h

\* A value is made of any two halves.
LEMMA MakeValue ==
  ASSUME NEW u \in 0..(Half - 1), NEW l \in 0..(Half - 1)
  PROVE  (u * Half) + l \in Value
<1>1. Half \in Nat \ {0} /\ u \in Int /\ 0 <= u /\ u <= Half - 1
  BY CountersAssumption
<1>2. u * Half <= (Half - 1) * Half /\ u * Half >= 0 /\ u * Half \in Int
  BY <1>1
<1>3. (Half - 1) * Half = Half * Half - Half
  BY <1>1
<1>4. Half * Half \in Int
  BY <1>1
<1> QED
  BY <1>1, <1>2, <1>3, <1>4 DEF Value

\* What a CSR write makes of a counter is a value of it.
LEMMA WrittenType ==
  ASSUME NEW part \in {"all", "lower", "upper"}, NEW v \in Value, NEW old \in Value
  PROVE  written(part, v, old) \in Value
<1>1. setLower(v, old) \in Value
  BY Halves, MakeValue DEF setLower
<1>2. setUpper(v, old) \in Value
  BY Halves, MakeValue DEF setUpper
<1> QED
  BY <1>1, <1>2 DEF written

-----------------------------------------------------------------------------
(* The inductive invariant.                                                *)

(***************************************************************************)
(* A counter that mcountinhibit stops has the count as its base, one that  *)
(* Debug mode stops the count less one (the conversions on entry and exit  *)
(* both leave out an instruction), and one that runs the difference.       *)
(***************************************************************************)
Exact(s, c) ==
  IF c \in s.countinhibit THEN s.base[c] = s.count[c]
  ELSE IF stopCount(s, c) THEN s.base[c] = wrap(s.count[c] - 1)
  ELSE wrap(s.icount[c] - s.base[c]) = s.count[c]

IInv ==
  /\ config \in Configs
  /\ hart \in Hart
  /\ \A c \in Counter \ hart.stale : Exact(hart, c)

-----------------------------------------------------------------------------
(* Operators.                                                              *)

\* t is s with other bases.
Rebased(s, t) ==
  /\ t \in Hart
  /\ t.icount = s.icount /\ t.countinhibit = s.countinhibit /\ t.stopcount = s.stopcount
  /\ t.DM = s.DM /\ t.count = s.count /\ t.stale = s.stale

\* A change of one base.
setBase(s, c, v) == [s EXCEPT !.base[c] = v]

\* It leaves the rest of the state.
LEMMA SetBase ==
  ASSUME NEW s \in Hart, NEW c \in Counter, NEW v \in Value, NEW t, t = setBase(s, c, v)
  PROVE  Rebased(s, t) /\ t.base[c] = v /\ \A d \in Counter \ {c} : t.base[d] = s.base[d]
<1> DEFINE b == [s.base EXCEPT ![c] = v]
<1>1. t = [s EXCEPT !.base = b]
  BY DEF setBase
<1>2. b \in [Counter -> Value] /\ b[c] = v /\ \A d \in Counter \ {c} : b[d] = s.base[d]
  BY DEF Hart
<1> HIDE DEF b
<1>3. t \in Hart
  BY <1>1, <1>2 DEF Hart
<1>4. t.base = b
  BY <1>1 DEF Hart
<1>5. /\ t.icount = s.icount /\ t.countinhibit = s.countinhibit /\ t.stopcount = s.stopcount
      /\ t.DM = s.DM /\ t.count = s.count /\ t.stale = s.stale
  BY <1>1 DEF Hart
<1> QED
  BY <1>2, <1>3, <1>4, <1>5 DEF Rebased

\* Inhibition does not depend on the bases.
LEMMA RebasedInhibited ==
  ASSUME NEW s, NEW t, Rebased(s, t), NEW c
  PROVE  stopCount(t, c) = stopCount(s, c) /\ inhibited(t, c) = inhibited(s, c)
BY DEF Rebased, stopCount, inhibited

\* Counts and bases are numbers.
LEMMA CountType ==
  ASSUME NEW s \in Hart, NEW c \in Counter
  PROVE  /\ s.icount[c] \in Int /\ s.base[c] \in Int /\ s.count[c] \in Int
         /\ s.icount[c] \in Value /\ s.base[c] \in Value /\ s.count[c] \in Value
<1>1. s.icount[c] \in Value /\ s.base[c] \in Value /\ s.count[c] \in Value
  BY DEF Hart
<1> QED
  BY <1>1, ValueInt

\* Reading a counter between instructions, and in one.
LEMMA CounterR ==
  ASSUME NEW s \in Hart, NEW c \in Counter
  PROVE  /\ counterR(s, c, TRUE) = IF inhibited(s, c) THEN s.base[c]
                                   ELSE wrap(s.icount[c] - s.base[c])
         /\ counterR(s, c, FALSE) = IF inhibited(s, c) THEN s.base[c]
                                    ELSE wrap(s.icount[c] - 1 - s.base[c])
         /\ counterR(s, c, TRUE) \in Value /\ counterR(s, c, FALSE) \in Value
<1>1. /\ s.icount[c] - s.base[c] \in Int /\ s.icount[c] - 1 - s.base[c] \in Int
      /\ s.base[c] \in Value /\ s.icount[c] - 0 = s.icount[c]
  BY CountType
<1>2. wrap(s.icount[c] - s.base[c]) \in Value /\ wrap(s.icount[c] - 1 - s.base[c]) \in Value
  BY <1>1, WrapType
<1>3. getCount(s, c, TRUE) = s.icount[c] - 0 /\ getCount(s, c, FALSE) = s.icount[c] - 1
  BY Zenon DEF getCount
<1> QED
  BY <1>1, <1>2, <1>3, Zenon DEF counterR

\* Writing a counter: the two instructions that it may have to allow for are
\* g, the current one, and e, the one that preIncrement leaves out.
LEMMA WriteCounter ==
  ASSUME NEW s \in Hart, NEW c \in Counter, NEW v \in Int, NEW pre \in BOOLEAN, NEW aa \in BOOLEAN,
         NEW t, t = counterW(s, c, v, pre, aa),
         NEW g, g = IF aa THEN 0 ELSE 1, NEW e, e = IF pre /\ ~aa THEN 1 ELSE 0
  PROVE  /\ Rebased(s, t)
         /\ \A d \in Counter \ {c} : t.base[d] = s.base[d]
         /\ t.base[c] = IF inhibited(s, c) THEN wrap(v + e) ELSE wrap(s.icount[c] - g - v + e)
<1>0. g \in {0, 1} /\ e \in {0, 1}
  OBVIOUS
<1>1. s.icount[c] \in Int
  BY CountType
<1> DEFINE w == IF inhibited(s, c) THEN v ELSE s.icount[c] - g - v
<1>2. t = [s EXCEPT !.base[c] = wrap(w + e)]
  BY Zenon DEF counterW, getCount
<1>3. w + e \in Int
  BY <1>0, <1>1
<1>4. wrap(w + e) \in Value
  BY <1>3, WrapType
<1>5. /\ Rebased(s, t) /\ t.base[c] = wrap(w + e)
      /\ \A d \in Counter \ {c} : t.base[d] = s.base[d]
  <2> HIDE DEF w
  <2>1. PICK x \in Value : x = wrap(w + e)
    BY <1>4
  <2>2. t = setBase(s, c, x)
    BY <1>2, <2>1, Zenon DEF setBase
  <2>3. Rebased(s, t) /\ t.base[c] = x /\ \A d \in Counter \ {c} : t.base[d] = s.base[d]
    BY <2>1, <2>2, SetBase
  <2> QED
    BY <2>1, <2>3
<1>6. inhibited(s, c) => w = v
  OBVIOUS
<1>7. ~inhibited(s, c) => w = s.icount[c] - g - v
  OBVIOUS
<1> QED
  BY <1>5, <1>6, <1>7, Zenon

(***************************************************************************)
(* How often a conversion leaves out the current instruction: not at all   *)
(* for a CSR write, once on entry to and exit from Debug mode.             *)
(***************************************************************************)
Excludes(pre, aa, d) == (pre /\ d = 0) \/ (~pre /\ ~aa /\ d = 1)

\* A counter that starts or stops: both directions are the same conversion.
LEMMA PostInhibit ==
  ASSUME NEW s \in Hart, NEW n \in Hart, NEW c \in Counter, NEW pre \in BOOLEAN, NEW aa \in BOOLEAN,
         NEW d, Excludes(pre, aa, d), n.icount[c] = s.icount[c], n.base[c] = s.base[c],
         NEW t, t = postInhibit(n, riscvPreInhibit(s, aa), c, pre, aa)
  PROVE  /\ Rebased(n, t)
         /\ \A x \in Counter \ {c} : t.base[x] = n.base[x]
         /\ t.base[c] = IF inhibited(s, c) = inhibited(n, c) THEN s.base[c]
                        ELSE wrap(s.icount[c] - d - s.base[c])
<1> DEFINE old == riscvPreInhibit(s, aa)
           val == counterR(s, c, aa)
           one == IF pre /\ inhibited(s, c) /\ ~aa THEN 1 ELSE 0
           p == pre /\ ~inhibited(s, c)
           g == IF aa THEN 0 ELSE 1
           e == IF p /\ ~aa THEN 1 ELSE 0
           i == s.icount[c]
           b == s.base[c]
<1>1. i \in Int /\ b \in Int /\ b \in Value /\ n.icount[c] = i /\ n.base[c] = b
  BY CountType
<1>2. g \in {0, 1} /\ e \in {0, 1} /\ one \in {0, 1} /\ d \in {0, 1}
  BY DEF Excludes
<1>3. old[c].inhibit = inhibited(s, c) /\ old[c].value = val
  BY DEF riscvPreInhibit
<1>4. val = IF inhibited(s, c) THEN b ELSE wrap(i - g - b)
  BY Zenon DEF counterR, getCount
<1>5. wrap(i - g - b) \in Int
  <2>1. i - g - b \in Int
    BY <1>1, <1>2
  <2> QED
    BY <2>1, WrapType, ValueInt
<1>6. val \in Int
  BY <1>1, <1>4, <1>5, Zenon
<1>7. t = IF inhibited(s, c) = inhibited(n, c) THEN n ELSE counterW(n, c, val - one, p, aa)
  BY <1>3, Zenon DEF postInhibit
<1>8. CASE inhibited(s, c) = inhibited(n, c)
  <2>1. t = n
    BY <1>7, <1>8, Zenon
  <2> QED
    BY <1>1, <1>8, <2>1 DEF Rebased
<1>9. CASE ~(inhibited(s, c) = inhibited(n, c))
  <2>1. t = counterW(n, c, val - one, p, aa)
    BY <1>7, <1>9, Zenon
  <2>2. p \in BOOLEAN /\ val - one \in Int
    BY <1>2, <1>6 DEF inhibited
  <2>3. PICK v \in Int : v = val - one
    BY <2>2
  <2>4. PICK q \in BOOLEAN : q = p
    BY <2>2, Zenon
  <2>5. PICK f : f = IF q /\ ~aa THEN 1 ELSE 0
    OBVIOUS
  <2>6. PICK h : h = IF aa THEN 0 ELSE 1
    OBVIOUS
  <2>7. t = counterW(n, c, v, q, aa) /\ f = e /\ h = g
    BY <2>1, <2>3, <2>4, <2>5, <2>6, Zenon
  <2>8. /\ Rebased(n, t) /\ \A x \in Counter \ {c} : t.base[x] = n.base[x]
        /\ t.base[c] = IF inhibited(n, c) THEN wrap(v + f) ELSE wrap(n.icount[c] - h - v + f)
    BY <2>5, <2>6, <2>7, WriteCounter
  <2>9. t.base[c] = wrap(i - d - b)
    <3>1. CASE inhibited(s, c)
      <4>1. val = b /\ e = 0 /\ one = IF pre /\ ~aa THEN 1 ELSE 0
        BY <1>4, <3>1, Zenon
      <4>2. i - g - (b - one) + 0 = i - d - b
        BY <1>1, <4>1 DEF Excludes
      <4>3. t.base[c] = wrap(i - g - (b - one) + 0)
        BY <1>1, <1>9, <2>3, <2>7, <2>8, <3>1, <4>1, Zenon DEF inhibited
      <4> QED
        BY <4>2, <4>3, Zenon
    <3>2. CASE ~inhibited(s, c)
      <4>1. val = wrap(i - g - b) /\ one = 0 /\ e = IF pre /\ ~aa THEN 1 ELSE 0
        BY <1>4, <3>2, Zenon
      <4>2. i - g - b + e = i - d - b
        BY <1>1, <4>1 DEF Excludes
      <4>3. v = wrap(i - g - b)
        BY <1>5, <2>3, <4>1
      <4>4. t.base[c] = wrap(wrap(i - g - b) + e)
        BY <1>9, <2>7, <2>8, <3>2, <4>3, Zenon DEF inhibited
      <4>5. wrap(wrap(i - g - b) + e) = wrap(i - g - b + e)
        <5>1. i - g - b \in Int /\ e \in Int
          BY <1>1, <1>2
        <5> HIDE DEF e, g, i, b
        <5> QED
          BY <5>1, WrapAdd
      <4> QED
        BY <4>2, <4>4, <4>5, Zenon
    <3> QED
      BY <3>1, <3>2
  <2> QED
    BY <1>9, <2>8, <2>9, Zenon
<1> QED
  BY <1>8, <1>9, Zenon

\* Starting and stopping: each counter is converted if its inhibition changes.
LEMMA Change ==
  ASSUME NEW s \in Hart, NEW n \in Hart, NEW pre \in BOOLEAN, NEW aa \in BOOLEAN,
         NEW d, Excludes(pre, aa, d), n.icount = s.icount, n.base = s.base,
         NEW t, t = change(s, n, pre, aa)
  PROVE  /\ Rebased(n, t)
         /\ \A c \in Counter :
              /\ (inhibited(s, c) <=> inhibited(n, c)) => t.base[c] = s.base[c]
              /\ ~(inhibited(s, c) <=> inhibited(n, c)) =>
                   t.base[c] = wrap(s.icount[c] - d - s.base[c])
<1>0. "cycle" \in Counter /\ "instret" \in Counter /\ Counter \ {"cycle"} = {"instret"}
      /\ Counter \ {"instret"} = {"cycle"}
  BY DEF Counter
<1>1. PICK m : m = postInhibit(n, riscvPreInhibit(s, aa), "cycle", pre, aa)
  OBVIOUS
<1>2. t = postInhibit(m, riscvPreInhibit(s, aa), "instret", pre, aa)
  BY <1>1, Zenon DEF change, riscvPostInhibit
<1>3. /\ Rebased(n, m)
      /\ \A x \in Counter \ {"cycle"} : m.base[x] = n.base[x]
      /\ m.base["cycle"] = IF inhibited(s, "cycle") = inhibited(n, "cycle") THEN s.base["cycle"]
                           ELSE wrap(s.icount["cycle"] - d - s.base["cycle"])
  BY <1>0, <1>1, PostInhibit
<1>4. m \in Hart /\ m.icount["instret"] = s.icount["instret"]
      /\ m.base["instret"] = s.base["instret"] /\ inhibited(m, "instret") = inhibited(n, "instret")
  BY <1>0, <1>3, RebasedInhibited DEF Rebased
<1>5. /\ Rebased(m, t)
      /\ \A x \in Counter \ {"instret"} : t.base[x] = m.base[x]
      /\ t.base["instret"] = IF inhibited(s, "instret") = inhibited(m, "instret")
                             THEN s.base["instret"]
                             ELSE wrap(s.icount["instret"] - d - s.base["instret"])
  BY <1>0, <1>2, <1>4, PostInhibit
<1>6. Rebased(n, t)
  BY <1>3, <1>5 DEF Rebased
<1>7. t.base["cycle"] = m.base["cycle"]
  BY <1>0, <1>5
<1>8. ASSUME NEW c \in Counter
      PROVE  t.base[c] = IF inhibited(s, c) = inhibited(n, c) THEN s.base[c]
                         ELSE wrap(s.icount[c] - d - s.base[c])
  <2>1. CASE c = "cycle"
    BY <1>3, <1>7, <2>1, Zenon
  <2>2. CASE c = "instret"
    BY <1>4, <1>5, <2>2, Zenon
  <2> QED
    BY <2>1, <2>2 DEF Counter
<1> QED
  BY <1>6, <1>8, Zenon DEF inhibited

-----------------------------------------------------------------------------
(* Conversions keep the counts.                                            *)

\* Calculations with a count i of instructions and a base b.
LEMMA Calculate ==
  ASSUME NEW i \in Int, NEW b \in Int, NEW d \in Int
  PROVE  /\ wrap(i - wrap(i - d - b)) = wrap(b + d)
         /\ wrap(wrap(i - b) - 1) = wrap(i - 1 - b)
         /\ wrap(wrap(b - 1) + 1) = wrap(b)
         /\ wrap(wrap(i + 1) - b) = wrap(wrap(i - b) + 1)
         /\ wrap(wrap(i + 1) - wrap(b + 1)) = wrap(i - b)
         /\ wrap(wrap(i + 1) - 1 - b) = wrap(i - b)
<1>1. wrap(i - wrap(i - d - b)) = wrap(b + d)
  <2>1. PICK x \in Int : x = i - d - b
    OBVIOUS
  <2>2. wrap(i - wrap(x)) = wrap(i - x)
    BY <2>1, WrapAdd
  <2>3. i - x = b + d
    BY <2>1
  <2> QED
    BY <2>1, <2>2, <2>3, Zenon
<1>2. wrap(i - b) \in Int /\ wrap(i + 1) \in Int /\ b + 1 \in Int /\ i + 1 \in Int
  <2>1. i - b \in Int /\ b + 1 \in Int /\ i + 1 \in Int
    OBVIOUS
  <2>2. wrap(i - b) \in Value /\ wrap(i + 1) \in Value
    BY <2>1, WrapType, Zenon
  <2> QED
    BY <2>1, <2>2, ValueInt
<1>3. wrap(wrap(i - b) - 1) = wrap(i - 1 - b)
  <2>1. wrap(wrap(i - b) + (-1)) = wrap((i - b) + (-1))
    BY WrapAdd
  <2> QED
    BY <1>2, <2>1
<1>4. wrap(wrap(b - 1) + 1) = wrap(b)
  <2>1. wrap(wrap(b - 1) + 1) = wrap((b - 1) + 1)
    BY WrapAdd
  <2> QED
    BY <2>1
<1>5. wrap(wrap(i + 1) - b) = wrap(wrap(i - b) + 1)
  <2>1. wrap(wrap(i + 1) + (-b)) = wrap((i + 1) + (-b))
    BY WrapAdd
  <2>2. wrap(wrap(i - b) + 1) = wrap((i - b) + 1)
    BY WrapAdd
  <2>3. wrap(i + 1) + (-b) = wrap(i + 1) - b /\ (i + 1) + (-b) = (i - b) + 1
    BY <1>2
  <2> QED
    BY <2>1, <2>2, <2>3
<1>6. wrap(wrap(i + 1) - wrap(b + 1)) = wrap(i - b)
  <2>1. wrap(wrap(i + 1) - wrap(b + 1)) = wrap(wrap(i + 1) - (b + 1))
    BY <1>2, WrapAdd
  <2>2. wrap(wrap(i + 1) + (-(b + 1))) = wrap((i + 1) + (-(b + 1)))
    BY WrapAdd
  <2>3. wrap(i + 1) + (-(b + 1)) = wrap(i + 1) - (b + 1) /\ (i + 1) + (-(b + 1)) = i - b
    BY <1>2
  <2> QED
    BY <2>1, <2>2, <2>3
<1>7. wrap(wrap(i + 1) - 1 - b) = wrap(i - b)
  <2>1. wrap(wrap(i + 1) + (-1 - b)) = wrap((i + 1) + (-1 - b))
    BY WrapAdd
  <2>2. wrap(i + 1) + (-1 - b) = wrap(i + 1) - 1 - b /\ (i + 1) + (-1 - b) = i - b
    BY <1>2
  <2> QED
    BY <2>1, <2>2
<1> QED
  BY <1>1, <1>3, <1>4, <1>5, <1>6, <1>7

\* A write of mcountinhibit, or of dcsr outside Debug mode that stops counters.
LEMMA CsrChange ==
  ASSUME NEW s \in Hart, NEW n \in Hart, NEW aa \in BOOLEAN, n.icount = s.icount, n.base = s.base,
         NEW pre \in BOOLEAN, NEW d, Excludes(pre, aa, d), d = 0,
         NEW t, t = change(s, n, pre, aa),
         NEW c \in Counter, n.count[c] = s.count[c]
  PROVE  Exact(s, c) /\ ~stopCount(s, c) /\ ~stopCount(n, c) => Exact(t, c)
<1> DEFINE i == s.icount[c]
           b == s.base[c]
<1>3. /\ Rebased(n, t)
      /\ (inhibited(s, c) <=> inhibited(n, c)) => t.base[c] = b
      /\ ~(inhibited(s, c) <=> inhibited(n, c)) => t.base[c] = wrap(i - 0 - b)
  <2>1. /\ Rebased(n, t)
        /\ \A x \in Counter :
             /\ (inhibited(s, x) <=> inhibited(n, x)) => t.base[x] = s.base[x]
             /\ ~(inhibited(s, x) <=> inhibited(n, x)) =>
                  t.base[x] = wrap(s.icount[x] - d - s.base[x])
    BY Change
  <2> QED
    BY <2>1
<1> HAVE Exact(s, c) /\ ~stopCount(s, c) /\ ~stopCount(n, c)
<1>4. /\ t.icount[c] = i /\ t.count[c] = s.count[c] /\ ~stopCount(t, c)
      /\ c \in t.countinhibit <=> c \in n.countinhibit
  BY <1>3, RebasedInhibited DEF Rebased
<1>5. i \in Int /\ b \in Int /\ b \in Value /\ i - 0 - b = i - b
  BY CountType
<1>6. /\ inhibited(s, c) <=> c \in s.countinhibit
      /\ inhibited(n, c) <=> c \in n.countinhibit
  BY DEF inhibited
<1>7. wrap(i - wrap(i - 0 - b)) = wrap(b + 0) /\ wrap(b + 0) = b
  <2>1. b + 0 = b /\ wrap(b) = b
    BY <1>5, WrapValue
  <2>2. \A k \in Int : wrap(i - wrap(i - k - b)) = wrap(b + k)
    BY <1>5, Calculate, ZenonT(60)
  <2> QED
    BY <2>1, <2>2
<1> HIDE DEF i, b
<1>8. CASE c \in s.countinhibit
  <2>1. b = s.count[c]
    BY <1>8 DEF Exact, b
  <2>2. CASE c \in n.countinhibit
    BY <1>3, <1>4, <1>6, <1>8, <2>1, <2>2 DEF Exact
  <2>3. CASE c \notin n.countinhibit
    <3>1. t.base[c] = wrap(i - 0 - b)
      BY <1>3, <1>6, <1>8, <2>3
    <3> QED
      BY <1>4, <1>7, <2>1, <2>3, <3>1 DEF Exact
  <2> QED
    BY <2>2, <2>3
<1>9. CASE c \notin s.countinhibit
  <2>1. wrap(i - b) = s.count[c]
    BY <1>9 DEF Exact, i, b
  <2>2. CASE c \in n.countinhibit
    <3>1. t.base[c] = wrap(i - 0 - b)
      BY <1>3, <1>6, <1>9, <2>2
    <3> QED
      BY <1>4, <1>5, <2>1, <2>2, <3>1 DEF Exact
  <2>3. CASE c \notin n.countinhibit
    BY <1>3, <1>4, <1>6, <1>9, <2>1, <2>3 DEF Exact
  <2> QED
    BY <2>2, <2>3
<1> QED
  BY <1>8, <1>9

\* Entry to and exit from Debug mode.
LEMMA DebugChange ==
  ASSUME NEW s \in Hart, NEW n \in Hart, n.icount = s.icount, n.base = s.base,
         n.countinhibit = s.countinhibit,
         NEW no \in BOOLEAN, ~no, NEW t, t = change(s, n, no, no),
         NEW c \in Counter, n.count[c] = s.count[c], Exact(s, c)
  PROVE  Exact(t, c)
<1> DEFINE i == s.icount[c]
           b == s.base[c]
<1>0. PICK d : d = 1
  OBVIOUS
<1>2. Excludes(no, no, d)
  BY <1>0, Zenon DEF Excludes
<1>3. /\ Rebased(n, t)
      /\ (inhibited(s, c) <=> inhibited(n, c)) => t.base[c] = b
      /\ ~(inhibited(s, c) <=> inhibited(n, c)) => t.base[c] = wrap(i - 1 - b)
  <2>1. /\ Rebased(n, t)
        /\ \A x \in Counter :
             /\ (inhibited(s, x) <=> inhibited(n, x)) => t.base[x] = s.base[x]
             /\ ~(inhibited(s, x) <=> inhibited(n, x)) =>
                  t.base[x] = wrap(s.icount[x] - d - s.base[x])
    BY <1>2, Change
  <2> QED
    BY <1>0, <2>1
<1>4. /\ t.icount[c] = i /\ t.count[c] = s.count[c] /\ (stopCount(t, c) <=> stopCount(n, c))
      /\ c \in t.countinhibit <=> c \in s.countinhibit
  BY <1>3, RebasedInhibited DEF Rebased
<1>5. i \in Int /\ b \in Int /\ s.count[c] \in Int /\ s.count[c] \in Value
  BY CountType
<1>6. CASE c \in s.countinhibit
  <2>1. inhibited(s, c) /\ inhibited(n, c)
    BY <1>6 DEF inhibited
  <2>2. t.base[c] = b
    BY <1>3, <2>1
  <2> QED
    BY <1>4, <1>6, <2>2 DEF Exact
<1>7. CASE c \notin s.countinhibit
  <2>1. /\ inhibited(s, c) <=> stopCount(s, c)
        /\ inhibited(n, c) <=> stopCount(n, c)
    BY <1>7 DEF inhibited
  <2>2. CASE stopCount(s, c) /\ ~stopCount(n, c)
    <3>1. b = wrap(s.count[c] - 1) /\ t.base[c] = wrap(i - 1 - b)
      BY <1>3, <1>7, <2>1, <2>2 DEF Exact
    <3>2. wrap(i - wrap(i - 1 - b)) = wrap(b + 1)
      <4>1. \A k \in Int : wrap(i - wrap(i - k - b)) = wrap(b + k)
        BY <1>5, Calculate
      <4> QED
        BY <4>1
    <3>3. wrap(wrap(s.count[c] - 1) + 1) = wrap(s.count[c]) /\ wrap(s.count[c]) = s.count[c]
      BY <1>5, Calculate, WrapValue
    <3> HIDE DEF i, b
    <3>4. wrap(t.icount[c] - t.base[c]) = t.count[c]
      BY <1>4, <3>1, <3>2, <3>3
    <3> QED
      BY <1>4, <1>7, <2>2, <3>4 DEF Exact
  <2>3. CASE ~stopCount(s, c) /\ stopCount(n, c)
    <3>1. wrap(i - b) = s.count[c] /\ t.base[c] = wrap(i - 1 - b)
      BY <1>3, <1>7, <2>1, <2>3 DEF Exact
    <3>2. wrap(wrap(i - b) - 1) = wrap(i - 1 - b)
      BY <1>5, Calculate
    <3> QED
      BY <1>4, <1>7, <2>3, <3>1, <3>2 DEF Exact
  <2>4. CASE stopCount(s, c) <=> stopCount(n, c)
    <3>1. t.base[c] = b
      BY <1>3, <2>1, <2>4
    <3> QED
      BY <1>4, <1>7, <2>4, <3>1 DEF Exact
  <2> QED
    BY <2>2, <2>3, <2>4
<1> QED
  BY <1>6, <1>7

-----------------------------------------------------------------------------
(* Instructions and cycles that pass.                                      *)

\* t is s after instructions or cycles: only counts and bases differ.
Later(s, t) ==
  /\ t \in Hart
  /\ t.countinhibit = s.countinhibit /\ t.stopcount = s.stopcount
  /\ t.DM = s.DM /\ t.stale = s.stale

\* Inhibition does not depend on them.
LEMMA LaterInhibited ==
  ASSUME NEW s, NEW t, Later(s, t), NEW c
  PROVE  (stopCount(t, c) <=> stopCount(s, c)) /\ (inhibited(t, c) <=> inhibited(s, c))
BY DEF Later, stopCount, inhibited

\* A counter counts.
LEMMA Tick ==
  ASSUME NEW s \in Hart, NEW cs, NEW t, t = tick(s, cs)
  PROVE  /\ Later(s, t) /\ t.icount = s.icount /\ t.base = s.base
         /\ \A c \in Counter :
              t.count[c] = IF c \in cs /\ ~inhibited(s, c) THEN wrap(s.count[c] + 1) ELSE s.count[c]
<1> DEFINE C == [c \in Counter |->
                   IF c \in cs /\ ~inhibited(s, c) THEN wrap(s.count[c] + 1) ELSE s.count[c]]
<1>1. t = [s EXCEPT !.count = C]
  BY DEF tick
<1>2. ASSUME NEW c \in Counter
      PROVE  wrap(s.count[c] + 1) \in Value /\ s.count[c] \in Value
  BY CountType, WrapType
<1>3. C \in [Counter -> Value]
  BY <1>2
<1>4. \A c \in Counter :
        C[c] = IF c \in cs /\ ~inhibited(s, c) THEN wrap(s.count[c] + 1) ELSE s.count[c]
  OBVIOUS
<1> HIDE DEF C
<1>5. t \in Hart /\ t.count = C
  BY <1>1, <1>3 DEF Hart
<1>6. /\ t.icount = s.icount /\ t.base = s.base /\ t.countinhibit = s.countinhibit
      /\ t.stopcount = s.stopcount /\ t.DM = s.DM /\ t.stale = s.stale
  BY <1>1 DEF Hart
<1> QED
  BY <1>4, <1>5, <1>6 DEF Later

\* What an instruction has made of the counts when it executes.
Counted(s, t, cs) ==
  /\ Later(s, t) /\ t.base = s.base
  /\ \A c \in Counter : t.icount[c] = wrap(s.icount[c] + 1)
  /\ \A c \in Counter :
       t.count[c] = IF c \in cs /\ ~inhibited(s, c) THEN wrap(s.count[c] + 1) ELSE s.count[c]

\* An instruction begins.
LEMMA Current ==
  ASSUME hart \in Hart, NEW cs, NEW t, t = current(cs)
  PROVE  Counted(hart, t, cs)
<1>1. PICK m : m = tick(hart, cs)
  OBVIOUS
<1>2. /\ Later(hart, m) /\ m.icount = hart.icount /\ m.base = hart.base
      /\ \A c \in Counter : m.count[c] = IF c \in cs /\ ~inhibited(hart, c)
                                         THEN wrap(hart.count[c] + 1) ELSE hart.count[c]
  BY <1>1, Tick
<1> DEFINE I == [c \in Counter |-> wrap(m.icount[c] + 1)]
<1>3. t = [m EXCEPT !.icount = I]
  BY <1>1 DEF current
<1>4. m \in Hart
  BY <1>2 DEF Later
<1>5. ASSUME NEW c \in Counter
      PROVE  wrap(m.icount[c] + 1) \in Value
  BY <1>4, CountType, WrapType
<1>6. I \in [Counter -> Value]
  BY <1>5
<1>7. \A c \in Counter : I[c] = wrap(hart.icount[c] + 1)
  BY <1>2
<1> HIDE DEF I
<1>8. t \in Hart /\ t.icount = I
  BY <1>3, <1>4, <1>6 DEF Hart
<1>9. /\ t.count = m.count /\ t.base = m.base /\ t.countinhibit = m.countinhibit
      /\ t.stopcount = m.stopcount /\ t.DM = m.DM /\ t.stale = m.stale
  BY <1>3, <1>4 DEF Hart
<1> QED
  BY <1>2, <1>7, <1>8, <1>9 DEF Counted, Later

\* A cycle passes without an instruction.
LEMMA Cycle ==
  ASSUME NEW s \in Hart, NEW t, t = [tick(s, {"cycle"}) EXCEPT !.icount["cycle"] = wrap(@ + 1)]
  PROVE  /\ Later(s, t) /\ t.base = s.base
         /\ t.icount["cycle"] = wrap(s.icount["cycle"] + 1)
         /\ t.icount["instret"] = s.icount["instret"]
         /\ t.count["instret"] = s.count["instret"]
         /\ t.count["cycle"] = IF inhibited(s, "cycle") THEN s.count["cycle"]
                               ELSE wrap(s.count["cycle"] + 1)
<1>0. "cycle" \in Counter /\ "instret" \in Counter /\ "cycle" # "instret"
  BY DEF Counter
<1>1. PICK m : m = tick(s, {"cycle"})
  OBVIOUS
<1>2. /\ Later(s, m) /\ m.icount = s.icount /\ m.base = s.base
      /\ \A c \in Counter : m.count[c] = IF c \in {"cycle"} /\ ~inhibited(s, c)
                                         THEN wrap(s.count[c] + 1) ELSE s.count[c]
  BY <1>1, Tick
<1> DEFINE I == [m.icount EXCEPT !["cycle"] = wrap(m.icount["cycle"] + 1)]
<1>3. t = [m EXCEPT !.icount = I]
  BY <1>1
<1>4. m \in Hart
  BY <1>2 DEF Later
<1>5. wrap(m.icount["cycle"] + 1) \in Value /\ m.icount \in [Counter -> Value]
  <2>1. m.icount["cycle"] + 1 \in Int
    BY <1>0, <1>4, CountType
  <2> QED
    BY <1>4, <2>1, WrapType DEF Hart
<1>6. /\ I \in [Counter -> Value]
      /\ I["cycle"] = wrap(m.icount["cycle"] + 1) /\ I["instret"] = m.icount["instret"]
  BY <1>0, <1>5
<1> HIDE DEF I
<1>8. t \in Hart /\ t.icount = I
  BY <1>3, <1>4, <1>6 DEF Hart
<1>9. /\ t.count = m.count /\ t.base = m.base /\ t.countinhibit = m.countinhibit
      /\ t.stopcount = m.stopcount /\ t.DM = m.DM /\ t.stale = m.stale
  BY <1>3, <1>4 DEF Hart
<1> QED
  BY <1>0, <1>2, <1>6, <1>8, <1>9 DEF Later

\* A counter that counts an instruction, or is inhibited, stays exact.
LEMMA CountedExact ==
  ASSUME NEW s \in Hart, NEW cs, NEW t, Counted(s, t, cs), NEW c \in Counter,
         c \in cs \/ inhibited(s, c)
  PROVE  Exact(s, c) => Exact(t, c)
<1> HAVE Exact(s, c)
<1> DEFINE i == s.icount[c]
           b == s.base[c]
<1>1. i \in Int /\ b \in Int
  BY CountType
<1>2. /\ t.base[c] = b /\ t.icount[c] = wrap(i + 1)
      /\ c \in t.countinhibit <=> c \in s.countinhibit
      /\ t.count[c] = IF c \in cs /\ ~inhibited(s, c) THEN wrap(s.count[c] + 1) ELSE s.count[c]
  BY DEF Counted, Later
<1>3. stopCount(t, c) <=> stopCount(s, c)
  BY LaterInhibited DEF Counted
<1>4. inhibited(s, c) <=> c \in s.countinhibit \/ stopCount(s, c)
  BY DEF inhibited
<1>5. wrap(wrap(i + 1) - b) = wrap(wrap(i - b) + 1)
  BY <1>1, Calculate
<1> HIDE DEF i
<1>6. CASE inhibited(s, c)
  BY <1>2, <1>3, <1>4, <1>6 DEF Exact
<1>7. CASE ~inhibited(s, c)
  <2>1. wrap(i - b) = s.count[c]
    BY <1>4, <1>7 DEF Exact, i
  <2> QED
    BY <1>2, <1>3, <1>4, <1>5, <1>7, <2>1 DEF Exact
<1> QED
  BY <1>6, <1>7

\* A base that is not changed.
LEMMA RebasedExact ==
  ASSUME NEW s, NEW t, Rebased(s, t), NEW c \in Counter, t.base[c] = s.base[c]
  PROVE  Exact(s, c) => Exact(t, c)
BY RebasedInhibited DEF Rebased, Exact

\* An instruction that is not to be counted moves the base.
LEMMA Uncount ==
  ASSUME NEW s \in Hart, NEW c \in Counter, NEW t, t = uncount(s, c)
  PROVE  /\ Rebased(s, t) /\ \A d \in Counter \ {c} : t.base[d] = s.base[d]
         /\ t.base[c] = IF inhibited(s, c) THEN s.base[c] ELSE wrap(s.base[c] + 1)
<1>1. PICK x \in Value : x = wrap(s.base[c] + 1)
  BY CountType, WrapType
<1>2. t = IF inhibited(s, c) THEN s ELSE setBase(s, c, x)
  BY <1>1 DEF uncount, setBase
<1>3. CASE inhibited(s, c)
  BY <1>2, <1>3 DEF Rebased
<1>4. CASE ~inhibited(s, c)
  <2>1. t = setBase(s, c, x)
    BY <1>2, <1>4
  <2>2. Rebased(s, t) /\ t.base[c] = x /\ \A d \in Counter \ {c} : t.base[d] = s.base[d]
    BY <1>1, <2>1, SetBase
  <2> QED
    BY <1>1, <1>4, <2>2
<1> QED
  BY <1>3, <1>4

\* A counter that is not to count the instruction is exact after it is set back.
LEMMA UncountExact ==
  ASSUME NEW s \in Hart, NEW cs, NEW t, Counted(s, t, cs), NEW c \in Counter, c \notin cs,
         NEW u, Rebased(t, u), u.base[c] = IF inhibited(t, c) THEN t.base[c] ELSE wrap(t.base[c] + 1)
  PROVE  Exact(s, c) => Exact(u, c)
<1> HAVE Exact(s, c)
<1> DEFINE i == s.icount[c]
           b == s.base[c]
<1>1. i \in Int /\ b \in Int
  BY CountType
<1>2. t.base[c] = b /\ t.icount[c] = wrap(i + 1) /\ t.count[c] = s.count[c]
      /\ (c \in t.countinhibit <=> c \in s.countinhibit)
  BY DEF Counted, Later
<1>3. (stopCount(t, c) <=> stopCount(s, c)) /\ (inhibited(t, c) <=> inhibited(s, c))
  BY LaterInhibited DEF Counted
<1>4. u.icount[c] = wrap(i + 1) /\ u.count[c] = s.count[c]
      /\ (c \in u.countinhibit <=> c \in s.countinhibit) /\ (stopCount(u, c) <=> stopCount(s, c))
  BY <1>2, <1>3, RebasedInhibited DEF Rebased
<1>5. inhibited(s, c) <=> c \in s.countinhibit \/ stopCount(s, c)
  BY DEF inhibited
<1>6. wrap(wrap(i + 1) - wrap(b + 1)) = wrap(i - b)
  BY <1>1, Calculate
<1> HIDE DEF i
<1>7. CASE inhibited(s, c)
  BY <1>2, <1>3, <1>4, <1>5, <1>7 DEF Exact
<1>8. CASE ~inhibited(s, c)
  <2>1. wrap(i - b) = s.count[c] /\ u.base[c] = wrap(b + 1)
    BY <1>2, <1>3, <1>5, <1>8 DEF Exact, i
  <2> QED
    BY <1>4, <1>5, <1>6, <1>8, <2>1 DEF Exact
<1> QED
  BY <1>7, <1>8

-----------------------------------------------------------------------------
(* Debug mode.                                                             *)

\* What entering and leaving Debug mode keeps.
Converted(s, t) ==
  /\ t \in Hart
  /\ t.countinhibit = s.countinhibit /\ t.stopcount = s.stopcount
  /\ t.count = s.count /\ t.stale = s.stale
  /\ \A c \in Counter : Exact(s, c) => Exact(t, c)
  /\ \A c \in Counter : inhibited(s, c) /\ inhibited(t, c) => t.base[c] = s.base[c]

\* A change of DM, with the counters converted.
LEMMA SetDM ==
  ASSUME NEW s \in Hart, NEW n \in Hart, n.icount = s.icount, n.base = s.base,
         n.countinhibit = s.countinhibit, n.stopcount = s.stopcount, n.count = s.count,
         n.stale = s.stale, NEW no \in BOOLEAN, NEW d, Excludes(no, no, d), d = 1,
         NEW t, t = change(s, n, no, no)
  PROVE  Converted(s, t) /\ t.DM = n.DM
<1>1. /\ Rebased(n, t)
      /\ \A c \in Counter : (inhibited(s, c) <=> inhibited(n, c)) => t.base[c] = s.base[c]
  BY Change
<1>2. ~no
  BY DEF Excludes
<1>3. ASSUME NEW c \in Counter, Exact(s, c)
      PROVE  Exact(t, c)
  BY <1>2, <1>3, DebugChange
<1>4. ASSUME NEW c \in Counter, inhibited(s, c), inhibited(t, c)
      PROVE  t.base[c] = s.base[c]
  <2>1. inhibited(n, c)
    BY <1>1, <1>4, RebasedInhibited
  <2> QED
    BY <1>1, <1>4, <2>1
<1> QED
  BY <1>1, <1>3, <1>4 DEF Rebased, Converted

\* Entry to Debug mode, if not in it.
LEMMA EnterDM ==
  ASSUME NEW s \in Hart, NEW t, t = enterDM(s)
  PROVE  Converted(s, t)
<1>1. CASE s.DM
  <2>1. t = s
    BY <1>1 DEF enterDM
  <2> QED
    BY <2>1 DEF Converted
<1>2. CASE ~s.DM
  <2>1. PICK n : n = [s EXCEPT !.DM = TRUE]
    OBVIOUS
  <2>2. /\ n \in Hart /\ n.icount = s.icount /\ n.base = s.base
        /\ n.countinhibit = s.countinhibit /\ n.stopcount = s.stopcount /\ n.count = s.count
        /\ n.stale = s.stale
    BY <2>1 DEF Hart
  <2>3. PICK no \in BOOLEAN : no = FALSE
    BY Zenon
  <2>4. PICK d : d = 1
    OBVIOUS
  <2>5. Excludes(no, no, d)
    BY <2>3, <2>4, Zenon DEF Excludes
  <2>6. t = change(s, n, no, no)
    BY <1>2, <2>1, <2>3, Zenon DEF enterDM
  <2> QED
    BY <2>2, <2>3, <2>4, <2>5, <2>6, SetDM, Zenon
<1> QED
  BY <1>1, <1>2

\* Exit from Debug mode.
LEMMA LeaveDM ==
  ASSUME NEW s \in Hart, NEW t, t = leaveDM(s)
  PROVE  Converted(s, t) /\ t.DM = FALSE
<1>1. PICK n : n = [s EXCEPT !.DM = FALSE]
  OBVIOUS
<1>2. /\ n \in Hart /\ n.icount = s.icount /\ n.base = s.base
      /\ n.countinhibit = s.countinhibit /\ n.stopcount = s.stopcount /\ n.count = s.count
      /\ n.stale = s.stale
  BY <1>1 DEF Hart
<1>3. n.DM = FALSE
  BY <1>1 DEF Hart
<1>4. PICK no \in BOOLEAN : no = FALSE
  BY Zenon
<1>5. PICK d : d = 1
  OBVIOUS
<1>6. Excludes(no, no, d)
  BY <1>4, <1>5, Zenon DEF Excludes
<1>7. t = change(s, n, no, no)
  BY <1>1, <1>4, Zenon DEF leaveDM
<1>8. Converted(s, t) /\ t.DM = n.DM
  BY <1>2, <1>4, <1>5, <1>6, <1>7, SetDM, Zenon
<1> QED
  BY <1>3, <1>8, Zenon

-----------------------------------------------------------------------------
(* CSR writes.                                                             *)

\* What a write of mcountinhibit or dcsr, which sets these as in n, keeps.
Rewritten(s, n, t) ==
  /\ Rebased(n, t)
  /\ \A c \in Counter : Exact(s, c) /\ ~stopCount(s, c) /\ ~stopCount(t, c) => Exact(t, c)
  /\ \A c \in Counter : inhibited(s, c) /\ inhibited(t, c) => t.base[c] = s.base[c]

\* Such a write, in an instruction or by the debugger.
LEMMA ControlWrite ==
  ASSUME NEW s \in Hart, NEW n \in Hart, n.icount = s.icount, n.base = s.base,
         n.count = s.count, n.stale = s.stale, NEW pre \in BOOLEAN, NEW aa \in BOOLEAN,
         NEW d, Excludes(pre, aa, d), d = 0, NEW t, t = change(s, n, pre, aa)
  PROVE  Rewritten(s, n, t)
<1>1. /\ Rebased(n, t)
      /\ \A c \in Counter : (inhibited(s, c) <=> inhibited(n, c)) => t.base[c] = s.base[c]
  BY Change
<1>2. ASSUME NEW c \in Counter
      PROVE  /\ Exact(s, c) /\ ~stopCount(s, c) /\ ~stopCount(n, c) => Exact(t, c)
             /\ stopCount(t, c) <=> stopCount(n, c)
             /\ inhibited(t, c) <=> inhibited(n, c)
  BY <1>1, CsrChange, RebasedInhibited
<1> QED
  BY <1>1, <1>2 DEF Rewritten

\* mcycle and minstret, or a half of one: the counter will read x.
LEMMA CsrWrite ==
  ASSUME NEW s \in Hart, NEW c \in Counter, NEW part, NEW v, NEW aa \in BOOLEAN,
         NEW x \in Value, x = written(part, v, counterR(s, c, aa)),
         NEW t, t = csrW(s, c, part, v, aa)
  PROVE  /\ Rebased(s, t) /\ \A d \in Counter \ {c} : t.base[d] = s.base[d]
         /\ t.base[c] = IF inhibited(s, c) THEN x ELSE wrap(s.icount[c] - x)
<1>0. (~inhibited(s, c)) \in BOOLEAN
  OBVIOUS
<1>1. PICK pre \in BOOLEAN : pre = ~inhibited(s, c)
  BY <1>0, Zenon
<1>2. t = counterW(s, c, x, pre, aa)
  BY <1>1, Zenon DEF csrW
<1>3. PICK g : g = IF aa THEN 0 ELSE 1
  OBVIOUS
<1>4. PICK e : e = IF pre /\ ~aa THEN 1 ELSE 0
  OBVIOUS
<1>5. x \in Int /\ s.icount[c] \in Int
  BY ValueInt, CountType
<1>6. /\ Rebased(s, t) /\ \A d \in Counter \ {c} : t.base[d] = s.base[d]
      /\ t.base[c] = IF inhibited(s, c) THEN wrap(x + e) ELSE wrap(s.icount[c] - g - x + e)
  <2>1. pre \in BOOLEAN
    BY <1>1
  <2> QED
    BY <1>2, <1>3, <1>4, <1>5, <2>1, WriteCounter
<1>7. CASE inhibited(s, c)
  <2>1. e = 0 /\ t.base[c] = wrap(x + e)
    BY <1>1, <1>4, <1>6, <1>7, Zenon
  <2>2. x + e = x /\ wrap(x) = x
    BY <1>5, <2>1, WrapValue
  <2> QED
    BY <1>6, <1>7, <2>1, <2>2, Zenon
<1>8. CASE ~inhibited(s, c)
  <2>1. g = e /\ t.base[c] = wrap(s.icount[c] - g - x + e)
    BY <1>1, <1>3, <1>4, <1>6, <1>8, Zenon
  <2>2. g \in {0, 1}
    BY <1>3
  <2>3. s.icount[c] - g - x + e = s.icount[c] - x
    BY <1>5, <2>1, <2>2
  <2> QED
    BY <1>6, <1>8, <2>1, <2>3, Zenon
<1> QED
  BY <1>7, <1>8

\* A write of counter c leaves it and the other counter exact, unless Debug mode
\* stops it; s is the state in which the write is executed.
LEMMA Overwritten ==
  ASSUME hart \in Hart, \A d \in Counter \ hart.stale : Exact(hart, d),
         NEW c \in Counter, NEW part \in {"all", "lower", "upper"}, NEW v \in Value,
         NEW s, Later(hart, s), NEW aa \in BOOLEAN, counterR(s, c, aa) \in Value,
         \A d \in Counter : Exact(hart, d) => Exact(s, d),
         Exact(hart, c) /\ ~stopCount(hart, c) => counterR(s, c, aa) = hart.count[c],
         NEW t, t = csrW(s, c, part, v, aa), NEW n, n = overwrite(t, c, part, v)
  PROVE  /\ n \in Hart
         /\ \A d \in Counter \ n.stale : (d = c /\ stopCount(hart, c)) \/ Exact(n, d)
<1> DEFINE x == written(part, v, counterR(s, c, aa))
           C == [t.count EXCEPT ![c] = written(part, v, hart.count[c])]
           Z == IF part = "all" THEN t.stale \ {c} ELSE t.stale
<1>0. s \in Hart /\ s.stale = hart.stale
  BY DEF Later
<1>1. x \in Value
  BY WrittenType
<1>2. /\ Rebased(s, t) /\ \A d \in Counter \ {c} : t.base[d] = s.base[d]
      /\ t.base[c] = IF inhibited(s, c) THEN x ELSE wrap(s.icount[c] - x)
  <2>1. PICK y \in Value : y = x
    BY <1>1
  <2>2. /\ Rebased(s, t) /\ \A d \in Counter \ {c} : t.base[d] = s.base[d]
        /\ t.base[c] = IF inhibited(s, c) THEN y ELSE wrap(s.icount[c] - y)
    BY <1>0, <2>1, CsrWrite
  <2> HIDE DEF x
  <2> QED
    BY <2>1, <2>2
<1>3. t \in Hart /\ t.stale = hart.stale /\ t.count = s.count /\ t.icount = s.icount
      /\ t.countinhibit = s.countinhibit
  BY <1>0, <1>2 DEF Rebased
<1>4. n = [[t EXCEPT !.count = C] EXCEPT !.stale = Z]
  BY <1>3 DEF overwrite, Hart
<1>5. hart.count[c] \in Value
  BY CountType
<1>6. written(part, v, hart.count[c]) \in Value
  BY <1>5, WrittenType
<1>7. /\ C \in [Counter -> Value] /\ C[c] = written(part, v, hart.count[c])
      /\ \A d \in Counter \ {c} : C[d] = t.count[d]
  BY <1>3, <1>6 DEF Hart
<1>8. Z \in SUBSET Counter
  BY <1>3 DEF Hart
<1>9. \A d \in Counter \ {c} : d \notin Z => d \notin hart.stale
  BY <1>3
<1>10. c \notin Z => part = "all" \/ c \notin hart.stale
  BY <1>3
<1> HIDE DEF C, Z
<1>11. n \in Hart /\ n.count = C /\ n.stale = Z
  BY <1>3, <1>4, <1>7, <1>8 DEF Hart
<1>12. /\ n.icount = t.icount /\ n.base = t.base /\ n.countinhibit = t.countinhibit
       /\ n.stopcount = t.stopcount /\ n.DM = t.DM
  BY <1>3, <1>4 DEF Hart
<1>13. \A d : stopCount(n, d) <=> stopCount(t, d)
  BY <1>12 DEF stopCount
<1>14. ASSUME NEW d \in Counter \ {c}, d \notin n.stale
       PROVE  Exact(n, d)
  <2>1. Exact(hart, d)
    BY <1>9, <1>11, <1>14
  <2>2. Exact(s, d)
    BY <2>1
  <2>3. Exact(t, d)
    BY <1>2, <2>2, RebasedExact
  <2> QED
    BY <1>7, <1>11, <1>12, <1>13, <2>3 DEF Exact
<1>15. ASSUME c \notin n.stale, ~stopCount(hart, c)
       PROVE  Exact(n, c)
  <2>1. x = n.count[c]
    <3>1. CASE part = "all"
      BY <1>7, <1>11, <3>1 DEF written
    <3>2. CASE part # "all"
      <4>1. Exact(hart, c)
        BY <1>10, <1>11, <1>15, <3>2
      <4>2. counterR(s, c, aa) = hart.count[c]
        BY <1>15, <4>1, Zenon
      <4> QED
        BY <1>7, <1>11, <4>2
    <3> QED
      BY <3>1, <3>2
  <2> HIDE DEF x
  <2>2. (~stopCount(s, c)) /\ ~stopCount(n, c)
    BY <1>2, <1>13, <1>15, LaterInhibited, RebasedInhibited
  <2>3. inhibited(s, c) <=> c \in s.countinhibit
    BY <2>2 DEF inhibited
  <2>4. c \in n.countinhibit <=> c \in s.countinhibit
    BY <1>3, <1>12
  <2>5. CASE c \in s.countinhibit
    BY <1>2, <1>12, <2>1, <2>3, <2>4, <2>5 DEF Exact
  <2>6. CASE c \notin s.countinhibit
    <3>1. n.base[c] = wrap(s.icount[c] - x) /\ n.icount[c] = s.icount[c]
      BY <1>2, <1>3, <1>12, <2>3, <2>6
    <3>2. s.icount[c] \in Int /\ x \in Int
      BY <1>0, <1>1, CountType, ValueInt
    <3>3. wrap(s.icount[c] - wrap(s.icount[c] - x)) = wrap(s.icount[c] - (s.icount[c] - x))
      BY <3>2, WrapAdd
    <3>4. s.icount[c] - (s.icount[c] - x) = x /\ wrap(x) = x
      BY <1>1, <3>2, WrapValue
    <3>5. wrap(n.icount[c] - n.base[c]) = n.count[c]
      BY <2>1, <3>1, <3>3, <3>4, Zenon
    <3> QED
      BY <2>2, <2>4, <2>6, <3>5 DEF Exact
  <2> QED
    BY <2>5, <2>6
<1> QED
  BY <1>11, <1>14, <1>15

-----------------------------------------------------------------------------
(* Steps.                                                                  *)

\* Counters that are inhibited before and after a change of state.
Stays(s, t) == \A c \in Counter : inhibited(s, c) /\ inhibited(t, c) => t.base[c] = s.base[c]

\* The hart becomes n, in which those counters are exact that were not written
\* while Debug mode stops them.
LEMMA Become ==
  ASSUME config \in Configs, hart \in Hart, NEW n \in Hart, NEW cs \in SUBSET Counter,
         become(hart, n, cs),
         \A c \in Counter \ n.stale :
           (c \in cs /\ (stopCount(hart, c) \/ stopCount(n, c))) \/ Exact(n, c)
  PROVE  IInv' /\ (Stays(hart, n) => Stays(hart, hart'))
<1> DEFINE Z == n.stale \cup {c \in cs : stopCount(hart, c) \/ stopCount(n, c)}
           C == [c \in Counter |-> IF c \in Z THEN 0 ELSE n.count[c]]
<1>1. hart' = [[n EXCEPT !.stale = Z] EXCEPT !.count = C] /\ config' = config
  BY DEF become, Hart
<1>2. Z \in SUBSET Counter
  BY DEF Hart
<1>3. \A c \in Counter \ Z : c \notin n.stale /\ Exact(n, c)
  OBVIOUS
<1> HIDE DEF Z
<1>4. C \in [Counter -> Value] /\ \A c \in Counter \ Z : C[c] = n.count[c]
  BY CountType, ValueInt
<1> HIDE DEF C
<1>5. hart' \in Hart /\ hart'.stale = Z /\ hart'.count = C
  BY <1>1, <1>2, <1>4 DEF Hart
<1>6. /\ hart'.icount = n.icount /\ hart'.base = n.base /\ hart'.countinhibit = n.countinhibit
      /\ hart'.stopcount = n.stopcount /\ hart'.DM = n.DM
  BY <1>1 DEF Hart
<1>7. \A c : stopCount(hart', c) <=> stopCount(n, c)
  BY <1>6 DEF stopCount
<1>8. \A c : inhibited(hart', c) <=> inhibited(n, c)
  BY <1>6, <1>7 DEF inhibited
<1>9. ASSUME NEW c \in Counter \ Z
      PROVE  Exact(hart', c)
  BY <1>3, <1>4, <1>5, <1>6, <1>7, <1>9 DEF Exact
<1>10. \A c \in Counter : Exact(hart, c)' <=> Exact(hart', c)
  BY <1>1 DEF Exact, stopCount
<1>11. IInv'
  BY <1>1, <1>5, <1>9, <1>10 DEF IInv
<1>12. Stays(hart, n) => Stays(hart, hart')
  BY <1>6, <1>8 DEF Stays
<1> QED
  BY <1>11, <1>12

\* A cycle that passes outside instructions.
LEMMA CycleExact ==
  ASSUME NEW s \in Hart, NEW t, t = [tick(s, {"cycle"}) EXCEPT !.icount["cycle"] = wrap(@ + 1)]
  PROVE  Later(s, t) /\ t.base = s.base /\ \A c \in Counter : Exact(s, c) => Exact(t, c)
<1>1. /\ Later(s, t) /\ t.base = s.base
      /\ t.icount["cycle"] = wrap(s.icount["cycle"] + 1)
      /\ t.icount["instret"] = s.icount["instret"]
      /\ t.count["instret"] = s.count["instret"]
      /\ t.count["cycle"] = IF inhibited(s, "cycle") THEN s.count["cycle"]
                            ELSE wrap(s.count["cycle"] + 1)
  BY Cycle
<1>2. t.countinhibit = s.countinhibit /\ t \in Hart
  BY <1>1 DEF Later
<1>3. \A c : stopCount(t, c) <=> stopCount(s, c)
  BY <1>1, LaterInhibited
<1>4. ASSUME Exact(s, "instret") PROVE Exact(t, "instret")
  BY <1>1, <1>2, <1>3, <1>4 DEF Exact
<1>5. ASSUME Exact(s, "cycle") PROVE Exact(t, "cycle")
  <2> DEFINE i == s.icount["cycle"]
             b == s.base["cycle"]
  <2>1. i \in Int /\ b \in Int
    BY CountType DEF Counter
  <2>2. wrap(wrap(i + 1) - b) = wrap(wrap(i - b) + 1)
    BY <2>1, Calculate
  <2>3. inhibited(s, "cycle") <=> "cycle" \in s.countinhibit \/ stopCount(s, "cycle")
    BY DEF inhibited
  <2> HIDE DEF i
  <2>4. CASE inhibited(s, "cycle")
    BY <1>1, <1>2, <1>3, <1>5, <2>3, <2>4 DEF Exact
  <2>5. CASE ~inhibited(s, "cycle")
    <3>1. wrap(i - b) = s.count["cycle"]
      BY <1>5, <2>3, <2>5 DEF Exact, i
    <3>2. t.count["cycle"] = wrap(s.count["cycle"] + 1) /\ t.icount["cycle"] = wrap(i + 1)
      BY <1>1, <2>5 DEF i
    <3> QED
      BY <1>1, <1>2, <1>3, <2>2, <2>3, <2>5, <3>1, <3>2 DEF Exact
  <2> QED
    BY <2>4, <2>5
<1> QED
  BY <1>1, <1>4, <1>5 DEF Counter

\* An event that is taken instead of an instruction.
LEMMA Diverted ==
  ASSUME NEW s \in Hart, NEW t, t = diverted(s)
  PROVE  Later(s, t) /\ t.base = s.base /\ \A c \in Counter : Exact(s, c) => Exact(t, c)
<1>1. CASE config.countsFetch
  BY <1>1, CycleExact DEF diverted
<1>2. CASE ~config.countsFetch
  BY <1>2 DEF diverted, Later
<1> QED
  BY <1>1, <1>2

\* What an instruction makes of the hart, apart from writes.
Keeps(n) ==
  /\ n \in Hart /\ n.stale = hart.stale /\ Stays(hart, n)
  /\ \A c \in Counter : Exact(hart, c) => Exact(n, c)

\* A step that keeps exact counters exact.
LEMMA KeepsStep ==
  ASSUME IInv, NEW n, Keeps(n), become(hart, n, {})
  PROVE  IInv' /\ Stays(hart, hart')
<1>1. config \in Configs /\ hart \in Hart /\ \A c \in Counter \ hart.stale : Exact(hart, c)
  BY DEF IInv
<1>2. n \in Hart /\ n.stale = hart.stale /\ Stays(hart, n) /\ \A c \in Counter \ n.stale : Exact(n, c)
  BY <1>1 DEF Keeps
<1>3. {} \in SUBSET Counter
  OBVIOUS
<1> QED
  BY <1>1, <1>2, <1>3, Become

\* An instruction that is counted.
LEMMA CurrentKeeps ==
  ASSUME hart \in Hart, NEW t, t = current(Counter)
  PROVE  Keeps(t) /\ Counted(hart, t, Counter)
<1>1. Counted(hart, t, Counter)
  BY Current
<1>2. t \in Hart /\ t.stale = hart.stale /\ t.base = hart.base
  BY <1>1 DEF Counted, Later
<1>3. \A c \in Counter : Exact(hart, c) => Exact(t, c)
  BY <1>1, CountedExact
<1> QED
  BY <1>1, <1>2, <1>3 DEF Keeps, Stays

\* An instruction that takes a cycle and does not retire.
LEMMA NoRetireKeeps ==
  ASSUME hart \in Hart, NEW u, u = riscvNoRetire(current({"cycle"}), FALSE)
  PROVE  Keeps(u)
<1>0. "cycle" \in Counter /\ "instret" \in Counter /\ "instret" \notin {"cycle"}
  BY DEF Counter
<1>1. PICK t : t = current({"cycle"})
  OBVIOUS
<1>2. u = uncount(t, "instret")
  BY <1>1, Zenon DEF riscvNoRetire
<1>3. Counted(hart, t, {"cycle"}) /\ Later(hart, t) /\ t \in Hart
      /\ t.stale = hart.stale /\ t.base = hart.base
  BY <1>1, Current DEF Counted, Later
<1>4. /\ Rebased(t, u) /\ \A d \in Counter \ {"instret"} : u.base[d] = t.base[d]
      /\ u.base["instret"] = IF inhibited(t, "instret") THEN t.base["instret"]
                             ELSE wrap(t.base["instret"] + 1)
  BY <1>0, <1>2, <1>3, Uncount, ZenonT(60)
<1>5. Exact(hart, "instret") => Exact(u, "instret")
  BY <1>0, <1>3, <1>4, UncountExact
<1>6. Exact(hart, "cycle") => Exact(u, "cycle")
  <2>1. Exact(hart, "cycle") => Exact(t, "cycle")
    BY <1>0, <1>3, CountedExact
  <2>2. u.base["cycle"] = t.base["cycle"]
    BY <1>0, <1>4
  <2> QED
    BY <1>0, <1>4, <2>1, <2>2, RebasedExact
<1>7. Stays(hart, u)
  <2>1. \A c : inhibited(t, c) <=> inhibited(hart, c)
    BY <1>3, LaterInhibited
  <2>2. u.base["cycle"] = t.base["cycle"]
    BY <1>0, <1>4
  <2> QED
    BY <1>3, <1>4, <2>1, <2>2 DEF Stays, Counter
<1> QED
  BY <1>3, <1>4, <1>5, <1>6, <1>7 DEF Keeps, Counter, Rebased

\* Debug mode is entered or left.
LEMMA ConvertedKeeps ==
  ASSUME hart \in Hart, NEW s, Keeps(s), \A c \in Counter : inhibited(hart, c) => inhibited(s, c),
         NEW t, Converted(s, t)
  PROVE  Keeps(t)
BY DEF Keeps, Converted, Stays

\* EBREAK: neither retires nor, if Debug mode will stop mcycle, takes a cycle.
LEMMA EbreakKeeps ==
  ASSUME hart \in Hart,
         NEW u, u = riscvEBREAK(current(IF hart.stopcount THEN {} ELSE {"cycle"}))
  PROVE  Keeps(u)
<1>0. "cycle" \in Counter /\ "instret" \in Counter /\ "instret" \notin {"cycle"}
  BY DEF Counter
<1>1. PICK cs : cs = IF hart.stopcount THEN {} ELSE {"cycle"}
  OBVIOUS
<1>2. PICK t : t = current(cs)
  OBVIOUS
<1>3. PICK s1 : s1 = uncount(t, "instret")
  OBVIOUS
<1>4. PICK w : w = IF s1.stopcount THEN uncount(s1, "cycle") ELSE s1
  OBVIOUS
<1>5. u = enterDM(w)
  BY <1>1, <1>2, <1>3, <1>4, Zenon DEF riscvEBREAK, riscvNoRetire
<1>6. /\ Counted(hart, t, cs) /\ Later(hart, t) /\ t \in Hart
      /\ t.stale = hart.stale /\ t.base = hart.base /\ t.stopcount = hart.stopcount
  BY <1>2, Current DEF Counted, Later
<1>7. /\ Rebased(t, s1) /\ s1.base["cycle"] = t.base["cycle"] /\ s1 \in Hart
      /\ s1.base["instret"] = IF inhibited(t, "instret") THEN t.base["instret"]
                              ELSE wrap(t.base["instret"] + 1)
  BY <1>0, <1>3, <1>6, Uncount DEF Rebased
<1>8. \A c : inhibited(t, c) <=> inhibited(hart, c)
  BY <1>6, LaterInhibited
<1>9. \A c : inhibited(s1, c) <=> inhibited(t, c)
  BY <1>7, RebasedInhibited
<1>10. "instret" \notin cs
  BY <1>0, <1>1
<1>11. s1.stopcount = hart.stopcount
  BY <1>6, <1>7 DEF Rebased
<1>12. CASE hart.stopcount
  <2>1. cs = {} /\ w = uncount(s1, "cycle")
    BY <1>1, <1>4, <1>11, <1>12
  <2>2. /\ Rebased(s1, w) /\ w.base["instret"] = s1.base["instret"]
        /\ w.base["cycle"] = IF inhibited(s1, "cycle") THEN s1.base["cycle"]
                             ELSE wrap(s1.base["cycle"] + 1)
    BY <1>0, <1>7, <2>1, Uncount
  <2>3. /\ Rebased(t, w)
        /\ w.base["instret"] = IF inhibited(t, "instret") THEN t.base["instret"]
                               ELSE wrap(t.base["instret"] + 1)
        /\ w.base["cycle"] = IF inhibited(t, "cycle") THEN t.base["cycle"]
                             ELSE wrap(t.base["cycle"] + 1)
    BY <1>7, <1>9, <2>2 DEF Rebased
  <2>4. Exact(hart, "instret") => Exact(w, "instret")
    BY <1>0, <1>6, <1>10, <2>3, UncountExact
  <2>5. Exact(hart, "cycle") => Exact(w, "cycle")
    BY <1>0, <1>6, <2>1, <2>3, UncountExact
  <2>6. \A c : inhibited(w, c) <=> inhibited(hart, c)
    BY <1>8, <2>3, RebasedInhibited
  <2>7. Stays(hart, w)
    BY <1>6, <1>8, <2>3 DEF Stays, Counter
  <2>8. Keeps(w)
    BY <1>6, <2>3, <2>4, <2>5, <2>7 DEF Keeps, Counter, Rebased
  <2>9. Converted(w, u)
    BY <1>5, <2>8, EnterDM DEF Keeps
  <2> QED
    BY <2>6, <2>8, <2>9, ConvertedKeeps
<1>13. CASE ~hart.stopcount
  <2>1. cs = {"cycle"} /\ w = s1
    BY <1>1, <1>4, <1>11, <1>13
  <2>2. Exact(hart, "instret") => Exact(w, "instret")
    BY <1>0, <1>6, <1>7, <1>10, <2>1, UncountExact
  <2>3. Exact(hart, "cycle") => Exact(t, "cycle")
    BY <1>0, <1>6, <2>1, CountedExact
  <2>4. Exact(t, "cycle") => Exact(w, "cycle")
    BY <1>0, <1>7, <2>1, RebasedExact
  <2>5. Stays(hart, w)
    BY <1>6, <1>7, <1>8, <2>1 DEF Stays, Counter
  <2>6. Keeps(w)
    BY <1>6, <1>7, <2>1, <2>2, <2>3, <2>4, <2>5 DEF Keeps, Counter, Rebased
  <2>7. Converted(w, u)
    BY <1>5, <2>6, EnterDM DEF Keeps
  <2> QED
    BY <1>8, <1>9, <2>1, <2>6, <2>7, ConvertedKeeps
<1> QED
  BY <1>12, <1>13

\* A write of mcountinhibit or dcsr in state s, after which the control is as in n.
LEMMA ControlStep ==
  ASSUME IInv, NEW s, Keeps(s), \A c \in Counter : inhibited(hart, c) <=> inhibited(s, c),
         \A c \in Counter : stopCount(hart, c) <=> stopCount(s, c),
         NEW n \in Hart, n.stale = s.stale, NEW t, Rewritten(s, n, t), become(hart, t, Counter)
  PROVE  IInv' /\ Stays(hart, hart')
<1>1. config \in Configs /\ hart \in Hart /\ \A c \in Counter \ hart.stale : Exact(hart, c)
  BY DEF IInv
<1>2. t \in Hart /\ t.stale = hart.stale
  BY DEF Rewritten, Rebased, Keeps
<1>3. Stays(hart, t)
  BY DEF Stays, Rewritten, Keeps
<1>4. \A c \in Counter \ t.stale :
        (c \in Counter /\ (stopCount(hart, c) \/ stopCount(t, c))) \/ Exact(t, c)
  BY <1>1, <1>2 DEF Rewritten, Keeps
<1>5. Counter \in SUBSET Counter
  OBVIOUS
<1> QED
  BY <1>1, <1>2, <1>3, <1>4, <1>5, Become

\* mcountinhibit.
LEMMA Mcountinhibit ==
  ASSUME NEW s \in Hart, NEW cs \in SUBSET Counter, NEW aa \in BOOLEAN,
         NEW t, t = mcountinhibitW(s, cs, aa)
  PROVE  \E n \in Hart : n.stale = s.stale /\ Rewritten(s, n, t)
<1>1. PICK n : n = [s EXCEPT !.countinhibit = cs]
  OBVIOUS
<1>2. n \in Hart /\ n.icount = s.icount /\ n.base = s.base /\ n.count = s.count /\ n.stale = s.stale
  BY <1>1 DEF Hart
<1>3. PICK pre \in BOOLEAN : pre = TRUE
  BY Zenon
<1>4. PICK d : d = 0
  OBVIOUS
<1>5. Excludes(pre, aa, d) /\ t = change(s, n, pre, aa)
  BY <1>1, <1>3, <1>4, Zenon DEF Excludes, mcountinhibitW
<1>6. Rewritten(s, n, t)
  BY <1>2, <1>3, <1>4, <1>5, ControlWrite, Zenon
<1> QED
  BY <1>2, <1>6, Zenon

\* dcsr.
LEMMA Dcsr ==
  ASSUME NEW s \in Hart, NEW b \in BOOLEAN, NEW aa \in BOOLEAN, NEW t, t = dcsrWInt(s, b, aa)
  PROVE  \E n \in Hart : n.stale = s.stale /\ n.DM = s.DM /\ n.countinhibit = s.countinhibit
                         /\ Rewritten(s, n, t)
<1>1. PICK n : n = [s EXCEPT !.stopcount = b]
  OBVIOUS
<1>2. n \in Hart /\ n.icount = s.icount /\ n.base = s.base /\ n.count = s.count /\ n.stale = s.stale
      /\ n.DM = s.DM /\ n.countinhibit = s.countinhibit
  BY <1>1 DEF Hart
<1>3. PICK pre \in BOOLEAN : pre = TRUE
  BY Zenon
<1>4. PICK d : d = 0
  OBVIOUS
<1>5. Excludes(pre, aa, d) /\ t = change(s, n, pre, aa)
  BY <1>1, <1>3, <1>4, Zenon DEF Excludes, dcsrWInt
<1>6. Rewritten(s, n, t)
  BY <1>2, <1>3, <1>4, <1>5, ControlWrite, Zenon
<1> QED
  BY <1>2, <1>6, Zenon

\* Writes of a counter.
LEMMA WriteStep ==
  ASSUME IInv, CounterW \/ DebuggerCounterW
  PROVE  IInv'
<1>0. config \in Configs /\ hart \in Hart /\ \A c \in Counter \ hart.stale : Exact(hart, c)
  BY DEF IInv
<1>1. parts \subseteq {"all", "lower", "upper"}
  BY DEF parts
<1>2. ASSUME NEW c \in Counter, NEW part \in {"all", "lower", "upper"}, NEW v \in Value,
             NEW s, Later(hart, s), NEW aa \in BOOLEAN, counterR(s, c, aa) \in Value,
             \A d \in Counter : Exact(hart, d) => Exact(s, d),
             Exact(hart, c) /\ ~stopCount(hart, c) => counterR(s, c, aa) = hart.count[c],
             become(hart, overwrite(csrW(s, c, part, v, aa), c, part, v), {c})
      PROVE  IInv'
  <2>1. PICK t : t = csrW(s, c, part, v, aa)
    OBVIOUS
  <2>2. PICK n : n = overwrite(t, c, part, v)
    OBVIOUS
  <2>3. become(hart, n, {c})
    BY <1>2, <2>1, <2>2, Zenon
  <2>4. /\ n \in Hart
        /\ \A d \in Counter \ n.stale : (d = c /\ stopCount(hart, c)) \/ Exact(n, d)
    BY <1>0, <1>2, <2>1, <2>2, Overwritten
  <2>5. {c} \in SUBSET Counter
    OBVIOUS
  <2>6. \A d \in Counter \ n.stale :
          (d \in {c} /\ (stopCount(hart, d) \/ stopCount(n, d))) \/ Exact(n, d)
    BY <2>4
  <2> QED
    BY <1>0, <2>3, <2>4, <2>5, <2>6, Become
<1>3. CASE CounterW
  <2>1. PICK c \in Counter, part \in parts, v \in Value :
          become(hart, overwrite(csrW(current(Counter), c, part, v, FALSE), c, part, v), {c})
    BY <1>3, Zenon DEF CounterW
  <2>2. PICK s : s = current(Counter)
    OBVIOUS
  <2>3. Keeps(s) /\ Counted(hart, s, Counter)
    BY <1>0, <2>2, CurrentKeeps
  <2>4. PICK no \in BOOLEAN : no = FALSE
    BY Zenon
  <2>5. become(hart, overwrite(csrW(s, c, part, v, no), c, part, v), {c})
    BY <2>1, <2>2, <2>4, Zenon
  <2>6. /\ s \in Hart /\ Later(hart, s) /\ s.base[c] = hart.base[c]
        /\ s.icount[c] = wrap(hart.icount[c] + 1)
    BY <2>1, <2>3 DEF Counted, Later
  <2>7. /\ counterR(s, c, no) = IF inhibited(s, c) THEN s.base[c]
                                ELSE wrap(s.icount[c] - 1 - s.base[c])
        /\ counterR(s, c, no) \in Value
    BY <2>1, <2>4, <2>6, CounterR, Zenon
  <2>8. ASSUME Exact(hart, c), ~stopCount(hart, c)
        PROVE  counterR(s, c, no) = hart.count[c]
    <3> DEFINE i == hart.icount[c]
               b == hart.base[c]
    <3>1. i \in Int /\ b \in Int
      BY <1>0, <2>1, CountType
    <3>2. wrap(wrap(i + 1) - 1 - b) = wrap(i - b)
      BY <3>1, Calculate
    <3>3. inhibited(s, c) <=> c \in hart.countinhibit
      BY <2>6, <2>8, LaterInhibited DEF inhibited
    <3>4. CASE c \in hart.countinhibit
      <4>1. counterR(s, c, no) = hart.base[c]
        BY <2>6, <2>7, <3>3, <3>4, Zenon
      <4> QED
        BY <2>8, <3>4, <4>1, Zenon DEF Exact
    <3>5. CASE c \notin hart.countinhibit
      <4>1. counterR(s, c, no) = wrap(wrap(i + 1) - 1 - b)
        BY <2>6, <2>7, <3>3, <3>5, Zenon
      <4>2. wrap(i - b) = hart.count[c]
        BY <2>8, <3>5, Zenon DEF Exact
      <4> QED
        BY <3>2, <4>1, <4>2, Zenon
    <3> QED
      BY <3>4, <3>5, Zenon
  <2>9. \A d \in Counter : Exact(hart, d) => Exact(s, d)
    BY <2>3 DEF Keeps
  <2>10. part \in {"all", "lower", "upper"}
    BY <1>1, <2>1
  <2> QED
    BY <1>2, <2>1, <2>4, <2>5, <2>6, <2>7, <2>8, <2>9, <2>10, Zenon
<1>4. CASE DebuggerCounterW
  <2>1. PICK c \in Counter, part \in parts, v \in Value :
          become(hart, overwrite(csrW(hart, c, part, v, TRUE), c, part, v), {c})
    BY <1>4, Zenon DEF DebuggerCounterW
  <2>2. PICK yes \in BOOLEAN : yes = TRUE
    BY Zenon
  <2>3. become(hart, overwrite(csrW(hart, c, part, v, yes), c, part, v), {c})
    BY <2>1, <2>2, Zenon
  <2>4. /\ counterR(hart, c, yes) = IF inhibited(hart, c) THEN hart.base[c]
                                    ELSE wrap(hart.icount[c] - hart.base[c])
        /\ counterR(hart, c, yes) \in Value
    BY <1>0, <2>1, <2>2, CounterR, Zenon
  <2>5. ASSUME Exact(hart, c), ~stopCount(hart, c)
        PROVE  counterR(hart, c, yes) = hart.count[c]
    <3>1. inhibited(hart, c) <=> c \in hart.countinhibit
      BY <2>5 DEF inhibited
    <3>2. CASE c \in hart.countinhibit
      <4>1. counterR(hart, c, yes) = hart.base[c]
        BY <2>4, <3>1, <3>2, Zenon
      <4> QED
        BY <2>5, <3>2, <4>1, Zenon DEF Exact
    <3>3. CASE c \notin hart.countinhibit
      <4>1. counterR(hart, c, yes) = wrap(hart.icount[c] - hart.base[c])
        BY <2>4, <3>1, <3>3, Zenon
      <4> QED
        BY <2>5, <3>3, <4>1, Zenon DEF Exact
    <3> QED
      BY <3>2, <3>3, Zenon
  <2>6. Later(hart, hart) /\ part \in {"all", "lower", "upper"}
    BY <1>0, <1>1, <2>1 DEF Later
  <2>7. PICK s : s = hart
    OBVIOUS
  <2>8. ASSUME NEW d \in Counter, Exact(hart, d)
        PROVE  Exact(s, d)
    BY <2>7, <2>8
  <2>9. /\ Later(hart, s) /\ counterR(s, c, yes) \in Value
        /\ Exact(hart, c) /\ ~stopCount(hart, c) => counterR(s, c, yes) = hart.count[c]
        /\ become(hart, overwrite(csrW(s, c, part, v, yes), c, part, v), {c})
    BY <2>3, <2>4, <2>5, <2>6, <2>7, Zenon
  <2> QED
    BY <1>2, <2>1, <2>2, <2>6, <2>8, <2>9, Zenon
<1> QED
  BY <1>3, <1>4

\* Every step keeps the invariant, and the base of a counter that is inhibited
\* before and after it, unless the counter is written.
LEMMA NextStep ==
  ASSUME IInv, Next
  PROVE  IInv' /\ (Stays(hart, hart') \/ CounterW \/ DebuggerCounterW)
<1>0. config \in Configs /\ hart \in Hart
  BY DEF IInv
<1>1. CASE Nop
  BY <1>0, <1>1, CurrentKeeps, KeepsStep DEF Nop
<1>2. CASE Exception
  <2>1. PICK u : u = riscvNoRetire(current({"cycle"}), FALSE)
    OBVIOUS
  <2>2. Keeps(u)
    BY <1>0, <2>1, NoRetireKeeps, Zenon
  <2>3. become(hart, u, {})
    BY <1>2, <2>1, Zenon DEF Exception
  <2> QED
    BY <2>2, <2>3, KeepsStep
<1>3. CASE Ebreak
  <2>1. PICK u : u = riscvEBREAK(current(IF hart.stopcount THEN {} ELSE {"cycle"}))
    OBVIOUS
  <2>2. Keeps(u)
    BY <1>0, <2>1, EbreakKeeps, Zenon
  <2>3. become(hart, u, {})
    BY <1>3, <2>1, Zenon DEF Ebreak
  <2> QED
    BY <2>2, <2>3, KeepsStep
<1>4. CASE TriggerBefore
  <2>1. PICK s : s = riscvNoRetire(current({"cycle"}), FALSE)
    OBVIOUS
  <2>2. Keeps(s)
    BY <1>0, <2>1, NoRetireKeeps, Zenon
  <2>3. PICK u : u = enterDM(s)
    OBVIOUS
  <2>4. Converted(s, u)
    BY <2>2, <2>3, EnterDM DEF Keeps
  <2>5. \A c \in Counter : inhibited(hart, c) => inhibited(s, c)
    <3>1. PICK t : t = current({"cycle"})
      OBVIOUS
    <3>2. s = uncount(t, "instret")
      BY <2>1, <3>1, Zenon DEF riscvNoRetire
    <3>3. Later(hart, t) /\ t \in Hart
      BY <1>0, <3>1, Current DEF Counted, Later
    <3>4. Rebased(t, s)
      BY <3>2, <3>3, Uncount DEF Counter
    <3> QED
      BY <3>3, <3>4, LaterInhibited, RebasedInhibited
  <2>6. Keeps(u)
    BY <1>0, <2>2, <2>4, <2>5, ConvertedKeeps
  <2>7. become(hart, u, {})
    BY <1>4, <2>1, <2>3, Zenon DEF TriggerBefore
  <2> QED
    BY <2>6, <2>7, KeepsStep
<1>5. PICK s : s = current(Counter)
  OBVIOUS
<1>6. /\ Keeps(s) /\ Counted(hart, s, Counter) /\ Later(hart, s) /\ s \in Hart
      /\ \A c \in Counter : inhibited(hart, c) <=> inhibited(s, c)
      /\ \A c \in Counter : stopCount(hart, c) <=> stopCount(s, c)
  <2>1. Keeps(s) /\ Counted(hart, s, Counter)
    BY <1>0, <1>5, CurrentKeeps
  <2>2. Later(hart, s) /\ s \in Hart
    BY <2>1 DEF Counted, Later
  <2> QED
    BY <2>1, <2>2, LaterInhibited
<1>7. Keeps(hart)
  BY <1>0 DEF Keeps, Stays
<1>8. CASE DRET
  <2>1. PICK u : u = leaveDM(s)
    OBVIOUS
  <2>2. Converted(s, u)
    BY <1>6, <2>1, LeaveDM
  <2>3. Keeps(u)
    BY <1>0, <1>6, <2>2, ConvertedKeeps
  <2>4. become(hart, u, {})
    BY <1>5, <1>8, <2>1, Zenon DEF DRET
  <2> QED
    BY <2>3, <2>4, KeepsStep
<1>9. CASE McountinhibitW
  <2>1. PICK cs \in SUBSET Counter : become(hart, mcountinhibitW(s, cs, FALSE), Counter)
    BY <1>5, <1>9, Zenon DEF McountinhibitW
  <2>2. PICK no \in BOOLEAN : no = FALSE
    BY Zenon
  <2>3. PICK t : t = mcountinhibitW(s, cs, no)
    OBVIOUS
  <2>4. become(hart, t, Counter)
    BY <2>1, <2>2, <2>3, Zenon
  <2>5. PICK n \in Hart : n.stale = s.stale /\ Rewritten(s, n, t)
    BY <1>6, <2>1, <2>2, <2>3, Mcountinhibit, Zenon
  <2> QED
    BY <1>6, <2>4, <2>5, ControlStep
<1>10. CASE DcsrW
  <2>1. PICK b \in BOOLEAN : become(hart, dcsrWInt(s, b, FALSE), Counter)
    BY <1>5, <1>10, Zenon DEF DcsrW
  <2>2. PICK no \in BOOLEAN : no = FALSE
    BY Zenon
  <2>3. PICK t : t = dcsrWInt(s, b, no)
    OBVIOUS
  <2>4. become(hart, t, Counter)
    BY <2>1, <2>2, <2>3, Zenon
  <2>5. PICK n \in Hart : n.stale = s.stale /\ Rewritten(s, n, t)
    BY <1>6, <2>1, <2>2, <2>3, Dcsr, Zenon
  <2> QED
    BY <1>6, <2>4, <2>5, ControlStep
<1>11. CASE FetchException
  <2>1. PICK u : u = diverted(hart)
    OBVIOUS
  <2>2. Later(hart, u) /\ u.base = hart.base /\ \A c \in Counter : Exact(hart, c) => Exact(u, c)
    BY <1>0, <2>1, Diverted
  <2>3. Keeps(u)
    BY <2>2 DEF Keeps, Later, Stays
  <2>4. become(hart, u, {})
    BY <1>11, <2>1, Zenon DEF FetchException, riscvNoRetire
  <2> QED
    BY <2>3, <2>4, KeepsStep
<1>12. CASE FetchDebug
  <2>1. PICK m : m = enterDM(hart)
    OBVIOUS
  <2>2. Converted(hart, m)
    BY <1>0, <2>1, EnterDM
  <2>3. m \in Hart
    BY <2>2 DEF Converted
  <2>4. PICK u : u = diverted(m)
    OBVIOUS
  <2>5. Later(m, u) /\ u.base = m.base /\ \A c \in Counter : Exact(m, c) => Exact(u, c)
    BY <2>3, <2>4, Diverted
  <2>6. \A c \in Counter : inhibited(u, c) <=> inhibited(m, c)
    BY <2>5, LaterInhibited
  <2>7. Keeps(u)
    BY <2>2, <2>5, <2>6 DEF Keeps, Later, Stays, Converted
  <2>8. become(hart, u, {})
    BY <1>12, <2>1, <2>4, Zenon DEF FetchDebug
  <2> QED
    BY <2>7, <2>8, KeepsStep
<1>13. CASE Idle
  <2>1. PICK u : u = [tick(hart, {"cycle"}) EXCEPT !.icount["cycle"] = wrap(@ + 1)]
    OBVIOUS
  <2>2. Later(hart, u) /\ u.base = hart.base /\ \A c \in Counter : Exact(hart, c) => Exact(u, c)
    BY <1>0, <2>1, CycleExact
  <2>3. Keeps(u)
    BY <2>2 DEF Keeps, Later, Stays
  <2>4. become(hart, u, {})
    BY <1>13, <2>1, Zenon DEF Idle
  <2> QED
    BY <2>3, <2>4, KeepsStep
<1>14. CASE DebuggerMcountinhibitW
  <2>1. PICK cs \in SUBSET Counter : become(hart, mcountinhibitW(hart, cs, TRUE), Counter)
    BY <1>14, Zenon DEF DebuggerMcountinhibitW
  <2>2. PICK yes \in BOOLEAN : yes = TRUE
    BY Zenon
  <2>3. PICK t : t = mcountinhibitW(hart, cs, yes)
    OBVIOUS
  <2>4. become(hart, t, Counter)
    BY <2>1, <2>2, <2>3, Zenon
  <2>5. PICK n \in Hart : n.stale = hart.stale /\ Rewritten(hart, n, t)
    BY <1>0, <2>1, <2>2, <2>3, Mcountinhibit, Zenon
  <2> QED
    BY <1>7, <2>4, <2>5, ControlStep
<1>15. CASE DebuggerDcsrW
  <2>1. PICK b \in BOOLEAN : become(hart, dcsrWInt(hart, b, TRUE), Counter)
    BY <1>15, Zenon DEF DebuggerDcsrW
  <2>2. PICK yes \in BOOLEAN : yes = TRUE
    BY Zenon
  <2>3. PICK t : t = dcsrWInt(hart, b, yes)
    OBVIOUS
  <2>4. become(hart, t, Counter)
    BY <2>1, <2>2, <2>3, Zenon
  <2>5. PICK n \in Hart : n.stale = hart.stale /\ Rewritten(hart, n, t)
    BY <1>0, <2>1, <2>2, <2>3, Dcsr, Zenon
  <2> QED
    BY <1>7, <2>4, <2>5, ControlStep
<1>16. CASE WriteDM
  <2>1. PICK u : u = IF hart.DM THEN leaveDM(hart) ELSE enterDM(hart)
    OBVIOUS
  <2>2. Converted(hart, u)
    BY <1>0, <2>1, EnterDM, LeaveDM
  <2>3. Keeps(u)
    BY <1>0, <1>7, <2>2, ConvertedKeeps
  <2>4. become(hart, u, {})
    BY <1>16, <2>1, Zenon DEF WriteDM
  <2> QED
    BY <2>3, <2>4, KeepsStep
<1>17. CASE riscvReset
  <2>1. PICK m : m = IF hart.DM THEN leaveDM(hart) ELSE hart
    OBVIOUS
  <2>2. Converted(hart, m) /\ ~m.DM /\ m \in Hart
    <3>1. CASE hart.DM
      <4>1. m = leaveDM(hart)
        BY <2>1, <3>1
      <4>2. Converted(hart, m) /\ m.DM = FALSE
        BY <1>0, <4>1, LeaveDM
      <4> QED
        BY <4>2 DEF Converted
    <3>2. CASE ~hart.DM
      <4>1. m = hart
        BY <2>1, <3>2
      <4> QED
        BY <1>0, <3>2, <4>1 DEF Converted
    <3> QED
      BY <3>1, <3>2
  <2>3. PICK no \in BOOLEAN : no = FALSE
    BY Zenon
  <2>4. PICK u : u = dcsrWInt(m, no, no)
    OBVIOUS
  <2>5. PICK n \in Hart : n.stale = m.stale /\ n.DM = m.DM /\ n.countinhibit = m.countinhibit
                          /\ Rewritten(m, n, u)
    BY <2>2, <2>3, <2>4, Dcsr, Zenon
  <2>6. Rebased(n, u)
    BY <2>5 DEF Rewritten
  <2>7. u \in Hart /\ u.stale = hart.stale /\ ~u.DM /\ u.countinhibit = m.countinhibit
    BY <2>2, <2>5, <2>6 DEF Rebased, Converted
  <2>8. \A c : ~stopCount(u, c) /\ ~stopCount(m, c)
    BY <2>2, <2>7 DEF stopCount
  <2>9. \A c : inhibited(u, c) <=> inhibited(m, c)
    BY <2>7, <2>8 DEF inhibited
  <2>10. \A c \in Counter : Exact(hart, c) => Exact(u, c)
    BY <2>2, <2>5, <2>8 DEF Converted, Rewritten
  <2>11. Stays(hart, u)
    BY <2>2, <2>5, <2>9 DEF Stays, Converted, Rewritten
  <2>12. Keeps(u)
    BY <2>7, <2>10, <2>11 DEF Keeps
  <2>13. become(hart, u, {})
    BY <1>17, <2>1, <2>3, <2>4, Zenon DEF riscvReset
  <2> QED
    BY <2>12, <2>13, KeepsStep
<1>18. CASE CounterW \/ DebuggerCounterW
  BY <1>18, WriteStep
<1> QED
  BY <1>1, <1>2, <1>3, <1>4, <1>8, <1>9, <1>10, <1>11, <1>12, <1>13, <1>14, <1>15, <1>16, <1>17,
     <1>18, Zenon DEF Next

-----------------------------------------------------------------------------
(* Results.                                                                *)

\* The invariant holds initially.
LEMMA InitInv == Init => IInv
<1> SUFFICES ASSUME Init PROVE IInv
  OBVIOUS
<1>1. hart = [icount |-> [c \in Counter |-> 0], base |-> [c \in Counter |-> 0],
              countinhibit |-> {}, stopcount |-> FALSE, DM |-> FALSE,
              count |-> [c \in Counter |-> 0], stale |-> {}]
  BY DEF Init
<1> DEFINE Z == [c \in Counter |-> 0]
<1>2. Z \in [Counter -> Value] /\ \A c \in Counter : Z[c] = 0
  BY ValueInt
<1>3. hart = [icount |-> Z, base |-> Z, countinhibit |-> {}, stopcount |-> FALSE, DM |-> FALSE,
              count |-> Z, stale |-> {}]
  BY <1>1
<1> HIDE DEF Z
<1>4. hart \in Hart
  BY <1>2, <1>3 DEF Hart
<1>5. ASSUME NEW c \in Counter PROVE Exact(hart, c)
  <2>1. hart.base[c] = 0 /\ hart.icount[c] = 0 /\ hart.count[c] = 0
    BY <1>2, <1>3
  <2>2. (~stopCount(hart, c)) /\ c \notin hart.countinhibit
    BY <1>3 DEF stopCount
  <2>3. wrap(0 - 0) = 0
    BY ValueInt, WrapValue
  <2> QED
    BY <2>1, <2>2, <2>3 DEF Exact
<1> QED
  BY <1>4, <1>5 DEF IInv, Init

\* A stuttering step keeps the invariant too.
LEMMA StepInv == IInv /\ [Next]_vars => IInv'
<1> SUFFICES ASSUME IInv, [Next]_vars PROVE IInv'
  OBVIOUS
<1>1. CASE Next
  BY <1>1, NextStep
<1>2. CASE UNCHANGED vars
  <2>1. config' = config /\ hart' = hart
    BY <1>2 DEF vars
  <2> QED
    BY <2>1 DEF IInv, Exact, stopCount
<1> QED
  BY <1>1, <1>2

\* Each counter reads the number of instructions retired (or of cycles) since it
\* was written, those while it was inhibited left out, modulo its width: through
\* any order of writes, of starts and stops by mcountinhibit, and of halts.
THEOREM CountersAreExact == Spec => []CountersExact
<1>1. IInv => CountersExact
  <2> SUFFICES ASSUME IInv, NEW c \in Counter \ hart.stale, ~stopCount(hart, c)
               PROVE  hart \in Hart /\ reads(hart, c) = hart.count[c]
    BY DEF CountersExact, IInv
  <2>1. hart \in Hart /\ Exact(hart, c)
    BY DEF IInv
  <2>2. reads(hart, c) = IF inhibited(hart, c) THEN hart.base[c]
                         ELSE wrap(hart.icount[c] - hart.base[c])
    BY <2>1, CounterR, Zenon DEF reads
  <2>3. inhibited(hart, c) <=> c \in hart.countinhibit
    BY DEF inhibited
  <2> QED
    BY <2>1, <2>2, <2>3 DEF Exact
<1> QED
  BY <1>1, InitInv, StepInv, PTL DEF Spec

\* A counter that is inhibited reads the same after any step that leaves it
\* inhibited, unless the step writes a counter.
THEOREM InhibitedStay == Spec => InhibitedStays
<1>1. ASSUME IInv, Next, NEW c \in Counter, inhibited(hart, c), inhibited(hart', c),
             reads(hart', c) # reads(hart, c)
      PROVE  CounterW \/ DebuggerCounterW
  <2>1. Stays(hart, hart') \/ CounterW \/ DebuggerCounterW
    BY <1>1, NextStep
  <2>2. reads(hart, c) = hart.base[c] /\ reads(hart', c) = hart'.base[c]
    BY <1>1, Zenon DEF reads, counterR
  <2> QED
    BY <1>1, <2>1, <2>2 DEF Stays
<1>2. IInv /\ [Next]_vars =>
        [\A c \in Counter :
           (inhibited(hart, c) /\ inhibited(hart', c) /\ reads(hart', c) # reads(hart, c))
             => CounterW \/ DebuggerCounterW]_vars
  BY <1>1, Zenon
<1> QED
  BY <1>2, InitInv, StepInv, PTL DEF Spec, InhibitedStays
=============================================================================
