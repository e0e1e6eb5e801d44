----------------------------- MODULE UnitsProofs -----------------------------
(***************************************************************************)
(* The two overflow checks of config.go are exact for every width of the   *)
(* machine word and every multiplier that fits in one, and what it decides  *)
(* of a fraction by its length is what the exact product would decide.      *)
(***************************************************************************)
EXTENDS Units, Induction, TLAPS

\* Division with remainder, in the form the proofs use it.
LEMMA DivisionOfNat ==
  ASSUME NEW a \in Nat, NEW b \in Nat \ {0}
  PROVE  /\ a \div b \in Nat
         /\ b * (a \div b) <= a
         /\ a < b * (a \div b) + b
<1>1. a = b * (a \div b) + (a % b) /\ a % b \in 0..(b - 1) BY Z3
<1>2. a \div b \in Nat BY Z3
<1> QED BY <1>1, <1>2, Z3

\* The order of multiples is the order of the factors.
LEMMA ProductOrder ==
  ASSUME NEW m \in Nat \ {0}, NEW p \in Int, NEW q \in Int
  PROVE  m * p < m * q + m <=> p <= q
<1>1. ASSUME p <= q PROVE m * p < m * q + m
  <2>1. m * (q - p) >= 0 BY <1>1, Z3
  <2> QED BY <2>1, Z3
<1>2. ASSUME p > q PROVE m * p >= m * q + m
  <2>1. m * (p - q - 1) >= 0 BY <1>2, Z3
  <2> QED BY <2>1, Z3
<1> QED BY <1>1, <1>2, Z3

\* A truncated quotient is an integer, near the dividend on the side of zero.
LEMMA QuotBounds ==
  ASSUME NEW a \in Int, NEW b \in Nat \ {0}
  PROVE  /\ Quot(a, b) \in Int
         /\ a >= 0 => b * Quot(a, b) <= a /\ a < b * Quot(a, b) + b
         /\ a < 0 => a <= b * Quot(a, b) /\ b * Quot(a, b) < a + b
<1>1. CASE a >= 0
  BY <1>1, DivisionOfNat DEF Quot
<1>2. CASE a < 0
  <2> DEFINE q == (-a) \div b
  <2>1. -a \in Nat BY <1>2
  <2>2. q \in Nat /\ b * q <= -a /\ -a < b * q + b BY <2>1, DivisionOfNat
  <2>3. Quot(a, b) = -q BY <1>2 DEF Quot
  <2> HIDE DEF q
  <2>4. b * (-q) = -(b * q) BY <2>2
  <2> QED BY <1>2, <2>2, <2>3, <2>4
<1> QED BY <1>1, <1>2

\* A wrapped number is in range, differs by whole turns, and is the number
\* itself when that was in range.
LEMMA WrapTurns ==
  ASSUME Half \in Nat \ {0}, NEW x \in Int
  PROVE  /\ Wrap(x) \in Int
         /\ Fits(Wrap(x))
         /\ \E k \in Int : Wrap(x) = x + 2 * Half * k
         /\ Fits(x) => Wrap(x) = x
<1> DEFINE w == 2 * Half
           r == (x + Half) % w
           k == (x + Half) \div w
<1>1. w \in Nat \ {0} /\ x + Half \in Int OBVIOUS
<1> HIDE DEF w
<1>2. k \in Int /\ r \in 0..(w - 1) /\ x + Half = w * k + r BY <1>1, Z3
<1>3. Fits(x) => r = x + Half
  <2>1. ASSUME Fits(x) PROVE x + Half \in 0..(w - 1) BY <2>1 DEF Fits, w
  <2>2. ASSUME Fits(x) PROVE k = 0
    <3>1. w * k < w * 0 + w BY <1>1, <1>2, <2>1, <2>2
    <3>2. w * 0 < w * k + w BY <1>1, <1>2, <2>1, <2>2
    <3> QED BY <1>1, <1>2, <3>1, <3>2, ProductOrder
  <2> QED BY <1>1, <1>2, <2>2
<1> HIDE DEF r, k
<1>4. Wrap(x) = r - Half BY DEF Wrap, r, w
<1>5. Fits(Wrap(x)) /\ Wrap(x) \in Int BY <1>2, <1>4 DEF Fits, w
<1>6. Wrap(x) = x + 2 * Half * (-k)
  <2>1. w * (-k) = -(w * k) BY <1>1, <1>2
  <2>2. Wrap(x) = x + w * (-k) BY <1>1, <1>2, <1>4, <2>1
  <2> QED BY <2>2 DEF w
<1>7. -k \in Int BY <1>2
<1> QED BY <1>3, <1>4, <1>5, <1>6, <1>7

-----------------------------------------------------------------------------
(* The two checks *)

\* parseDuration refuses a number exactly when its product does not fit.
THEOREM BoundsAreExact ==
  ASSUME Half \in Nat, NEW n \in Int, NEW m \in 1..(Half - 1)
  PROVE  BoundedProduct(n, m) =
           IF Fits(n * m) THEN Done("ns", n * m) ELSE Overflow
<1> DEFINE high == Quot(Half - 1, m)
           low == Quot(-Half, m)
           p == m * n
<1>1. m \in Nat \ {0} /\ Half - 1 \in Int /\ -Half \in Int /\ Half - 1 >= 0 /\ -Half < 0
  OBVIOUS
<1>2. high \in Int /\ m * high <= Half - 1 /\ Half - 1 < m * high + m
  BY <1>1, QuotBounds
<1>3. low \in Int /\ -Half <= m * low /\ m * low < -Half + m
  BY <1>1, QuotBounds
<1> HIDE DEF high, low
<1>4. n * m = p /\ p \in Int BY <1>1
<1>5. n <= high <=> p < m * high + m BY <1>1, <1>2, ProductOrder DEF p
<1>6. high + 1 <= n <=> m * (high + 1) < p + m BY <1>1, <1>2, ProductOrder DEF p
<1>7. low <= n <=> m * low < p + m BY <1>1, <1>3, ProductOrder DEF p
<1>8. n <= low - 1 <=> p < m * (low - 1) + m BY <1>1, <1>3, ProductOrder DEF p
<1>9. m * (high + 1) = m * high + m /\ m * (low - 1) = m * low - m
  BY <1>1, <1>2, <1>3
<1> HIDE DEF p
<1>10. n > high <=> p > Half - 1
  <2>1. ASSUME n > high PROVE p > Half - 1
    <3>1. high + 1 <= n BY <2>1, <1>2
    <3>2. m * high + m < p + m BY <3>1, <1>6, <1>9
    <3> QED BY <3>2, <1>2, <1>4, <1>1, <2>1, <1>5
  <2>2. ASSUME ~(n > high) PROVE ~(p > Half - 1)
    <3>1. ~(high + 1 <= n) BY <2>2, <1>2
    <3>2. ~(m * high + m < p + m) BY <3>1, <1>6, <1>9
    <3> QED BY <3>2, <1>1, <1>2, <1>4
  <2> QED BY <2>1, <2>2
<1>11. n < low <=> p < -Half
  <2>1. ASSUME n < low PROVE p < -Half
    <3>1. ~(low <= n) BY <2>1, <1>3
    <3>2. ~(m * low < p + m) BY <3>1, <1>7
    <3> QED BY <3>2, <1>1, <1>3, <1>4
  <2>2. ASSUME ~(n < low) PROVE ~(p < -Half)
    <3>1. ~(n <= low - 1) BY <2>2, <1>3
    <3>2. ~(p < m * low - m + m) BY <3>1, <1>8, <1>9
    <3> QED BY <3>2, <1>1, <1>3, <1>4
  <2> QED BY <2>1, <2>2
<1> QED BY <1>4, <1>10, <1>11 DEF BoundedProduct, Fits, high, low

\* parseBytes, which multiplies first, refuses a number exactly when the
\* product wrapped.
THEOREM DividingBackIsExact ==
  ASSUME Half \in Nat, NEW n \in Int, Fits(n), NEW m \in 1..(Half - 1)
  PROVE  CheckedProduct(n, m) =
           IF Fits(n * m) THEN Done("bytes", n * m) ELSE Overflow
<1> DEFINE p == m * n
           r == Wrap(p)
           q == Quot(r, m)
<1>1. m \in Nat \ {0} /\ Half \in Nat \ {0} /\ p \in Int /\ n * m = p OBVIOUS
<1>2. r \in Int /\ Fits(r) /\ (Fits(p) => r = p) BY <1>1, WrapTurns
<1>3. PICK k \in Int : r = p + 2 * Half * k BY <1>1, WrapTurns
<1> HIDE DEF r
<1>4. q \in Int /\ (r >= 0 => m * q <= r /\ r < m * q + m)
                /\ (r < 0 => r <= m * q /\ m * q < r + m)
  BY <1>1, <1>2, QuotBounds
<1> HIDE DEF q
<1>5. CheckedProduct(n, m) = IF n # 0 /\ q # n THEN Overflow ELSE Done("bytes", r)
  BY <1>1 DEF CheckedProduct, r, q
<1>6. CASE Fits(p)
  <2>1. r = p BY <1>6, <1>2
  <2>2. q = n
    <3>1. CASE p >= 0
      <4>1. m * q < m * n + m /\ m * n < m * q + m BY <1>1, <1>4, <2>1, <3>1 DEF p
      <4> QED BY <4>1, <1>1, <1>4, ProductOrder
    <3>2. CASE p < 0
      <4>1. m * q < m * n + m /\ m * n < m * q + m BY <1>1, <1>4, <2>1, <3>2 DEF p
      <4> QED BY <4>1, <1>1, <1>4, ProductOrder
    <3> QED BY <3>1, <3>2, <1>1
  <2> QED BY <1>1, <1>5, <1>6, <2>1, <2>2
<1>7. CASE ~Fits(p)
  <2>1. n # 0 BY <1>7, <1>1 DEF Fits, p
  <2>2. q # n
    <3>1. SUFFICES ASSUME q = n PROVE FALSE OBVIOUS
    <3>2. r < p + m /\ p < r + m BY <3>1, <1>1, <1>2, <1>4 DEF p
    <3> DEFINE w == 2 * Half
    <3>3. w \in Nat \ {0} /\ m < w BY <1>1
    <3>4. r = p + w * k BY <1>3
    <3> HIDE DEF w, p
    <3>5. w * k < w * 0 + w /\ w * 0 < w * k + w
      <4>1. w * k \in Int /\ w * 0 = 0 BY <3>3
      <4> QED BY <4>1, <1>1, <1>2, <3>2, <3>3, <3>4
    <3>6. k = 0 BY <3>3, <3>5, ProductOrder
    <3>7. r = p BY <3>3, <3>4, <3>6, <1>1
    <3> QED BY <3>7, <1>2, <1>7
  <2> QED BY <1>1, <1>5, <1>7, <2>1, <2>2
<1> QED BY <1>6, <1>7

-----------------------------------------------------------------------------
(* The readers *)

\* A number that does not fit has no product that does.
LEMMA ProductIsNoSmaller ==
  ASSUME Half \in Nat, NEW n \in Int, NEW m \in Nat \ {0}, ~Fits(n)
  PROVE  ~Fits(n * m)
<1>1. CASE n >= Half
  <2>1. n * (m - 1) >= 0 BY <1>1, Z3
  <2>2. n * m = n * (m - 1) + n BY Z3
  <2>3. n * m >= Half BY <1>1, <2>1, <2>2, Z3
  <2> QED BY <2>3 DEF Fits
<1>2. CASE n < -Half
  <2>1. n * (m - 1) <= 0 BY <1>2, Z3
  <2>2. n * m = n * (m - 1) + n BY Z3
  <2>3. n * m < -Half BY <1>2, <2>1, <2>2, Z3
  <2> QED BY <2>3 DEF Fits
<1> QED BY <1>1, <1>2 DEF Fits

\* The number of a value, and what it takes for it to be read as an integer.
Integral(v) == v.num # NoNumber /\ v.num.integer /\ v.num.scale = 0

LEMMA WholeIsInt ==
  ASSUME NEW v \in Values, v.num # NoNumber
  PROVE  Whole(v.num) \in Int
BY ValuesAssumption DEF Whole, Numeral

LEMMA DurationIsExact ==
  ASSUME NEW v \in Values, Integral(v), v.unit \in DOMAIN DurationUnit
  PROVE  LET p == Whole(v.num) * DurationUnit[v.unit] IN
         parseDuration(v.num, v.unit) = IF Fits(p) THEN Done("ns", p) ELSE Overflow
<1> DEFINE n == Whole(v.num)
           m == DurationUnit[v.unit]
<1>1. m \in 1..(Half - 1) /\ m \in Nat \ {0} /\ Half \in Nat BY WordAssumption
<1>2. n \in Int BY WholeIsInt DEF Integral
<1>3. parseDuration(v.num, v.unit) = IF ~Fits(n) THEN Overflow ELSE BoundedProduct(n, m)
  BY DEF parseDuration, Integral
<1> HIDE DEF n, m
<1>4. BoundedProduct(n, m) = IF Fits(n * m) THEN Done("ns", n * m) ELSE Overflow
  BY <1>1, <1>2, BoundsAreExact
<1>5. ~Fits(n) => ~Fits(n * m) BY <1>1, <1>2, ProductIsNoSmaller
<1> QED BY <1>3, <1>4, <1>5 DEF n, m

LEMMA BytesAreExact ==
  ASSUME NEW v \in Values, Integral(v), v.unit \in DOMAIN ByteUnit,
         ByteUnit[v.unit] < Half
  PROVE  LET n == Whole(v.num)
             p == n * ByteUnit[v.unit]
         IN readBytes(v.num, v.unit) =
              IF ~Fits(p) THEN Invalid
              ELSE IF n < 0 THEN Negative ELSE Done("bytes", p)
<1> DEFINE n == Whole(v.num)
           m == ByteUnit[v.unit]
           parsed == parseBytes(v.num, v.unit)
<1>1. m \in 1..(Half - 1) /\ m \in Nat \ {0} /\ Half \in Nat BY WordAssumption
<1>2. n \in Int BY WholeIsInt DEF Integral
<1>3. parsed = IF ~Fits(n) THEN Overflow ELSE CheckedProduct(n, m)
  BY <1>1 DEF parseBytes, Integral
<1>4. readBytes(v.num, v.unit) = IF parsed.kind # "bytes" THEN Invalid
                                 ELSE IF parsed.n < 0 THEN Negative ELSE parsed
  BY DEF readBytes
<1> HIDE DEF n, m, parsed
<1>5. Fits(n) => CheckedProduct(n, m) =
                   IF Fits(n * m) THEN Done("bytes", n * m) ELSE Overflow
  BY <1>1, <1>2, DividingBackIsExact
<1>6. ~Fits(n) => ~Fits(n * m) BY <1>1, <1>2, ProductIsNoSmaller
<1>7. parsed = IF Fits(n * m) THEN Done("bytes", n * m) ELSE Overflow
  BY <1>3, <1>5, <1>6
<1>8. n * m < 0 <=> n < 0
  <2>1. n >= 0 => n * m >= 0 BY <1>1, <1>2, Z3
  <2>2. n < 0 => n * m < 0 BY <1>1, <1>2, Z3
  <2>3. n * m \in Int BY <1>1, <1>2
  <2> QED BY <1>2, <2>1, <2>2, <2>3
<1>9. Overflow.kind # "bytes" /\ Done("bytes", n * m).kind = "bytes"
      /\ Done("bytes", n * m).n = n * m
  BY DEF Overflow, Done
<1> QED BY <1>4, <1>7, <1>8, <1>9 DEF n, m

LEMMA PeriodIsExact ==
  ASSUME NEW v \in Values, Integral(v), v.unit \in DOMAIN PeriodUnit
  PROVE  LET n == Whole(v.num)
             weeks == PeriodUnit[v.unit] = "weeks"
             count == IF weeks THEN 7 * n ELSE n
         IN readPeriod(v.num, v.unit) =
              IF FitsPeriod(count)
              THEN Done(IF weeks THEN "days" ELSE PeriodUnit[v.unit], count)
              ELSE Invalid
<1> DEFINE n == Whole(v.num)
<1>1. n \in Int BY WholeIsInt DEF Integral
<1>2. Half \in Nat \ {0} /\ PeriodHalf \in Nat \ {0} /\ 7 * PeriodHalf <= Half
  BY WordAssumption
<1>3. readPeriod(v.num, v.unit) =
        IF ~FitsPeriod(n) THEN Invalid
        ELSE IF PeriodUnit[v.unit] = "weeks" THEN Days(Wrap(n * 7))
        ELSE Done(PeriodUnit[v.unit], n)
  BY DEF readPeriod, Integral
<1> HIDE DEF n
<1>4. ~FitsPeriod(n) => ~FitsPeriod(7 * n) BY <1>1, <1>2 DEF FitsPeriod
<1>5. FitsPeriod(n) => Wrap(n * 7) = 7 * n
  <2>1. FitsPeriod(n) => Fits(n * 7) BY <1>1, <1>2 DEF Fits, FitsPeriod
  <2> QED BY <1>1, <1>2, <2>1, WrapTurns
<1> QED BY <1>3, <1>4, <1>5 DEF n, Days

\* Every value whose number is an integer is read exactly, or refused when it
\* does not fit, by each of the three readers: durations, byte sizes, periods.
THEOREM IntegersAreExact == Spec => []IntegersExact
<1> DEFINE Inv == value \in Values /\ IntegersExact
<1>1. Init => Inv BY DEF Init, IntegersExact
<1>2. Inv /\ [Next]_vars => Inv'
  <2> SUFFICES ASSUME Inv, [Next]_vars PROVE Inv' OBVIOUS
  <2>1. CASE GetDuration
    <3>1. value' = value /\ reader' = "duration"
          /\ outcome' = parseDuration(value.num, value.unit) BY <2>1 DEF GetDuration
    <3> QED BY <3>1, DurationIsExact DEF IntegersExact, Integral
  <2>2. CASE GetBytes
    <3>1. value' = value /\ reader' = "bytes"
          /\ outcome' = readBytes(value.num, value.unit) BY <2>2 DEF GetBytes
    <3> QED BY <3>1, BytesAreExact DEF IntegersExact, Integral
  <2>3. CASE GetPeriod
    <3>1. value' = value /\ reader' = "period"
          /\ outcome' = readPeriod(value.num, value.unit) BY <2>3 DEF GetPeriod
    <3> QED BY <3>1, PeriodIsExact DEF IntegersExact, Integral
  <2>4. CASE UNCHANGED vars BY <2>4 DEF vars, IntegersExact
  <2> QED BY <2>1, <2>2, <2>3, <2>4 DEF Next
<1>3. Inv => IntegersExact OBVIOUS
<1> QED BY <1>1, <1>2, <1>3, PTL DEF Spec

-----------------------------------------------------------------------------
(* Powers of ten, and the length of a number.                               *)

\* A product of larger factors is larger.
LEMMA LargerFactors ==
  ASSUME NEW a \in Nat, NEW b \in Nat, NEW c \in Nat, NEW d \in Nat, a <= b, c <= d
  PROVE  a * c <= b * d /\ a * c \in Nat /\ b * d \in Nat
<1>1. a * (d - c) >= 0 /\ (b - a) * d >= 0 BY Z3
<1>2. b * d - a * c = a * (d - c) + (b - a) * d BY Z3
<1>3. a * c \in Nat /\ b * d \in Nat BY Z3
<1> QED BY <1>1, <1>2, <1>3, Z3

LEMMA TenStep == Ten[0] = 1 /\ \A k \in Nat : Ten[k] \in Nat \ {0} /\ Ten[k + 1] = 10 * Ten[k]
<1> DEFINE V == Nat
           first == 1
           step == [k \in Nat \ {0} |-> [v \in Nat |-> 10 * v]]
           Body(f, k) == IF k = 0 THEN 1 ELSE 10 * f[k - 1]
<1>1. first \in V /\ \A k \in Nat \ {0} : step[k] \in [V -> V] OBVIOUS
<1>2. PICK f : f \in IteratesOnNat(V, first, step)
  <2> HIDE DEF V, first, step
  <2> QED BY <1>1, Recursion
<1>3. f \in [Nat -> Nat] /\ f[0] = 1 /\ \A k \in Nat \ {0} : f[k] = step[k][f[k - 1]]
  <2> HIDE DEF step
  <2> QED BY <1>2 DEF IteratesOnNat
<1>4. ASSUME NEW k \in Nat \ {0} PROVE f[k] = 10 * f[k - 1]
  <2>1. k - 1 \in Nat OBVIOUS
  <2>2. f[k - 1] \in Nat BY <1>3, <2>1
  <2>3. step[k][f[k - 1]] = 10 * f[k - 1] BY <2>2
  <2> HIDE DEF step
  <2> QED BY <1>3, <2>3
<1>5. f = [k \in Nat |-> Body(f, k)]
  <2>1. \A k \in Nat : f[k] = Body(f, k) BY <1>3, <1>4
  <2> HIDE DEF Body
  <2> QED BY <1>3, <2>1
<1>6. Ten = [k \in Nat |-> Body(Ten, k)]
  <2>1. Ten = CHOOSE g : g = [k \in Nat |-> Body(g, k)] BY DEF Ten
  <2> HIDE DEF Body
  <2> QED BY <1>5, <2>1, Zenon
<1>7. \A k \in Nat : Ten[k] = Body(Ten, k)
  <2> HIDE DEF Body
  <2> QED BY <1>6
<1>8. Ten[0] = 1 /\ \A k \in Nat : Ten[k + 1] = 10 * Ten[k]
  <2>1. Ten[0] = 1 BY <1>7
  <2>2. ASSUME NEW k \in Nat PROVE Ten[k + 1] = 10 * Ten[k]
    <3>1. k + 1 \in Nat /\ k + 1 # 0 /\ (k + 1) - 1 = k OBVIOUS
    <3> QED BY <1>7, <3>1
  <2> QED BY <2>1, <2>2
<1> DEFINE S == {k \in Nat : Ten[k] \in Nat \ {0}}
<1>9. 0 \in S /\ \A k \in Nat : k \in S => k + 1 \in S BY <1>8
<1>10. \A k \in Nat : k \in S
  <2> HIDE DEF S
  <2> QED BY <1>9, NatInSet
<1> QED BY <1>8, <1>10

LEMMA TenSum ==
  ASSUME NEW a \in Nat, NEW b \in Nat
  PROVE  Ten[a + b] = Ten[a] * Ten[b]
<1> DEFINE S == {n \in Nat : Ten[a + n] = Ten[a] * Ten[n]}
<1>1. 0 \in S BY TenStep
<1>2. ASSUME NEW n \in Nat, n \in S PROVE n + 1 \in S
  <2>1. a + n \in Nat /\ a + (n + 1) = (a + n) + 1 OBVIOUS
  <2>2. Ten[a + (n + 1)] = 10 * Ten[a + n] /\ Ten[n + 1] = 10 * Ten[n]
    BY <2>1, TenStep
  <2>3. Ten[a] \in Nat /\ Ten[n] \in Nat /\ Ten[a + n] = Ten[a] * Ten[n] BY <1>2, TenStep
  <2>4. 10 * (Ten[a] * Ten[n]) = Ten[a] * (10 * Ten[n]) BY <2>3
  <2> QED BY <2>2, <2>3, <2>4
<1>3. b \in S
  <2> HIDE DEF S
  <2> QED BY <1>1, <1>2, NatInSet
<1> QED BY <1>3

LEMMA TenGrows ==
  ASSUME NEW a \in Nat, NEW b \in Nat, a <= b
  PROVE  Ten[a] <= Ten[b]
<1>1. b - a \in Nat /\ a + (b - a) = b OBVIOUS
<1>2. Ten[b] = Ten[a] * Ten[b - a] BY <1>1, TenSum
<1>3. Ten[a] \in Nat /\ Ten[b - a] \in Nat \ {0} BY <1>1, TenStep
<1>4. Ten[a] * 1 <= Ten[a] * Ten[b - a] BY <1>3, LargerFactors
<1> QED BY <1>2, <1>3, <1>4

LEMMA BelowTen == \A n \in Nat : n < Ten[n]
<1> DEFINE S == {n \in Nat : n < Ten[n]}
<1>1. 0 \in S /\ \A n \in Nat : n \in S => n + 1 \in S BY TenStep
<1>2. \A n \in Nat : n \in S
  <2> HIDE DEF S
  <2> QED BY <1>1, NatInSet
<1> QED BY <1>2

\* The length of a number is the power of ten just above it.
LEMMA LengthBounds ==
  ASSUME NEW n \in Nat \ {0}
  PROVE  /\ Length(n) \in Nat \ {0}
         /\ Ten[Length(n) - 1] <= n /\ n < Ten[Length(n)]
<1> DEFINE S == {k \in Nat : n < Ten[k]}
<1>1. n \in S BY BelowTen
<1>2. PICK k \in S : \A j \in S : k <= j
  <2>1. S \subseteq Nat /\ S # {} BY <1>1
  <2> HIDE DEF S
  <2> QED BY <2>1, LeastElement
<1>3. k # 0 BY TenStep
<1>4. k - 1 \in Nat /\ k - 1 \notin S BY <1>2, <1>3
<1>5. Ten[k - 1] <= n BY <1>4, TenStep
<1>6. k \in 1 .. n + 1 BY <1>1, <1>2, <1>3
<1>7. \E j \in 1 .. n + 1 : Ten[j - 1] <= n /\ n < Ten[j] BY <1>2, <1>5, <1>6
<1>8. Length(n) \in 1 .. n + 1 /\ Ten[Length(n) - 1] <= n /\ n < Ten[Length(n)]
  BY <1>7 DEF Length
<1> QED BY <1>8

-----------------------------------------------------------------------------
(* Fractions.                                                               *)

LEMMA FractionTyped ==
  ASSUME NEW num \in Numeral, NEW mult \in Nat
  PROVE  /\ Upper(num, mult) \in Nat /\ Lower(num) \in Nat \ {0}
         /\ num.negative \in BOOLEAN /\ num.digits \in Nat /\ num.scale \in Int
<1>1. num.negative \in BOOLEAN /\ num.digits \in Nat /\ num.scale \in Int BY DEF Numeral
<1>2. num.scale > 0 => num.scale \in Nat /\ Ten[num.scale] \in Nat BY <1>1, TenStep
<1>3. num.scale < 0 => -num.scale \in Nat /\ Ten[-num.scale] \in Nat \ {0} BY <1>1, TenStep
<1>4. num.digits * mult \in Nat BY <1>1, LargerFactors
<1>5. Upper(num, mult) \in Nat BY <1>1, <1>2, <1>4, LargerFactors DEF Upper
<1> QED BY <1>1, <1>3, <1>5 DEF Lower

\* What truncProduct computes is the quotient, with the sign of the number.
LEMMA ExactlyDivides ==
  ASSUME NEW num \in Numeral, NEW mult \in Nat
  PROVE  \E size \in Nat :
           /\ Exactly(num, mult) = IF num.negative THEN -size ELSE size
           /\ Lower(num) * size <= Upper(num, mult)
           /\ Upper(num, mult) < Lower(num) * size + Lower(num)
<1> DEFINE up == IF num.scale > 0 THEN num.scale ELSE 0
           down == IF num.scale < 0 THEN -num.scale ELSE 0
           a == num.digits * Ten[up] * mult
           size == Upper(num, mult) \div Lower(num)
<1>1. Upper(num, mult) \in Nat /\ Lower(num) \in Nat \ {0} BY FractionTyped
<1>2. num.digits \in Nat /\ num.scale \in Int BY FractionTyped
<1>3. up \in Nat /\ down \in Nat BY <1>2
<1>4. Ten[up] = (IF num.scale > 0 THEN Ten[num.scale] ELSE 1)
  BY <1>2, TenStep
<1>5. Ten[down] = Lower(num) BY <1>2, TenStep DEF Lower
<1>6. a = Upper(num, mult)
  <2> DEFINE t == Ten[up]
  <2>1. t \in Nat BY <1>3, TenStep
  <2>2. Upper(num, mult) = num.digits * mult * t BY <1>4 DEF Upper
  <2> HIDE DEF t
  <2>3. num.digits * t * mult = num.digits * mult * t BY <1>2, <2>1, Z3
  <2> QED BY <2>2, <2>3 DEF t
<1>7. Exactly(num, mult) = IF num.negative THEN -(a \div Ten[down]) ELSE a \div Ten[down]
  BY DEF Exactly
<1>8. size \in Nat /\ Lower(num) * size <= Upper(num, mult)
      /\ Upper(num, mult) < Lower(num) * size + Lower(num)
  BY <1>1, DivisionOfNat
<1>9. a \div Ten[down] = size BY <1>5, <1>6
<1> HIDE DEF a, down, size
<1> QED BY <1>7, <1>8, <1>9

\* A number that is too long does not fit, whatever its unit.
LEMMA LongIsPast ==
  ASSUME NEW num \in Numeral, num.digits # 0, NEW mult \in Nat \ {0},
         Length(num.digits) + num.scale > Top
  PROVE  IsPast(num, mult)
<1> DEFINE d == num.digits
           l == Length(num.digits)
           s == num.scale
           P == Upper(num, mult)
           D == Lower(num)
<1>1. d \in Nat \ {0} /\ s \in Int /\ P \in Nat /\ D \in Nat \ {0} BY FractionTyped
<1>2. l \in Nat \ {0} /\ l - 1 \in Nat /\ Ten[l - 1] <= d BY <1>1, LengthBounds
<1>3. Top \in Nat /\ Half + 1 <= Ten[Top] /\ Half \in Nat /\ Ten[Top] \in Nat
  BY EstimateAssumption, WordAssumption, TenStep
<1>4. Ten[Top] * D <= d * (IF s > 0 THEN Ten[s] ELSE 1)
  <2>1. CASE s > 0
    <3>1. s \in Nat /\ (l - 1) + s \in Nat /\ Top <= (l - 1) + s BY <1>1, <1>2, <1>3, <2>1
    <3>2. Ten[Top] <= Ten[l - 1] * Ten[s] BY <1>2, <1>3, <3>1, TenGrows, TenSum
    <3>3. Ten[l - 1] * Ten[s] <= d * Ten[s] BY <1>1, <1>2, <3>1, TenStep, LargerFactors
    <3>4. D = 1 BY <1>1, <2>1 DEF Lower
    <3>5. Ten[l - 1] * Ten[s] \in Nat /\ d * Ten[s] \in Nat
      BY <1>1, <1>2, <3>1, TenStep, LargerFactors
    <3> HIDE DEF d, l, s, D
    <3> QED BY <1>3, <2>1, <3>2, <3>3, <3>4, <3>5
  <2>2. CASE ~(s > 0)
    <3>1. -s \in Nat /\ Top + (-s) \in Nat /\ Top + (-s) <= l - 1 BY <1>1, <1>2, <1>3, <2>2
    <3>2. D = Ten[-s] BY <1>1, <2>2, TenStep DEF Lower
    <3>3. Ten[Top] * Ten[-s] <= Ten[l - 1] BY <1>2, <1>3, <3>1, TenGrows, TenSum
    <3>4. Ten[Top] * Ten[-s] \in Nat /\ Ten[l - 1] \in Nat
      BY <1>2, <1>3, <3>1, TenStep, LargerFactors
    <3> HIDE DEF d, l, s, D
    <3> QED BY <1>1, <1>2, <2>2, <3>2, <3>3, <3>4
  <2> QED BY <2>1, <2>2
<1>5. (Half + 1) * D <= Ten[Top] * D BY <1>1, <1>3, LargerFactors
<1> DEFINE e == IF s > 0 THEN Ten[s] ELSE 1
<1>6. e \in Nat BY <1>1, TenStep
<1>7. P = d * mult * e BY DEF Upper
<1>8. d * e <= P
  <2>1. d * e \in Nat BY <1>1, <1>6, LargerFactors
  <2>2. (d * e) * 1 <= (d * e) * mult BY <2>1, LargerFactors
  <2> HIDE DEF d, e, P
  <2>3. (d * e) * mult = d * mult * e BY <1>1, <1>6, Z3
  <2> QED BY <1>7, <2>1, <2>2, <2>3
<1>9. (Half + 1) * D <= P
  <2>1. (Half + 1) * D \in Nat /\ Ten[Top] * D \in Nat /\ d * e \in Nat
    BY <1>1, <1>3, <1>6, LargerFactors
  <2> HIDE DEF d, e, P, D
  <2>2. Ten[Top] * D <= d * e BY <1>4 DEF e
  <2> QED BY <1>1, <1>5, <1>8, <2>1, <2>2
<1>10. Half * D <= (Half + 1) * D /\ Half * D \in Nat /\ (Half + 1) * D \in Nat
  BY <1>1, <1>3, LargerFactors
<1>11. num.negative \in BOOLEAN BY FractionTyped
<1> HIDE DEF P, D
<1>12. P >= (IF num.negative THEN Half + 1 ELSE Half) * D BY <1>1, <1>9, <1>10, <1>11
<1> QED BY <1>12 DEF IsPast, P, D

\* A number that is too small rounds to zero, even in the largest unit.
LEMMA ShortIsZero ==
  ASSUME NEW num \in Numeral, num.digits # 0, NEW mult \in Nat, mult <= Ten[Bottom],
         Length(num.digits) + num.scale < -Bottom
  PROVE  IsTruncated(0, num, mult)
<1> DEFINE d == num.digits
           l == Length(num.digits)
           s == num.scale
<1>1. d \in Nat \ {0} /\ s \in Int BY FractionTyped
<1>2. l \in Nat \ {0} /\ d < Ten[l] /\ Ten[l] \in Nat BY <1>1, LengthBounds, TenStep
<1>3. Bottom \in Nat /\ Ten[Bottom] \in Nat \ {0} BY EstimateAssumption, TenStep
<1>4. s < 0 /\ -s \in Nat /\ l + Bottom \in Nat /\ l + Bottom <= -s BY <1>1, <1>2, <1>3
<1>5. Ten[l] * Ten[Bottom] <= Ten[-s] BY <1>2, <1>3, <1>4, TenGrows, TenSum
<1>6. d * mult <= d * Ten[Bottom] BY <1>1, <1>3, LargerFactors
<1>7. (d + 1) * Ten[Bottom] <= Ten[l] * Ten[Bottom] BY <1>1, <1>2, <1>3, LargerFactors
<1>8. Upper(num, mult) = d * mult /\ Lower(num) = Ten[-s]
  <2>1. ~(s > 0) BY <1>1, <1>4
  <2>2. d * mult \in Nat BY <1>1, LargerFactors
  <2>3. Upper(num, mult) = d * mult * 1 BY <2>1 DEF Upper
  <2>4. Lower(num) = Ten[-s] BY <1>4 DEF Lower
  <2> HIDE DEF d
  <2> QED BY <2>2, <2>3, <2>4
<1>9. /\ d * mult \in Nat /\ d * Ten[Bottom] \in Nat /\ Ten[l] * Ten[Bottom] \in Nat
      /\ Ten[-s] \in Nat
  BY <1>1, <1>2, <1>3, <1>4, TenStep, LargerFactors
<1>10. (d + 1) * Ten[Bottom] = d * Ten[Bottom] + Ten[Bottom] BY <1>1, <1>3, Z3
<1> HIDE DEF d, l, s
<1>11. d * mult < Ten[-s] BY <1>3, <1>5, <1>6, <1>7, <1>9, <1>10
<1> QED BY <1>8, <1>9, <1>11 DEF IsTruncated

\* What a result of truncProduct is: the truncated product, or an error where
\* that does not fit.
TruncatedResult(result, field, num, mult) ==
  \/ result = Overflow /\ IsPast(num, mult)
  \/ \E size \in Nat :
       /\ IsTruncated(size, num, mult)
       /\ result = Done(field, IF num.negative THEN -size ELSE size)
       /\ num.negative => size <= Half
       /\ ~num.negative => size < Half

LEMMA TruncProductExact ==
  ASSUME NEW num \in Numeral, NEW mult \in Nat \ {0}, mult <= Ten[Bottom], NEW field
  PROVE  TruncatedResult(TruncProduct(field, num, mult), field, num, mult)
<1> DEFINE P == Upper(num, mult)
           D == Lower(num)
           top == Length(num.digits) + num.scale
<1>1. P \in Nat /\ D \in Nat \ {0} /\ num.negative \in BOOLEAN
      /\ num.digits \in Nat /\ num.scale \in Int
  BY FractionTyped
<1>2. Half \in Nat \ {0}
  BY WordAssumption
<1>3. ASSUME IsTruncated(0, num, mult), TruncProduct(field, num, mult) = Done(field, 0)
      PROVE TruncatedResult(TruncProduct(field, num, mult), field, num, mult)
  <2>1. PICK size \in Nat : size = 0 /\ -size = 0 OBVIOUS
  <2>2. TruncProduct(field, num, mult) = Done(field, IF num.negative THEN -size ELSE size)
    BY <1>1, <1>3, <2>1
  <2> QED BY <1>1, <1>2, <1>3, <2>1, <2>2 DEF TruncatedResult
<1>4. CASE num.digits = 0
  <2>1. num.scale > 0 => Ten[num.scale] \in Nat BY <1>1, TenStep
  <2>2. P = 0 BY <1>4, <2>1 DEF Upper
  <2>3. IsTruncated(0, num, mult) BY <1>1, <2>2 DEF IsTruncated
  <2> QED BY <1>3, <1>4, <2>3 DEF TruncProduct
<1>5. CASE num.digits # 0 /\ top > Top
  <2>1. TruncProduct(field, num, mult) = Overflow BY <1>5 DEF TruncProduct
  <2> QED BY <1>5, <2>1, LongIsPast DEF TruncatedResult
<1>6. CASE num.digits # 0 /\ ~(top > Top) /\ top < -Bottom
  <2>1. TruncProduct(field, num, mult) = Done(field, 0) BY <1>6 DEF TruncProduct
  <2>2. IsTruncated(0, num, mult) BY <1>6, ShortIsZero
  <2> QED BY <1>3, <2>1, <2>2
<1>7. CASE num.digits # 0 /\ ~(top > Top) /\ ~(top < -Bottom)
  <2> DEFINE exact == Exactly(num, mult)
  <2>1. TruncProduct(field, num, mult) = IF Fits(exact) THEN Done(field, exact) ELSE Overflow
    BY <1>7 DEF TruncProduct
  <2>2. PICK size \in Nat : /\ exact = IF num.negative THEN -size ELSE size
                            /\ D * size <= P /\ P < D * size + D
    BY ExactlyDivides
  <2> HIDE DEF exact, P, D
  <2>3. size * D = D * size /\ (size + 1) * D = D * size + D BY <1>1, Z3
  <2>4. IsTruncated(size, num, mult) BY <2>2, <2>3 DEF IsTruncated, P, D
  <2>5. CASE Fits(exact)
    <3>1. num.negative => size <= Half BY <1>1, <1>2, <2>2, <2>5 DEF Fits
    <3>2. ~num.negative => size < Half BY <1>1, <1>2, <2>2, <2>5 DEF Fits
    <3> QED BY <2>1, <2>2, <2>4, <2>5, <3>1, <3>2 DEF TruncatedResult
  <2>6. CASE ~Fits(exact)
    <3> DEFINE last == IF num.negative THEN Half + 1 ELSE Half
    <3>1. last \in Nat /\ last <= size BY <1>1, <1>2, <2>2, <2>6 DEF Fits
    <3> HIDE DEF last
    <3>2. last * D <= size * D /\ last * D \in Nat /\ size * D \in Nat
      BY <1>1, <3>1, LargerFactors
    <3>3. P >= last * D BY <1>1, <2>2, <2>3, <3>2
    <3>4. IsPast(num, mult) BY <3>3 DEF IsPast, P, D, last
    <3> QED BY <2>1, <2>6, <3>4 DEF TruncatedResult
  <2> QED BY <2>5, <2>6
<1> QED BY <1>4, <1>5, <1>6, <1>7

LEMMA DurationFraction ==
  ASSUME NEW v \in Values, v.num # NoNumber, v.unit \in DOMAIN DurationUnit,
         ~v.num.integer
  PROVE  TruncatedResult(parseDuration(v.num, v.unit), "ns", v.num, DurationUnit[v.unit])
<1>1. v.num \in Numeral BY ValuesAssumption
<1>2. DurationUnit[v.unit] \in Nat \ {0} /\ DurationUnit[v.unit] <= Ten[Bottom]
  BY WordAssumption, EstimateAssumption
<1>3. parseDuration(v.num, v.unit) = TruncProduct("ns", v.num, DurationUnit[v.unit])
  BY DEF parseDuration
<1> QED BY <1>1, <1>2, <1>3, TruncProductExact

LEMMA BytesFraction ==
  ASSUME NEW v \in Values, v.num # NoNumber, v.unit \in DOMAIN ByteUnit,
         ~v.num.integer \/ ByteUnit[v.unit] >= Half
  PROVE  TruncatedResult(parseBytes(v.num, v.unit), "bytes", v.num, ByteUnit[v.unit])
<1>1. v.num \in Numeral BY ValuesAssumption
<1>2. ByteUnit[v.unit] \in Nat \ {0} /\ ByteUnit[v.unit] <= Ten[Bottom]
  BY WordAssumption, EstimateAssumption
<1>3. parseBytes(v.num, v.unit) = TruncProduct("bytes", v.num, ByteUnit[v.unit])
  BY DEF parseBytes
<1> QED BY <1>1, <1>2, <1>3, TruncProductExact

\* A truncated result is what FractionsExact asks for.
LEMMA ResultAsAsked ==
  ASSUME NEW num \in Numeral, NEW mult \in Nat, NEW field,
         TruncatedResult(outcome, field, num, mult)
  PROVE  TruncatedOrRefused(num, mult, field, Overflow)
<1>1. num.negative \in BOOLEAN BY FractionTyped
<1>2. CASE outcome = Overflow /\ IsPast(num, mult) BY <1>2 DEF TruncatedOrRefused
<1>3. ASSUME NEW size \in Nat, IsTruncated(size, num, mult),
             outcome = Done(field, IF num.negative THEN -size ELSE size)
      PROVE TruncatedOrRefused(num, mult, field, Overflow)
  <2>1. outcome.kind = field /\ outcome.n = (IF num.negative THEN -size ELSE size)
    BY <1>3 DEF Done
  <2>2. (IF outcome.n < 0 THEN -outcome.n ELSE outcome.n) = size BY <1>1, <2>1
  <2>3. /\ outcome.n > 0 => ~num.negative
        /\ outcome.n < 0 => num.negative
    BY <1>1, <2>1
  <2> QED BY <1>3, <2>1, <2>2, <2>3 DEF TruncatedOrRefused
<1> QED BY <1>2, <1>3 DEF TruncatedResult

\* readBytes: a negative size is refused, and so is what does not fit.
LEMMA BytesAsAsked ==
  ASSUME NEW v \in Values, v.num # NoNumber, v.unit \in DOMAIN ByteUnit,
         ~v.num.integer \/ ByteUnit[v.unit] >= Half,
         outcome = readBytes(v.num, v.unit)
  PROVE  LET num == v.num
             mult == ByteUnit[v.unit]
         IN \/ /\ outcome = Negative /\ num.negative
               /\ Upper(num, mult) >= Lower(num)
               /\ ~IsPast(num, mult)
            \/ /\ outcome # Negative
               /\ TruncatedOrRefused(num, mult, "bytes", Invalid)
<1> DEFINE num == v.num
           mult == ByteUnit[v.unit]
           parsed == parseBytes(v.num, v.unit)
<1>1. num \in Numeral /\ mult \in Nat BY ValuesAssumption, WordAssumption
<1>2. TruncatedResult(parsed, "bytes", num, mult) BY BytesFraction
<1>3. outcome = IF parsed.kind # "bytes" THEN Invalid
                ELSE IF parsed.n < 0 THEN Negative ELSE parsed
  BY DEF readBytes
<1>4. num.negative \in BOOLEAN /\ Upper(num, mult) \in Nat /\ Lower(num) \in Nat \ {0}
  BY <1>1, FractionTyped
<1>5. Half \in Nat BY WordAssumption
<1> HIDE DEF num, mult, parsed
<1>6. CASE parsed = Overflow /\ IsPast(num, mult)
  <2>1. parsed.kind = "overflow" BY <1>6 DEF Overflow
  <2>2. outcome = Invalid /\ Invalid # Negative BY <1>3, <2>1 DEF Invalid, Negative
  <2> QED BY <1>6, <2>2 DEF TruncatedOrRefused, num, mult
<1>7. ASSUME NEW size \in Nat, IsTruncated(size, num, mult),
             parsed = Done("bytes", IF num.negative THEN -size ELSE size),
             num.negative => size <= Half
      PROVE \/ /\ outcome = Negative /\ num.negative
               /\ Upper(num, mult) >= Lower(num)
               /\ ~IsPast(num, mult)
            \/ /\ outcome # Negative
               /\ TruncatedOrRefused(num, mult, "bytes", Invalid)
  <2>1. parsed.kind = "bytes" /\ parsed.n = (IF num.negative THEN -size ELSE size)
    BY <1>7 DEF Done
  <2> DEFINE P == Upper(num, mult)
             D == Lower(num)
  <2>2. size * D <= P /\ P < (size + 1) * D BY <1>7 DEF IsTruncated
  <2>3. CASE num.negative /\ size # 0
    <3>1. outcome = Negative BY <1>3, <2>1, <2>3
    <3>2. 1 * D <= size * D /\ size * D \in Nat BY <1>4, <2>3, LargerFactors
    <3>3. (size + 1) * D <= (Half + 1) * D /\ (size + 1) * D \in Nat /\ (Half + 1) * D \in Nat
      BY <1>4, <1>5, <1>7, <2>3, LargerFactors
    <3> HIDE DEF P, D
    <3>4. P >= D BY <1>4, <2>2, <3>2 DEF P, D
    <3>5. ~(P >= (Half + 1) * D) BY <1>4, <2>2, <3>3 DEF P, D
    <3>6. ~IsPast(num, mult) BY <2>3, <3>5 DEF IsPast, P, D
    <3> QED BY <2>3, <3>1, <3>4, <3>6 DEF P, D
  <2>4. CASE ~(num.negative /\ size # 0)
    <3>1. ~(parsed.n < 0) BY <1>4, <2>1, <2>4
    <3>2. outcome = parsed BY <1>3, <2>1, <3>1
    <3>3. outcome # Negative BY <2>1, <3>2 DEF Negative
    <3>4. (IF outcome.n < 0 THEN -outcome.n ELSE outcome.n) = size BY <1>4, <2>1, <2>4, <3>2
    <3>5. /\ outcome.n > 0 => ~num.negative
          /\ outcome.n < 0 => num.negative
      BY <1>4, <2>1, <2>4, <3>2
    <3> QED BY <1>7, <2>1, <3>2, <3>3, <3>4, <3>5 DEF TruncatedOrRefused
  <2> QED BY <2>3, <2>4
<1> QED BY <1>2, <1>6, <1>7 DEF TruncatedResult, num, mult

\* Every fraction, and every number of a unit beyond the word, reads as the
\* exact product truncated toward zero, or is refused where that does not fit.
THEOREM FractionsAreExact == Spec => []FractionsExact
<1> DEFINE Inv == /\ value \in Values
                  /\ reader = "duration" => outcome = parseDuration(value.num, value.unit)
                  /\ reader = "bytes" => outcome = readBytes(value.num, value.unit)
                  /\ reader = "period" => outcome = readPeriod(value.num, value.unit)
<1>1. Init => Inv BY DEF Init
<1>2. Inv /\ [Next]_vars => Inv'
  BY DEF Next, vars, GetDuration, GetBytes, GetPeriod
<1>3. ASSUME Inv PROVE FractionsExact
  <2>1. ASSUME reader = "duration", value.num # NoNumber, value.unit \in DOMAIN DurationUnit,
               ~value.num.integer
        PROVE TruncatedOrRefused(value.num, DurationUnit[value.unit], "ns", Overflow)
    <3>1. TruncatedResult(outcome, "ns", value.num, DurationUnit[value.unit])
      BY <1>3, <2>1, DurationFraction
    <3>2. value.num \in Numeral /\ DurationUnit[value.unit] \in Nat
      BY <1>3, <2>1, ValuesAssumption, WordAssumption
    <3> QED BY <3>1, <3>2, ResultAsAsked
  <2>2. ASSUME reader = "period", value.num # NoNumber, ~value.num.integer
        PROVE outcome = Invalid
    BY <1>3, <2>2 DEF readPeriod
  <2> QED BY <1>3, <2>1, <2>2, BytesAsAsked DEF FractionsExact
<1> QED BY <1>1, <1>2, <1>3, PTL DEF Spec
=============================================================================
