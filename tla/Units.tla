-------------------------------- MODULE Units --------------------------------
(***************************************************************************)
(* Durations, byte sizes and periods: config.go reads a number and a unit, *)
(* multiplies them in machine words or exactly, and must refuse what does  *)
(* not fit.  A value stands for its text as splitUnitValue divides it: a   *)
(* number, digits * 10^scale with a sign, and the name of a unit.          *)
(***************************************************************************)
EXTENDS Integers

CONSTANTS
  Half,          \* 2^63: int64 is -Half .. Half - 1
  PeriodHalf,    \* 2^31, for the fields of a Period
  Top, Bottom,   \* 20 and 25: the powers of ten truncProduct decides without computing
  DurationUnit,  \* [names -> nanoseconds]
  ByteUnit,      \* [names -> bytes], the units beyond int64 included
  PeriodUnit,    \* [names -> {"days", "weeks", "months", "years"}]
  Values,        \* what can stand at the path that is read
  NoNumber       \* text whose number part unitNumberRegex refuses

\* integer: the number matches integerRegex (no point, no exponent).
Numeral == [integer : BOOLEAN, negative : BOOLEAN, digits : Nat, scale : Int]

ASSUME ValuesAssumption ==
  \A v \in Values : v.num = NoNumber \/ v.num \in Numeral

ASSUME WordAssumption ==
  /\ Half \in Nat /\ PeriodHalf \in Nat \ {0}
  /\ 7 * PeriodHalf <= Half
  /\ \A u \in DOMAIN DurationUnit : DurationUnit[u] \in 1..(Half - 1)
  /\ \A u \in DOMAIN ByteUnit : ByteUnit[u] \in Nat \ {0}
  /\ \A u \in DOMAIN PeriodUnit : PeriodUnit[u] \in {"days", "weeks", "months", "years"}

\* The powers of ten.
Ten[k \in Nat] == IF k = 0 THEN 1 ELSE 10 * Ten[k - 1]

\* What the comment of truncProduct says of its two bounds.
ASSUME EstimateAssumption ==
  /\ Top \in Nat /\ Bottom \in Nat /\ Half < Ten[Top]
  /\ \A u \in DOMAIN DurationUnit : DurationUnit[u] <= Ten[Bottom]
  /\ \A u \in DOMAIN ByteUnit : ByteUnit[u] <= Ten[Bottom]

VARIABLES
  value,    \* the value at the path
  reader,   \* the last getter called: "none", "duration", "bytes", "period"
  outcome   \* what it returned

vars == <<value, reader, outcome>>

Done(field, n) == [kind |-> field, n |-> n]
Overflow == [kind |-> "overflow", n |-> 0]
Invalid == [kind |-> "invalid", n |-> 0]
Negative == [kind |-> "negative", n |-> 0]
NoOutcome == [kind |-> "none", n |-> 0]

-----------------------------------------------------------------------------
(* Machine arithmetic *)

Fits(n) == -Half <= n /\ n < Half
FitsPeriod(n) == -PeriodHalf <= n /\ n < PeriodHalf

\* int64 multiplication keeps the residue; / truncates toward zero.
Wrap(n) == ((n + Half) % (2 * Half)) - Half
Quot(a, b) == IF a >= 0 THEN a \div b ELSE -((-a) \div b)

Whole(num) == IF num.negative THEN -num.digits ELSE num.digits

-----------------------------------------------------------------------------
(* The three ways to multiply *)

\* Mutant: the lower bound is the negated upper one.
SymmetricProduct(n, mult) ==
  IF n > Quot(Half - 1, mult) \/ n < -Quot(Half - 1, mult)
  THEN Overflow ELSE Done("ns", n * mult)

\* parseDuration compares the number with the exact bounds.
BoundedProduct(n, mult) ==
  IF n > Quot(Half - 1, mult) \/ n < Quot(-Half, mult)
  THEN Overflow ELSE Done("ns", n * mult)

\* parseBytes multiplies first and divides back.
CheckedProduct(n, mult) ==
  LET result == Wrap(n * mult) IN
  IF n # 0 /\ Quot(result, mult) # n THEN Overflow ELSE Done("bytes", result)

\* How many digits a positive number has.
Length(n) == CHOOSE k \in 1..(n + 1) : Ten[k - 1] <= n /\ n < Ten[k]

Exactly(num, mult) ==
  LET up == IF num.scale > 0 THEN num.scale ELSE 0
      down == IF num.scale < 0 THEN -num.scale ELSE 0
      size == (num.digits * Ten[up] * mult) \div Ten[down]
  IN IF num.negative THEN -size ELSE size

\* Mutant: the estimate of a small number forgets that the unit is large.
TruncProductSmall(field, num, mult) ==
  LET top == Length(num.digits) + num.scale
      exact == Exactly(num, mult)
  IN IF num.digits = 0 \/ top < 0 THEN Done(field, 0)
     ELSE IF top > Top \/ ~Fits(exact) THEN Overflow
     ELSE Done(field, exact)

\* truncProduct: very large and very small numbers are decided by their length.
TruncProduct(field, num, mult) ==
  IF num.digits = 0 THEN Done(field, 0)
  ELSE LET top == Length(num.digits) + num.scale IN
       IF top > Top THEN Overflow
       ELSE IF top < -Bottom THEN Done(field, 0)
       ELSE LET exact == Exactly(num, mult) IN
            IF Fits(exact) THEN Done(field, exact) ELSE Overflow

-----------------------------------------------------------------------------
(* The readers *)

parseDuration(num, unit) ==
  IF num = NoNumber \/ unit \notin DOMAIN DurationUnit THEN Invalid
  ELSE IF ~num.integer THEN TruncProduct("ns", num, DurationUnit[unit])
  ELSE IF ~Fits(Whole(num)) THEN Overflow
  ELSE BoundedProduct(Whole(num), DurationUnit[unit])

parseBytes(num, unit) ==
  IF num = NoNumber \/ unit \notin DOMAIN ByteUnit THEN Invalid
  ELSE IF ByteUnit[unit] >= Half \/ ~num.integer
  THEN TruncProduct("bytes", num, ByteUnit[unit])
  ELSE IF ~Fits(Whole(num)) THEN Overflow
  ELSE CheckedProduct(Whole(num), ByteUnit[unit])

\* Every error of parseBytes reads the same; a negative size has its own.
readBytes(num, unit) ==
  LET parsed == parseBytes(num, unit) IN
  IF parsed.kind # "bytes" THEN Invalid
  ELSE IF parsed.n < 0 THEN Negative ELSE parsed

Days(n) == IF FitsPeriod(n) THEN Done("days", n) ELSE Invalid

\* readPeriod: ParseInt to 32 bits, then seven days to a week in 64 bits.
readPeriod(num, unit) ==
  IF num = NoNumber \/ unit \notin DOMAIN PeriodUnit THEN Invalid
  ELSE IF ~num.integer \/ ~FitsPeriod(Whole(num)) THEN Invalid
  ELSE IF PeriodUnit[unit] = "weeks" THEN Days(Wrap(Whole(num) * 7))
  ELSE Done(PeriodUnit[unit], Whole(num))

-----------------------------------------------------------------------------
GetDuration ==
  /\ reader' = "duration"
  /\ outcome' = parseDuration(value.num, value.unit)
  /\ UNCHANGED value

GetBytes ==
  /\ reader' = "bytes"
  /\ outcome' = readBytes(value.num, value.unit)
  /\ UNCHANGED value

GetPeriod ==
  /\ reader' = "period"
  /\ outcome' = readPeriod(value.num, value.unit)
  /\ UNCHANGED value

Init ==
  /\ value \in Values
  /\ reader = "none"
  /\ outcome = NoOutcome

Next == GetDuration \/ GetBytes \/ GetPeriod

Spec == Init /\ [][Next]_vars

-----------------------------------------------------------------------------
(* An integer number of units reads as the exact product, or as an error when
   the product does not fit the type it is returned in: the comparison with
   truncated quotients (durations), the division of a wrapped product
   (bytes) and the two widths of a period neither let a wrapped value through
   nor refuse one that fits, the least value of each type included. *)
IntegersExact ==
  LET num == value.num
      unit == value.unit
      n == Whole(num)
  IN value.num # NoNumber /\ num.integer /\ num.scale = 0 =>
     /\ reader = "duration" /\ unit \in DOMAIN DurationUnit =>
          outcome = IF Fits(n * DurationUnit[unit])
                    THEN Done("ns", n * DurationUnit[unit]) ELSE Overflow
     /\ reader = "bytes" /\ unit \in DOMAIN ByteUnit /\ ByteUnit[unit] < Half =>
          outcome = IF ~Fits(n * ByteUnit[unit]) THEN Invalid
                    ELSE IF n < 0 THEN Negative ELSE Done("bytes", n * ByteUnit[unit])
     /\ reader = "period" /\ unit \in DOMAIN PeriodUnit =>
          LET weeks == PeriodUnit[unit] = "weeks"
              count == IF weeks THEN 7 * n ELSE n
          IN outcome = IF FitsPeriod(count)
                       THEN Done(IF weeks THEN "days" ELSE PeriodUnit[unit], count)
                       ELSE Invalid

\* digits * mult * 10^scale is the fraction Upper / Lower.
Upper(num, mult) == num.digits * mult * (IF num.scale > 0 THEN Ten[num.scale] ELSE 1)
Lower(num) == IF num.scale < 0 THEN Ten[-num.scale] ELSE 1

\* What truncating it toward zero means, without a division: `size' is the
\* largest magnitude not above the product.
IsTruncated(size, num, mult) ==
  size * Lower(num) <= Upper(num, mult) /\ Upper(num, mult) < (size + 1) * Lower(num)

\* The product is past the last value of its sign.
IsPast(num, mult) ==
  Upper(num, mult) >= (IF num.negative THEN Half + 1 ELSE Half) * Lower(num)

TruncatedOrRefused(num, mult, field, refusal) ==
  \/ outcome = refusal /\ IsPast(num, mult)
  \/ /\ outcome.kind = field
     /\ outcome.n > 0 => ~num.negative
     /\ outcome.n < 0 => num.negative
     /\ IsTruncated(IF outcome.n < 0 THEN -outcome.n ELSE outcome.n, num, mult)

(* A number with a point or an exponent, or of a byte unit beyond int64, reads
   as the exact product truncated toward zero, or as an error when that does
   not fit: what truncProduct decides by the length of the number is what the
   computation would have found. *)
FractionsExact ==
  LET num == value.num
      unit == value.unit
  IN value.num # NoNumber =>
     /\ reader = "duration" /\ unit \in DOMAIN DurationUnit /\ ~num.integer =>
          TruncatedOrRefused(num, DurationUnit[unit], "ns", Overflow)
     /\ reader = "bytes" /\ unit \in DOMAIN ByteUnit
          /\ (~num.integer \/ ByteUnit[unit] >= Half) =>
          \/ /\ outcome = Negative /\ num.negative
             /\ Upper(num, ByteUnit[unit]) >= Lower(num)
             /\ ~IsPast(num, ByteUnit[unit])
          \/ /\ outcome # Negative
             /\ TruncatedOrRefused(num, ByteUnit[unit], "bytes", Invalid)
     /\ reader = "period" /\ ~num.integer => outcome = Invalid
=============================================================================
