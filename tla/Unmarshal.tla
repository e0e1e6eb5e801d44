----------------------------- MODULE Unmarshal -----------------------------
(***************************************************************************)
(* unmarshal.go: a value is written into a Go variable, field by field and  *)
(* element by element.  A type is a record: a scalar type of Getters with   *)
(* the width of its integers, a pointer, a slice, a map, a struct or any.   *)
(* What a failing call has already written stays written.                   *)
(***************************************************************************)
EXTENDS Getters, TLC

CONSTANTS
  MaxDigits,     \* 19: the digits of an int64
  ExponentHalf,  \* 2^31: the exponents that are parsed
  KeyNumber,     \* [the keys that ParseInt reads -> Int]
  Types          \* the types of the variables a program unmarshals into

ASSUME DigitsAssumption ==
  MaxDigits \in Nat \ {0} /\ 10^(MaxDigits - 1) < Half /\ Half <= 10^MaxDigits

VARIABLES
  type,      \* the type of the variable
  variable   \* what it holds

vars == <<config, from, type, variable>>

-----------------------------------------------------------------------------
(* Go types and values *)

Basic(name) == [go |-> name]
IntType(half) == [go |-> "int", half |-> half]
UintType(half) == [go |-> "uint", half |-> half]
Pointer(elem) == [go |-> "pointer", elem |-> elem]
Slice(elem) == [go |-> "slice", elem |-> elem]
Map(key, elem) == [go |-> "map", key |-> key, elem |-> elem]
AnyType == [go |-> "any"]
Struct(fields) == [go |-> "struct", fields |-> fields]
Field(key, t, omitempty, requireunit) ==
  [key |-> key, type |-> t, omitempty |-> omitempty, requireunit |-> requireunit]

IsInteger(t) == t.go \in {"int", "uint"}

GoNil == [go |-> "nil"]
To(v) == [go |-> "pointer", to |-> v]
Entries(m) == [go |-> "map", entries |-> m]
Elements(s) == [go |-> "slice", items |-> s]
Unwritten == [go |-> "zero"]

RECURSIVE Zero(_)
Zero(t) ==
  IF t.go = "struct" THEN [i \in DOMAIN t.fields |-> Zero(t.fields[i].type)]
  ELSE IF t.go \in {"pointer", "slice", "map", "any"} THEN GoNil ELSE Unwritten

\* What a call leaves in the variable, and its error.
Written(v) == [error |-> "none", value |-> v]
Wrong(why, v) == [error |-> why, value |-> v]

-----------------------------------------------------------------------------
(* Integers *)

RECURSIVE Length(_)
Length(n) == IF n < 10 THEN 1 ELSE 1 + Length(n \div 10)

\* Mutant: the least int64 has no magnitude of its own.
wholeFloatSymmetric(raw) ==
  LET r == raw.places - raw.exponent
      short == IF r <= 0 THEN Length(raw.digits) - r <= MaxDigits
               ELSE r < Length(raw.digits) /\ raw.digits % 10^r = 0
      magnitude == IF r <= 0 THEN raw.digits * 10^(-r) ELSE raw.digits \div 10^r
  IN IF raw.form # "number" \/ ~raw.decimal THEN Fail("invalid")
     ELSE IF raw.digits = 0 THEN Ok(0)
     ELSE IF ~short \/ magnitude > Half - 1 THEN Fail("invalid")
     ELSE Ok(IF raw.sign = "-" THEN -magnitude ELSE magnitude)

\* wholeFloatToInt64: r digits are to the right of the point, or -r zeros to
\* the left of it.
wholeFloatToInt64(raw) ==
  LET r == raw.places - raw.exponent
      short == IF r <= 0 THEN Length(raw.digits) - r <= MaxDigits
               ELSE r < Length(raw.digits) /\ raw.digits % 10^r = 0
      magnitude == IF r <= 0 THEN raw.digits * 10^(-r) ELSE raw.digits \div 10^r
      last == IF raw.sign = "-" THEN Half ELSE Half - 1
  IN CASE raw.form # "number" \/ ~raw.decimal -> Fail("invalid")
       [] raw.form = "number" /\ raw.decimal
            /\ ~(-ExponentHalf <= raw.exponent /\ raw.exponent < ExponentHalf) -> Fail("invalid")
       [] OTHER ->
            IF raw.digits = 0 THEN Ok(0)
            ELSE IF ~short \/ magnitude > last THEN Fail("invalid")
            ELSE Ok(IF raw.sign = "-" THEN -magnitude ELSE magnitude)

Signed(raw) == IF ParseInt(raw).ok THEN ParseInt(raw) ELSE wholeFloatToInt64(raw)

\* ParseUint, after a + has been stripped
ParseUint(raw) ==
  IF raw.form = "number" /\ ~raw.decimal /\ raw.sign # "-" /\ raw.digits < 2 * Half
  THEN Ok(raw.digits) ELSE Fail("invalid")

Unsigned(raw) ==
  IF ParseUint(raw).ok THEN ParseUint(raw)
  ELSE IF Signed(raw).ok /\ Signed(raw).value < 0 THEN Fail("overflow") ELSE Signed(raw)

Within(n, t) == IF t.go = "int" THEN -t.half <= n /\ n < t.half ELSE 0 <= n /\ n < 2 * t.half

ReadInteger(raw, t) ==
  LET n == IF t.go = "int" THEN Signed(raw) ELSE Unsigned(raw) IN
  IF n.ok /\ ~Within(n.value, t) THEN Fail("overflow") ELSE n

-----------------------------------------------------------------------------
(* unmarshalVal *)

\* A value that is not of the kind that the target takes.
Unexpected(v, old) == Wrong(IF v = Placeholder THEN "not resolved" ELSE "kind", old)

\* Scalars, and Period.
unmarshalScalar(v, t, old) ==
  LET read == IF IsInteger(t) THEN ReadInteger(v.raw, t) ELSE Read(t.go, v.raw) IN
  CASE v.kind # "scalar" -> Unexpected(v, old)
    [] IsNull(v) -> Written(old)
    [] OTHER -> IF read.ok THEN Written(read.value) ELSE Wrong(read.why, old)

\* The keys of a Go map: strings, bools, and integers of a width.
mapKey(k, t) ==
  CASE t.go = "string" -> Ok(k)
    [] t.go = "bool" -> IF k \in DOMAIN Truth THEN Ok(Truth[k]) ELSE Fail("key")
    [] OTHER -> IF k \in DOMAIN KeyNumber /\ Within(KeyNumber[k], t) THEN Ok(KeyNumber[k])
                ELSE Fail("key")

\* The items in order, up to the first that fails.
UpToError(items, start, F(_, _)) ==
  FoldLeft(LAMBDA acc, x : IF acc.error = "none" THEN F(acc.value, x) ELSE acc, Written(start), items)

\* valToAny.  A number is an int if it can be and then a float.
AnyScalar(v) ==
  CASE IsNull(v) -> GoNil
    [] v.type = "boolean" -> v.raw = Word("true")
    [] v.type = "number" -> IF ParseInt(v.raw).ok THEN ParseInt(v.raw).value ELSE ParseFloat(v.raw).value
    [] OTHER -> v.raw

RECURSIVE valToAny(_)

\* Mutant: what is not resolved is nil, as it was before 1.14.
AnyOrNil(v) ==
  LET Item(s, x) == LET r == valToAny(x) IN [r EXCEPT !.value = Append(s, @)]
      Entry(m, k) == LET r == valToAny(v.values[k]) IN [r EXCEPT !.value = (k :> @) @@ m]
      array == UpToError(v.items, <<>>, Item)
      object == UpToError(v.keys, <<>>, Entry)
  IN CASE v.kind = "scalar" -> Written(AnyScalar(v))
       [] v.kind = "array" -> [array EXCEPT !.value = Elements(@)]
       [] v.kind = "object" -> [object EXCEPT !.value = Entries(@)]
       [] OTHER -> Written(GoNil)

valToAny(v) ==
  LET Item(s, x) == LET r == valToAny(x) IN [r EXCEPT !.value = Append(s, @)]
      Entry(m, k) == LET r == valToAny(v.values[k]) IN [r EXCEPT !.value = (k :> @) @@ m]
      array == UpToError(v.items, <<>>, Item)
      object == UpToError(v.keys, <<>>, Entry)
  IN CASE v.kind = "scalar" -> Written(AnyScalar(v))
       [] v.kind = "array" -> [array EXCEPT !.value = Elements(@)]
       [] v.kind = "object" -> [object EXCEPT !.value = Entries(@)]
       [] OTHER -> Wrong("not resolved", GoNil)

RECURSIVE unmarshalVal(_, _, _)

unmarshalSlice(v, t, old) ==
  LET Item(s, x) ==
        LET r == unmarshalVal(x, t.elem, Zero(t.elem)) IN [r EXCEPT !.value = Append(s, @)]
      slice == UpToError(Listed(v).items, <<>>, Item)
  IN CASE Listed(v) = Missing -> Unexpected(v, old)
       [] OTHER -> IF slice.error = "none" THEN Written(Elements(slice.value))
                   ELSE Wrong(slice.error, old)

\* A map that is there already keeps its entries.  An element is made anew, and
\* the interface any gets null as nil.
unmarshalMap(v, t, old) ==
  LET Element(x) == IF t.elem = AnyType THEN valToAny(x) ELSE unmarshalVal(x, t.elem, Zero(t.elem))
      Entry(m, k) ==
        LET key == mapKey(k, t.key)
            r == Element(v.values[k])
        IN IF ~key.ok THEN Wrong(key.why, m)
           ELSE IF r.error # "none" THEN Wrong(r.error, m)
           ELSE Written((key.value :> r.value) @@ m)
      map == UpToError(v.keys, IF old = GoNil THEN <<>> ELSE old.entries, Entry)
  IN CASE ~IsObject(v) -> Unexpected(v, old)
       [] OTHER -> [map EXCEPT !.value = Entries(@)]

RECURSIVE derefType(_)
derefType(t) == IF t.go = "pointer" THEN derefType(t.elem) ELSE t

\* checkNamesUnit: a number never names its unit, and a word does.
NamesUnit(v) == ~(v.kind = "scalar" /\ ~IsNull(v) /\ (v.type = "number" \/ v.raw.form = "number"))

\* One field that has a value: the unit is checked after the field is written.
FieldWritten(s, i, f, v) ==
  LET r == unmarshalVal(v, f.type, s[i])
      after == [s EXCEPT ![i] = r.value]
  IN CASE IsNull(v) /\ f.omitempty -> Written(s)
       [] ~(IsNull(v) /\ f.omitempty) /\ r.error # "none" -> Wrong(r.error, after)
       [] OTHER -> IF f.requireunit /\ ~NamesUnit(v) THEN Wrong("unit", after) ELSE Written(after)

unmarshalStruct(v, t, old) ==
  LET Write(s, i) ==
        LET f == t.fields[i] IN
        CASE f.requireunit /\ derefType(f.type).go \notin Units -> Wrong("misplaced", s)
          [] ~(f.requireunit /\ derefType(f.type).go \notin Units) /\ f.key \in DOMAIN v.values ->
               FieldWritten(s, i, f, v.values[f.key])
          [] OTHER -> IF f.omitempty \/ f.type.go \in {"slice", "map"} THEN Written(s)
                      ELSE Wrong("missing", s)
  IN IF ~IsObject(v) THEN Unexpected(v, old)
     ELSE UpToError([i \in DOMAIN t.fields |-> i], old, Write)

\* A pointer is made before what it points to is written.
unmarshalPointer(v, t, old) ==
  LET r == unmarshalVal(v, t.elem, IF old = GoNil THEN Zero(t.elem) ELSE old.to) IN
  IF IsNull(v) THEN Written(old) ELSE [r EXCEPT !.value = To(@)]

unmarshalAny(v, old) ==
  LET r == valToAny(v) IN IF r.error = "none" THEN r ELSE Wrong(r.error, old)

unmarshalVal(v, t, old) ==
  CASE t.go = "pointer" -> unmarshalPointer(v, t, old)
    [] t.go = "struct" -> unmarshalStruct(v, t, old)
    [] t.go = "map" -> unmarshalMap(v, t, old)
    [] t.go = "slice" -> unmarshalSlice(v, t, old)
    [] t.go = "any" -> unmarshalAny(v, old)
    [] OTHER -> unmarshalScalar(v, t, old)

-----------------------------------------------------------------------------
(* The calls *)

AtPath(c, path, t, old) ==
  LET v == lookupSegments(c.root, path) IN
  CASE path = <<>> -> Wrong("empty path", old)
    [] path # <<>> /\ v = Missing -> Wrong("key not found", old)
    [] path # <<>> /\ ~c.resolved /\ isUnresolvedPlaceholder(v) -> Wrong("not resolved", old)
    [] OTHER -> unmarshalVal(v, t, old)

UnmarshalRoot ==
  /\ variable' = unmarshalVal(config.root, type, variable).value
  /\ UNCHANGED <<config, from, type>>

UnmarshalPath ==
  /\ \E path \in Paths : variable' = AtPath(config, path, type, variable).value
  /\ UNCHANGED <<config, from, type>>

Init == GettersInit /\ type \in Types /\ variable = Zero(type)

Next ==
  \/ UnmarshalRoot
  \/ UnmarshalPath
  \/ GettersNext /\ UNCHANGED <<type, variable>>

Spec == Init /\ [][Next]_vars
=============================================================================
