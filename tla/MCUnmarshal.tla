---------------------------- MODULE MCUnmarshal ----------------------------
(***************************************************************************)
(* Configs, texts and types for TLC, and what unmarshalling must satisfy.   *)
(* An int64 has eight bits here, an int six, and the small types four.      *)
(***************************************************************************)
EXTENDS Unmarshal

RECURSIVE ContainsPlaceholders(_)
ContainsPlaceholders(v) ==
  CASE v.kind = "object" -> \E k \in ToSet(v.keys) : ContainsPlaceholders(v.values[k])
    [] v.kind = "array" -> \E i \in DOMAIN v.items : ContainsPlaceholders(v.items[i])
    [] OTHER -> v = Placeholder

\* A duration of ten seconds, a period of two days, four kilobytes; numbers are
\* read in the unit of the reader, and a size is not negative.
Measured(reader, raw) ==
  IF \/ raw.form = "word" /\ raw.word = "10s" /\ reader = "duration"
     \/ raw.form = "word" /\ raw.word = "2d" /\ reader \in {"duration", "period"}
     \/ raw.form = "word" /\ raw.word = "4k" /\ reader = "bytes"
     \/ raw.form = "number" /\ ~(reader = "bytes" /\ raw.sign = "-") /\ ~(reader = "period" /\ raw.decimal)
  THEN Ok([measure |-> reader, of |-> raw]) ELSE Fail("invalid")

Truths == [yes |-> TRUE, true |-> TRUE, no |-> FALSE]
Indices == ("0" :> 0) @@ ("1" :> 1)
KeyNumbers == ("0" :> 0) @@ ("1" :> 1) @@ ("07" :> 7) @@ ("-9" :> -9)

Digit(n) == Number("", n, 0, 0, FALSE)
Of(n) == Scalar("number", Digit(n))
Quoted(w) == Scalar("string", Word(w))

A(v) == Object(<<"a">>, [a |-> v])
AB(v, w) == Object(<<"b", "a">>, [a |-> v, b |-> w])
B(v) == Object(<<"b">>, [b |-> v])
BC(v, w) == Object(<<"b", "c">>, [b |-> v, c |-> w])
List(v, w) == Object(<<"1", "0">>, ("0" :> v) @@ ("1" :> w))
Mixed(v, w) == Object(<<"b", "0">>, ("0" :> v) @@ ("b" :> w))

\* The values at a: scalars, nested and listed, with and without placeholders.
Whats ==
  {Null, Quoted("10s"), Quoted("yes"), Scalar("boolean", Word("true")), Scalar("string", Digit(40)), Placeholder,
   Array(<<Of(1), Of(2)>>), Array(<<Quoted("2d"), Null>>), Array(<<Of(1), Placeholder>>),
   BC(Of(5), Null), BC(Null, Quoted("10s")), BC(Placeholder, Of(1)), BC(BC(Of(6), Of(7)), Placeholder),
   List(Of(1), Of(2)), Mixed(Of(3), Placeholder), Object(<<"07", "-9">>, ("07" :> Of(4)) @@ ("-9" :> Null))}

Deferred(root) == Config(root, ~ContainsPlaceholders(root))

Loaded ==
  {Deferred(A(v)) : v \in Whats}
  \cup {Deferred(AB(v, w)) : v \in {Of(1), Null, BC(Of(5), Null)}, w \in {Quoted("4k"), Placeholder}}
  \cup {Deferred(A(B(B(Of(9)))))}

RECURSIVE Subtrees(_)
Subtrees(v) == {v} \cup IF IsObject(v) THEN UNION {Subtrees(v.values[k]) : k \in DOMAIN v.values} ELSE {}
MCTrees == UNION {Subtrees(c.root) : c \in Loaded}

Numbers ==
  [form : {"number"}, sign : {"", "-", "+"}, digits : {0, 7, 8, 9, 127, 128, 129, 255, 256},
   places : {0}, exponent : {0}, decimal : {FALSE}]
  \cup [form : {"number"}, sign : {"", "-"}, digits : {0, 8, 12, 128, 129, 1280},
        places : {0, 1, 3}, exponent : {-7, -2, -1, 0, 2, 6}, decimal : {TRUE}]

Samples == {Config(A(Scalar("number", n)), TRUE) : n \in Numbers}

MCPaths == {<<>>, <<"a">>, <<"b">>, <<"a", "b">>, <<"a", "0">>, <<"b", "b">>, <<"a", "b", "b">>}

IntTypes == {IntType(128), IntType(8), UintType(128), UintType(8)}
Int8 == IntType(8)
StringType == Basic("string")
Duration == Basic("duration")

Structs ==
  {Struct(<<Field("a", StringType, FALSE, FALSE), Field("b", StringType, TRUE, FALSE)>>),
   Struct(<<Field("b", Int8, TRUE, FALSE), Field("c", Duration, FALSE, TRUE)>>),
   Struct(<<Field("b", Pointer(Int8), FALSE, FALSE), Field("d", Slice(Int8), FALSE, FALSE)>>),
   Struct(<<Field("a", Struct(<<Field("b", AnyType, TRUE, FALSE)>>), FALSE, FALSE),
            Field("b", Basic("bytes"), TRUE, TRUE)>>)}

MCTypes ==
  IntTypes \cup {Basic(t) : t \in {"string", "float64", "bool", "duration", "bytes", "period"}}
  \cup {Pointer(Pointer(StringType)), Slice(StringType), Slice(AnyType), Slice(Map(StringType, AnyType)),
        Map(Int8, Int8), Map(Basic("bool"), StringType), AnyType}
  \cup Structs \cup {Pointer(t) : t \in Structs}

\* A program that has been handed one number reads it as an integer.
MCInit ==
  \/ Init
  \/ /\ config \in Samples
     /\ from = [config |-> config, path |-> <<>>]
     /\ type \in IntTypes
     /\ variable = Unwritten

MCSpec == MCInit /\ [][Next]_vars

-----------------------------------------------------------------------------
(* Whole numbers, without a division. *)
Scale(raw) == raw.exponent - raw.places

IsExactly(n, raw) ==
  LET m == IF n < 0 THEN -n ELSE n IN
  /\ IF Scale(raw) >= 0 THEN m = raw.digits * 10^Scale(raw) ELSE m * 10^(-Scale(raw)) = raw.digits
  /\ n < 0 => raw.sign = "-"
  /\ n > 0 => raw.sign # "-"

Representable(t) == IF t.go = "int" THEN -t.half..(t.half - 1) ELSE 0..(2 * t.half - 1)

\* The integers that a text with a point or an exponent is read within.
Read64(raw) ==
  IF ~raw.decimal THEN -Half..(2 * Half - 1)
  ELSE IF raw.exponent \in -ExponentHalf..(ExponentHalf - 1) THEN -Half..(Half - 1) ELSE {}

IntegerRead(v, t, r) ==
  IF v.kind = "scalar" /\ v.raw.form = "number" /\ \E n \in Representable(t) \cap Read64(v.raw) : IsExactly(n, v.raw)
  THEN r.error = "none" /\ r.value \in Representable(t) /\ IsExactly(r.value, v.raw)
  ELSE r.error # "none" /\ r.value = variable

\* A slice is what the getter of slices gives, where the types and elements are
\* those of one.
SliceRead(v, t, path, r) ==
  LET answer == GetE(config, Many("string"), path) IN
  t.elem = StringType /\ ~(Listed(v) # Missing /\ \E i \in DOMAIN Listed(v).items : IsNull(Listed(v).items[i])) =>
    /\ (r.error = "none") = answer.ok
    /\ answer.ok => r.value = Elements(answer.value)

\* Each field of a struct is what its own path unmarshals to, and a field that is
\* absent keeps what it had.
FieldRead(path, f, old, r) ==
  IF Has(config, Append(path, f.key))
  THEN LET own == AtPath(config, Append(path, f.key), f.type, old)
           v == lookupSegments(config.root, Append(path, f.key))
       IN IF IsNull(v) /\ f.omitempty THEN r = old ELSE own = Written(r)
  ELSE r = old /\ (f.omitempty \/ f.type.go \in {"slice", "map"})

StructRead(t, path, r) ==
  r.error = "none" => \A i \in DOMAIN t.fields : FieldRead(path, t.fields[i], variable[i], r.value[i])

\* What UnmarshalPath leaves in a variable is what the getter of its type gives,
\* and an error where that gives one; but null, an error to a getter, leaves
\* scalars as they are, and an integer is read from any exact spelling of a
\* number that its type holds, and never rounded or wrapped.
UnmarshalReads ==
  \A path \in Paths \ {<<>>} :
    LET v == lookupSegments(config.root, path)
        r == AtPath(config, path, type, variable)
        answer == GetE(config, One(type.go), path)
    IN v # Missing /\ ~ContainsPlaceholders(v) =>
         CASE IsNull(v) ->
                type.go \notin {"any", "slice", "map", "struct"} => r = Written(variable)
           [] ~IsNull(v) /\ IsInteger(type) -> IntegerRead(v, type, r)
           [] ~IsNull(v) /\ type.go \in ScalarTypes ->
                r = IF answer.ok THEN Written(answer.value) ELSE Wrong(r.error, variable)
           [] ~IsNull(v) /\ type.go = "slice" -> SliceRead(v, type, path, r)
           [] ~IsNull(v) /\ type.go = "struct" -> StructRead(type, path, r)
           [] OTHER -> TRUE

RECURSIVE Filled(_, _)
Filled(v, by) ==
  CASE v = Placeholder -> by
    [] v.kind = "object" -> [v EXCEPT !.values = [k \in DOMAIN @ |-> Filled(@[k], by)]]
    [] v.kind = "array" -> [v EXCEPT !.items = [i \in DOMAIN @ |-> Filled(@[i], by)]]
    [] OTHER -> v

\* Reading what is not resolved is an error, and "keys the target does not read
\* are unaffected" (the changelog): what is read without an error does not
\* depend on what the placeholders will turn out to be, neither for a variable
\* nor for a getter; and the error is given only where there is a placeholder.
UnresolvedNeverRead ==
  \A by \in {Null, Quoted("10s"), BC(Of(5), Null)} :
    LET read == unmarshalVal(config.root, type, variable)
        later == Config(Filled(config.root, by), TRUE)
    IN /\ read.error = "none" => unmarshalVal(later.root, type, variable) = read
       /\ read.error = "not resolved" => ContainsPlaceholders(config.root)
       /\ \A path \in Paths, kind \in {One("string"), Many("string"), One("config")} :
            LET now == GetE(config, kind, path) IN
            /\ now.ok => GetE(later, kind, path) = now
            /\ now = Fail("not resolved") => ContainsPlaceholders(config.root)
       /\ \A path \in Paths :
            LET now == AtPath(config, path, type, variable) IN
            now.error = "none" => AtPath(later, path, type, variable) = now
=============================================================================
