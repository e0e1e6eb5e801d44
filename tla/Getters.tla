------------------------------ MODULE Getters ------------------------------
(***************************************************************************)
(* The readers of a Config: a path leads to a value, and a value is read as *)
(* a Go type.  Every reader comes in three forms, which the code writes out *)
(* one by one: Get panics, GetE returns an error, GetOption returns None.   *)
(*                                                                         *)
(* Text is what conversions can tell apart: a word, or a number, the digits *)
(* digits * 10^-places with a sign, a point or exponent if decimal, and an  *)
(* exponent.  Durations, sizes and periods are read by Units.               *)
(***************************************************************************)
EXTENDS Integers, Sequences, SequencesExt

CONSTANTS
  Half,              \* 2^63: int64 is -Half .. Half - 1
  IntHalf,           \* the same for int: 2^63, or 2^31 on a 32-bit platform
  Truth,             \* [the words that parseBool reads -> BOOLEAN]
  Index,             \* [the keys of numericObjectToArray -> Nat]
  Holds(_),          \* the value is or contains a placeholder
  Measure(_, _),     \* what the duration, bytes or period of a text is: a result
  Configs,           \* the Configs a program can be handed
  Trees,             \* the values in them, at any depth
  Paths              \* the paths it reads

ASSUME WordAssumption == Half \in Nat \ {0} /\ IntHalf \in Nat \ {0} /\ IntHalf <= Half

-----------------------------------------------------------------------------
(* Values and results *)

Missing == [kind |-> "missing"]
Placeholder == [kind |-> "placeholder"]
Null == [kind |-> "scalar", type |-> "null"]
Scalar(type, raw) == [kind |-> "scalar", type |-> type, raw |-> raw]
Array(items) == [kind |-> "array", items |-> items]
Object(keys, values) == [kind |-> "object", keys |-> keys, values |-> values]

Word(w) == [form |-> "word", word |-> w]
Number(sign, digits, places, exponent, decimal) ==
  [form |-> "number", sign |-> sign, digits |-> digits, places |-> places,
   exponent |-> exponent, decimal |-> decimal]

IsNull(v) == v.kind = "scalar" /\ v.type = "null"
IsObject(v) == v.kind = "object"

Ok(v) == [ok |-> TRUE, value |-> v]
Fail(why) == [ok |-> FALSE, why |-> why]
None == Fail("none")

Config(root, resolved) == [root |-> root, resolved |-> resolved]
newConfig(object) == Config(object, TRUE)

\* A Config is an object, whole; whoever holds a field holds its placeholders.
ASSUME TreesAssumption ==
  /\ \A c \in Configs : c = Config(c.root, c.resolved) /\ c.resolved \in BOOLEAN /\ c.root \in Trees
  /\ \A v \in Trees : IsObject(v) =>
       \A k \in DOMAIN v.values : v.values[k] \in Trees /\ (Holds(v.values[k]) => Holds(v))

ASSUME PathsAssumption == \A path \in Paths : path \in Seq({path[i] : i \in 1 .. Len(path)})

-----------------------------------------------------------------------------
(* What a text reads as *)

Fits(n) == -Half <= n /\ n < Half
Whole(raw) == IF raw.sign = "-" THEN -raw.digits ELSE raw.digits

ParseInt(raw) ==
  IF raw.form = "number" /\ ~raw.decimal /\ Fits(Whole(raw)) THEN Ok(Whole(raw)) ELSE Fail("invalid")

ParseFloat(raw) == IF raw.form = "number" THEN Ok([float |-> raw]) ELSE Fail("invalid")

\* A digit 0 or 1 is a bool too.
parseBool(raw) ==
  CASE raw.form = "word" /\ raw.word \in DOMAIN Truth -> Ok(Truth[raw.word])
    [] raw.form = "number" /\ raw.sign = "" /\ ~raw.decimal /\ raw.digits \in {0, 1} ->
         Ok(raw.digits = 1)
    [] OTHER -> Fail("invalid")

\* int(v): on a 32-bit platform the upper half is cut off.
Narrowed(n) == ((n + IntHalf) % (2 * IntHalf)) - IntHalf

Units == {"duration", "bytes", "period"}

Read(type, raw) ==
  CASE type = "string" -> Ok(raw)
    [] type = "int64" -> ParseInt(raw)
    [] type = "int" -> IF ParseInt(raw).ok THEN Ok(Narrowed(ParseInt(raw).value)) ELSE Fail("invalid")
    [] type = "float64" -> ParseFloat(raw)
    [] type = "bool" -> parseBool(raw)
    [] type \in Units -> Measure(type, raw)

ScalarTypes == {"string", "int64", "int", "float64", "bool"} \cup Units
ElementTypes == {"string", "int64", "int"}

\* The numeric keys of an object, in the order of their numbers.
NumericKeys(object) ==
  SortSeq(SelectSeq(object.keys, LAMBDA k : k \in DOMAIN Index), LAMBDA j, k : Index[j] < Index[k])

\* A list, or an object with numeric keys; Missing for other values.
Listed(v) ==
  CASE v.kind = "array" -> v
    [] IsObject(v) /\ NumericKeys(v) # <<>> ->
         Array([i \in DOMAIN NumericKeys(v) |-> v.values[NumericKeys(v)[i]]])
    [] OTHER -> Missing

-----------------------------------------------------------------------------
(* Paths *)

Step(v, key) == IF IsObject(v) /\ key \in DOMAIN v.values THEN v.values[key] ELSE Missing

Follow(root, path) ==
  LET at[n \in 0 .. Len(path)] == IF n = 0 THEN root ELSE Step(at[n - 1], path[n])
  IN at[Len(path)]

lookupSegments(root, path) == IF path = <<>> THEN Missing ELSE Follow(root, path)

isUnresolvedPlaceholder(v) == v # Missing /\ Holds(v)

\* Mutant: only a value that is a placeholder itself is not resolved.
lookupShallow(c, path) ==
  LET v == lookupSegments(c.root, path) IN
  CASE path = <<>> -> Fail("empty path")
    [] path # <<>> /\ ~c.resolved /\ v = Placeholder -> Fail("not resolved")
    [] OTHER -> IF v = Missing THEN Fail("key not found") ELSE Ok(v)

\* panics
lookup(c, path) ==
  LET v == lookupSegments(c.root, path) IN
  CASE path = <<>> -> Fail("empty path")
    [] path # <<>> /\ ~c.resolved /\ isUnresolvedPlaceholder(v) -> Fail("not resolved")
    [] OTHER -> IF v = Missing THEN Fail("key not found") ELSE Ok(v)

\* Mutant: what is not resolved is read.
lookupAnything(c, path) ==
  LET v == lookupSegments(c.root, path) IN
  IF path = <<>> THEN Fail("empty path") ELSE IF v = Missing THEN Fail("key not found") ELSE Ok(v)

lookupE(c, path) ==
  LET v == lookupSegments(c.root, path) IN
  CASE path = <<>> -> Fail("empty path")
    [] path # <<>> /\ v = Missing -> Fail("key not found")
    [] path # <<>> /\ v # Missing /\ ~c.resolved /\ isUnresolvedPlaceholder(v) ->
         Fail("not resolved")
    [] OTHER -> Ok(v)

\* panics too, on an empty path only
lookupSoft(c, path) ==
  LET v == lookupSegments(c.root, path) IN
  CASE path = <<>> -> Fail("empty path")
    [] path # <<>> /\ ~c.resolved /\ isUnresolvedPlaceholder(v) -> None
    [] OTHER -> IF v = Missing THEN None ELSE Ok(v)

Has(c, path) == lookupSegments(c.root, path) # Missing

-----------------------------------------------------------------------------
(* Get and GetE: the same conversions after their own lookup. *)

getScalar(found) ==
  CASE ~found.ok -> found
    [] found.ok /\ found.value.kind # "scalar" -> Fail("expected scalar")
    [] found.ok /\ IsNull(found.value) -> Fail("null")
    [] OTHER -> Ok(found.value.raw)

ReadFrom(type, scalar) == IF scalar.ok THEN Read(type, scalar.value) ELSE scalar

getArray(found) ==
  CASE ~found.ok -> found
    [] found.ok /\ Listed(found.value) = Missing -> Fail("expected array")
    [] OTHER -> Ok(Listed(found.value))

Readable(type, element) ==
  element.kind = "scalar" /\ ~IsNull(element) /\ Read(type, element.raw).ok

ReadAll(type, array) ==
  CASE ~array.ok -> array
    [] array.ok /\ (\A i \in DOMAIN array.value.items : Readable(type, array.value.items[i])) ->
         Ok([i \in DOMAIN array.value.items |-> Read(type, array.value.items[i].raw).value])
    [] OTHER -> Fail("element")

asConfig(found) ==
  CASE ~found.ok -> found
    [] found.ok /\ ~IsObject(found.value) -> Fail("expected object")
    [] OTHER -> Ok(newConfig(found.value))

asConfigs(array) ==
  CASE ~array.ok -> array
    [] array.ok /\ (\A i \in DOMAIN array.value.items : IsObject(array.value.items[i])) ->
         Ok([i \in DOMAIN array.value.items |-> newConfig(array.value.items[i])])
    [] OTHER -> Fail("element")

\* What is read: a scalar, a slice of scalars, a Config or a slice of them.
One(type) == [shape |-> "one", type |-> type]
Many(type) == [shape |-> "many", type |-> type]
Kinds ==
  {One(t) : t \in ScalarTypes \cup {"config"}} \cup {Many(t) : t \in ElementTypes \cup {"config"}}

ReadFound(kind, found) ==
  CASE kind.shape = "one" /\ kind.type # "config" -> ReadFrom(kind.type, getScalar(found))
    [] kind.shape = "many" /\ kind.type # "config" -> ReadAll(kind.type, getArray(found))
    [] kind.shape = "one" /\ kind.type = "config" -> asConfig(found)
    [] OTHER -> asConfigs(getArray(found))

Get(c, kind, path) == ReadFound(kind, lookup(c, path))
GetE(c, kind, path) == ReadFound(kind, lookupE(c, path))

-----------------------------------------------------------------------------
(* GetOption: its own conversions, with None in the place of an error. *)

StringOption(c, path) ==
  LET found == lookupSoft(c, path) IN
  CASE ~found.ok -> found
    [] found.ok /\ (found.value.kind # "scalar" \/ IsNull(found.value)) -> None
    [] OTHER -> Ok(found.value.raw)

\* The value, if it reads, of an option.
Then(option, result) == IF ~option.ok THEN option ELSE IF result.ok THEN result ELSE None

ScalarOption(c, type, path) ==
  LET string == StringOption(c, path) IN
  Then(string, IF string.ok THEN Read(type, string.value) ELSE None)

lookupArray(c, path) ==
  LET found == lookupSoft(c, path) IN
  CASE ~found.ok -> found
    [] found.ok /\ IsObject(found.value) ->
         IF Listed(found.value) = Missing THEN None ELSE Ok(Listed(found.value))
    [] OTHER -> IF found.value.kind = "array" THEN found ELSE None

SliceOption(c, type, path) ==
  LET array == lookupArray(c, path) IN Then(array, ReadAll(type, array))

ConfigOption(c, path) ==
  LET found == lookupSoft(c, path) IN
  CASE ~found.ok -> found
    [] found.ok /\ (IsNull(found.value) \/ ~IsObject(found.value)) -> None
    [] OTHER -> Ok(newConfig(found.value))

ConfigSliceOption(c, path) ==
  LET array == lookupArray(c, path) IN Then(array, asConfigs(array))

GetOption(c, kind, path) ==
  CASE kind.shape = "one" /\ kind.type # "config" -> ScalarOption(c, kind.type, path)
    [] kind.shape = "many" /\ kind.type # "config" -> SliceOption(c, kind.type, path)
    [] kind.shape = "one" /\ kind.type = "config" -> ConfigOption(c, path)
    [] OTHER -> ConfigSliceOption(c, path)

-----------------------------------------------------------------------------
(* A program holds a Config and goes from one to another with GetConfig.    *)

VARIABLES
  config,   \* the Config it holds
  from      \* ghost: the Config it was handed, and the path it has gone since

getterVars == <<config, from>>

Load ==
  \E handed \in Configs :
    /\ config' = handed
    /\ from' = [config |-> handed, path |-> <<>>]

GetConfig ==
  \E path \in Paths :
    LET scoped == Get(config, One("config"), path) IN
    /\ scoped.ok
    /\ config' = scoped.value
    /\ from' = [from EXCEPT !.path = @ \o path]

GettersInit ==
  \E handed \in Configs :
    /\ config = handed
    /\ from = [config |-> handed, path |-> <<>>]

GettersNext == Load \/ GetConfig

GettersSpec == GettersInit /\ [][GettersNext]_getterVars

-----------------------------------------------------------------------------
(* The three forms of a reader answer alike, as the README says of the      *)
(* three families: Get panics with the error that GetE returns, and         *)
(* otherwise all give the same value; GetOption is None exactly where there *)
(* is an error, but for the empty path, on which it panics.                 *)
Alike(c, kind, path) ==
  LET answer == GetE(c, kind, path) IN
  /\ Get(c, kind, path) = answer
  /\ path # <<>> => GetOption(c, kind, path) = IF answer.ok THEN answer ELSE None

FormsAgree == \A kind \in Kinds, path \in Paths : Alike(config, kind, path)

\* However a program has come to an object, a path from there answers as the
\* whole path does in the Config it started with: GetConfig scopes and nothing
\* else, and the Config it makes is never one whose placeholders go unseen.
ConfigScopes ==
  \A kind \in Kinds, path \in Paths \ {<<>>} :
    GetE(config, kind, path) = GetE(from.config, kind, from.path \o path)
=============================================================================
