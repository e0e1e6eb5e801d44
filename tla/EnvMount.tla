------------------------------ MODULE EnvMount ------------------------------
(***************************************************************************)
(* adapters/env: the variables of the process environment, or the lines of *)
(* a .env file, mounted as configuration.  Load and Parse turn their input *)
(* into pairs, build maps the names with the prefix to paths, and          *)
(* pathmap.Build (module PathMap) nests them.  Names, values and lines are *)
(* sequences of characters; the keyword "export" is one character.         *)
(***************************************************************************)
EXTENDS PathMap

CONSTANTS Inputs,           \* [origin, prefix, text]: what Load or Parse is given
          Fold,             \* the upper case letters -> their lower case
          Order,            \* the characters in the order of their bytes
          BadByte,          \* a byte that is not valid UTF-8
          Probes,           \* paths the properties look up, in lower case
          Texts,            \* values the properties look up
          MaxPathSegments   \* depth.MaxPathSegments

Characters == {Order[i] : i \in 1 .. Len(Order)}
String == Seq(Characters)

ASSUME InputsAssumption ==
  \A i \in Inputs : /\ i.origin \in {"environ", "file"}
                    /\ i.prefix \in String /\ i.text \in Seq(String)

\* Every character has one place, and only letters have a case.
ASSUME AlphabetAssumption ==
  /\ Order \in Seq(Characters)
  /\ \A i, j \in 1 .. Len(Order) : Order[i] = Order[j] => i = j
  /\ \A c \in DOMAIN Fold : /\ Fold[c] \in Characters \ DOMAIN Fold
                            /\ {c, Fold[c]} \cap {"_", NUL} = {}
  /\ BadByte # "="

ASSUME LimitAssumption == MaxPathSegments \in Nat

VARIABLES input,   \* the call: its origin, Options.Prefix and text
          stage,   \* "start", "variables", "lines", "mount" or "build"
          next,    \* the variable, line or pair a loop is at
          pairs,   \* names and values, not yet filtered in Load
          seen     \* the key of a path -> the name mounted there

envVars == <<input, stage, next, pairs, seen>>
vars == <<mapVars, envVars>>

----------------------------------------------------------------------------
(* Strings.                                                                *)

HasPrefix(s, prefix) == Len(prefix) <= Len(s) /\ SubSeq(s, 1, Len(prefix)) = prefix
After(s, k) == SubSeq(s, k + 1, Len(s))
Valid(s) == \A i \in 1 .. Len(s) : s[i] # BadByte
Rank(c) == CHOOSE i \in 1 .. Len(Order) : Order[i] = c

\* s < t, byte by byte.
Before(s, t) ==
  \E i \in 1 .. Len(t) :
    /\ i <= Len(s) + 1
    /\ SubSeq(s, 1, i - 1) = SubSeq(t, 1, i - 1)
    /\ i > Len(s) \/ Rank(s[i]) < Rank(t[i])

\* The order the operating system lists the variables in (a mutant of sorted).
unsorted(environ) == environ

Precedes(environ, j, k) == \/ Before(environ[j], environ[k])
                           \/ environ[j] = environ[k] /\ j < k

\* Equal strings may come in either order: nothing tells them apart.
sorted(environ) ==
  LET places == 1 .. Len(environ)
      order == CHOOSE f \in [places -> places] :
                 /\ \A i \in places : \E k \in places : f[k] = i
                 /\ \A i, j \in places : i < j => Precedes(environ, f[i], f[j])
  IN [k \in places |-> environ[order[k]]]

First(s, c) == CHOOSE i \in 1 .. Len(s) : s[i] = c /\ \A j \in 1 .. i - 1 : s[j] # c
Contains(s, c) == \E i \in 1 .. Len(s) : s[i] = c
CutAt(s, i) == [name |-> SubSeq(s, 1, i - 1), value |-> After(s, i)]

Spaces(s) == CHOOSE k \in 0 .. Len(s) :
  /\ \A i \in 1 .. k : s[i] = " "
  /\ k = Len(s) \/ s[k + 1] # " "
TrimLeft(s) == After(s, Spaces(s))
TrimRight(s) ==
  SubSeq(s, 1, CHOOSE k \in 0 .. Len(s) :
                 /\ \A i \in k + 1 .. Len(s) : s[i] = " "
                 /\ k = 0 \/ s[k] # " ")
TrimSpace(s) == TrimRight(TrimLeft(s))

----------------------------------------------------------------------------
(* From names to paths.                                                    *)

lower(c) == IF c \in DOMAIN Fold THEN Fold[c] ELSE c
lowerASCII(s) == [i \in 1 .. Len(s) |-> lower(s[i])]

\* The segments of a name, in lower case.  strings.Split takes pairs of
\* underscores from the left.
StartsCut(s) == HasPrefix(s, <<"_", "_">>)
toPath[rest \in String] ==
  CASE rest = <<>> -> << <<>> >>
    [] StartsCut(rest) -> << <<>> >> \o toPath[After(rest, 2)]
    [] OTHER -> LET path == toPath[After(rest, 1)]
                IN <<<<lower(rest[1])>> \o Head(path)>> \o Tail(path)

\* %d
Digit == <<"0", "1", "2", "3", "4", "5", "6", "7", "8", "9">>
Decimal[n \in Nat] ==
  IF n < 10 THEN <<Digit[n + 1]>> ELSE Decimal[n \div 10] \o <<Digit[(n % 10) + 1]>>

\* Every segment with its length in front.
pathKey[path \in Seq(String)] ==
  IF path = <<>> THEN <<>>
  ELSE Decimal[Len(path[1])] \o <<":">> \o path[1] \o pathKey[Tail(path)]

----------------------------------------------------------------------------
(* The values of a .env file.                                              *)

Bad == [ok |-> FALSE, text |-> <<>>]
Good(s) == [ok |-> TRUE, text |-> s]
IfBlank(rest, s) == IF TrimSpace(rest) = <<>> THEN Good(s) ELSE Bad
Prepend(c, r) == IF r.ok THEN Good(<<c>> \o r.text) ELSE Bad

Escaped == [c \in {"n", "\\", "\""} |-> IF c = "n" THEN "LF" ELSE c]

\* The text up to the last quote, as it is (a mutant of doubleQuoted).
doubleQuotedToLast(v) ==
  LET last == CHOOSE i \in 1 .. Len(v) : v[i] = "\"" /\ \A j \in i + 1 .. Len(v) : v[j] # "\""
  IN IF last = 1 THEN Bad ELSE Good(SubSeq(v, 2, last - 1))

\* What follows the quote.
unescaped[v \in String] ==
  CASE v = <<>> -> Bad
    [] v # <<>> /\ v[1] = "\"" -> IfBlank(After(v, 1), <<>>)
    [] v # <<>> /\ v[1] = "\\" -> IF Len(v) > 1 /\ v[2] \in DOMAIN Escaped
                                THEN Prepend(Escaped[v[2]], unescaped[After(v, 2)])
                                ELSE Bad
    [] OTHER -> Prepend(v[1], unescaped[After(v, 1)])

doubleQuoted(v) == unescaped[After(v, 1)]

singleQuoted(v) ==
  IF Contains(After(v, 1), "'")
  THEN IfBlank(After(v, 1 + First(After(v, 1), "'")),
               SubSeq(v, 2, First(After(v, 1), "'")))
  ELSE Bad

\* A '#' after a space could be meant as a comment.
unquoted(v) ==
  IF \E i \in 2 .. Len(v) : v[i] = "#" /\ v[i - 1] = " " THEN Bad ELSE Good(v)

dotEnvValue(v) ==
  CASE HasPrefix(v, <<"'">>) -> singleQuoted(v)
    [] HasPrefix(v, <<"\"">>) -> doubleQuoted(v)
    [] OTHER -> unquoted(TrimRight(v))

stripExport(line) ==
  IF HasPrefix(line, <<"export", " ">>) THEN TrimLeft(After(line, 1)) ELSE line

checkName(name) == ~Contains(name, " ") /\ ~Contains(name, "#")

----------------------------------------------------------------------------
(* Load and Parse: from the input to the pairs.                            *)

Init ==
  /\ MapInit
  /\ input \in Inputs
  /\ stage = "start"
  /\ next = 1
  /\ pairs = <<>>
  /\ seen = [k \in {} |-> <<>>]

Refuse(f) == Fail(f) /\ UNCHANGED envVars

At(s) == pc = "collect" /\ stage = s
GoOn(s) == stage' = s /\ next' = 1 /\ UNCHANGED <<mapVars, input, seen>>

Load ==
  /\ At("start") /\ input.origin = "environ"
  /\ input.prefix # <<>>
  /\ GoOn("variables")
  /\ UNCHANGED pairs

LoadWithoutPrefix ==
  /\ At("start") /\ input.origin = "environ"
  /\ input.prefix = <<>>
  /\ Refuse([kind |-> "prefix", name |-> <<>>])

Parse ==
  /\ At("start") /\ input.origin = "file"
  /\ \A k \in 1 .. Len(input.text) : Valid(input.text[k])
  /\ GoOn("lines")
  /\ UNCHANGED pairs

ParseInvalid ==
  /\ At("start") /\ input.origin = "file"
  /\ \E k \in 1 .. Len(input.text) : ~Valid(input.text[k])
  /\ Refuse([kind |-> "encoding", name |-> <<>>])

PassOver == next' = next + 1 /\ UNCHANGED <<mapVars, input, stage, pairs, seen>>
TakePair(name, value) ==
  /\ pairs' = Append(pairs, [name |-> name, value |-> value])
  /\ next' = next + 1
  /\ UNCHANGED <<mapVars, input, stage, seen>>

(* The loop of Load over the variables in their order.                     *)

Variable == sorted(input.text)[next]
ReadsVariable == At("variables") /\ next <= Len(input.text)
Cut(kv) == CutAt(kv, First(kv, "="))

NoVariable == ReadsVariable /\ ~Contains(Variable, "=") /\ PassOver
ReadVariable ==
  /\ ReadsVariable
  /\ Contains(Variable, "=")
  /\ TakePair(Cut(Variable).name, Cut(Variable).value)

(* parseDotEnv, one line at a time.                                        *)

Line == input.text[next]
ReadsLine == At("lines") /\ next <= Len(input.text)

IsText(raw) == TrimSpace(raw) # <<>> /\ ~HasPrefix(TrimSpace(raw), <<"#">>)
Body(raw) == stripExport(TrimSpace(raw))
NameIn(raw) == TrimSpace(CutAt(Body(raw), First(Body(raw), "=")).name)
ValueIn(raw) == dotEnvValue(TrimLeft(CutAt(Body(raw), First(Body(raw), "=")).value))
IsPair(raw) == IsText(raw) /\ Contains(Body(raw), "=") /\ NameIn(raw) # <<>>
\* Every pair is read as if it were mounted (a mutant of IsMounted).
IsAnyPair(raw) == IsPair(raw)

IsMounted(raw) == IsPair(raw) /\ HasPrefix(NameIn(raw), input.prefix)

Ignore ==
  /\ ReadsLine
  /\ ~IsText(Line) \/ (IsPair(Line) /\ ~IsMounted(Line))
  /\ PassOver

RefuseLine ==
  /\ ReadsLine
  /\ IsText(Line) /\ ~IsPair(Line)
  /\ Refuse([kind |-> "line", name |-> <<>>])

RefuseName ==
  /\ ReadsLine
  /\ IsMounted(Line) /\ ~checkName(NameIn(Line))
  /\ Refuse([kind |-> "name", name |-> NameIn(Line)])

RefuseValue ==
  /\ ReadsLine
  /\ IsMounted(Line) /\ checkName(NameIn(Line)) /\ ~ValueIn(Line).ok
  /\ Refuse([kind |-> "value", name |-> NameIn(Line)])

ReadLine ==
  /\ ReadsLine
  /\ IsMounted(Line) /\ checkName(NameIn(Line)) /\ ValueIn(Line).ok
  /\ TakePair(NameIn(Line), ValueIn(Line).text)

InputEnds ==
  /\ At("lines") \/ At("variables")
  /\ next > Len(input.text)
  /\ GoOn("mount")
  /\ UNCHANGED pairs

----------------------------------------------------------------------------
(* build: from the pairs to the entries.                                   *)

Mounts == At("mount") /\ next <= Len(pairs)
Selected == HasPrefix(pairs[next].name, input.prefix)
Rest == After(pairs[next].name, Len(input.prefix))
Decodes == input.origin = "environ" => Valid(pairs[next].name) /\ Valid(pairs[next].value)
Fits == Len(toPath[Rest]) <= MaxPathSegments

\* No collision is detected (a mutant of Taken).
TakenNever(path) == FALSE
Taken(path) == input.origin = "environ" /\ pathKey[path] \in DOMAIN seen

NotSelected ==
  /\ Mounts
  /\ ~Selected
  /\ PassOver

RefusePair(kind) == Refuse([kind |-> kind, name |-> pairs[next].name])

Undecodable == Mounts /\ Selected /\ ~Decodes /\ RefusePair("encoding")
TooDeep == Mounts /\ Selected /\ Decodes /\ ~Fits /\ RefusePair("deep")
Collision ==
  /\ Mounts /\ Selected /\ Decodes /\ Fits
  /\ Taken(toPath[Rest])
  /\ RefusePair("collision")

\* The entries in reverse order (a mutant of Mount).
MountFirst(path) ==
  /\ ~Taken(path)
  /\ entries' = <<[path |-> path, value |-> pairs[next].value,
                   source |-> pairs[next].name]>> \o entries
  /\ next' = next + 1
  /\ UNCHANGED <<pc, at, scopes, objects, leaves, fault, input, stage, pairs, seen>>

Mount(path) ==
  /\ ~Taken(path)
  /\ entries' = Append(entries, [path |-> path, value |-> pairs[next].value,
                                 source |-> pairs[next].name])
  /\ seen' = IF input.origin = "environ"
             THEN [key \in DOMAIN seen \cup {pathKey[path]} |->
                     IF key = pathKey[path] THEN pairs[next].name ELSE seen[key]]
             ELSE seen
  /\ next' = next + 1
  /\ UNCHANGED <<pc, at, scopes, objects, leaves, fault, input, stage, pairs>>

MountPair == Mounts /\ Selected /\ Decodes /\ Fits /\ Mount(toPath[Rest])

CallBuild ==
  /\ At("mount") /\ next > Len(pairs)
  /\ Call
  /\ stage' = "build"
  /\ UNCHANGED <<input, next, pairs, seen>>

----------------------------------------------------------------------------

Read == \/ Load \/ LoadWithoutPrefix \/ Parse \/ ParseInvalid
        \/ NoVariable \/ ReadVariable
        \/ Ignore \/ RefuseLine \/ RefuseName \/ RefuseValue \/ ReadLine \/ InputEnds
        \/ NotSelected \/ Undecodable \/ TooDeep \/ Collision \/ MountPair \/ CallBuild

Next == Read \/ (Build /\ UNCHANGED envVars)
Spec == Init /\ [][Next]_vars

----------------------------------------------------------------------------
(* What a caller of the adapter relies on.                                 *)

\* The adapter is one of the callers PathMap is specified for.
BuildsPathMap == MapSpec

Ended == pc \in {"done", "failed"}

\* A path that a name without a prefix can spell: in lower case, and with no
\* two underscores in a row but those between two segments.
Spelled(path) ==
  /\ path \in Seq(String) \ {<<>>}
  /\ \A i \in 1 .. Len(path) : \A k \in 1 .. Len(path[i]) : path[i][k] \notin DOMAIN Fold
  /\ \A i \in 1 .. Len(path) : \A k \in 1 .. Len(path[i]) - 1 :
       path[i][k] = "_" => path[i][k + 1] # "_"
  /\ \A i \in 1 .. Len(path) - 1 : path[i] # <<>> => path[i][Len(path[i])] # "_"

ASSUME ProbesAssumption == \A path \in Probes : Spelled(path)
ASSUME TextsAssumption == Texts \subseteq String

\* The text of the variable that mounts at a path: its segments joined by "__".
Joined[path \in Seq(String)] ==
  CASE path = <<>> -> <<>>
    [] Len(path) = 1 -> path[1]
    [] OTHER -> path[1] \o <<"_", "_">> \o Joined[Tail(path)]
Spelling(path) == input.prefix \o Joined[path]
Names(kv, path) == HasPrefix(kv, input.prefix)
                   /\ lowerASCII(After(kv, Len(input.prefix))) = Joined[path]
Reads(path, value) ==
  \/ path \in objects
  \/ path \in DOMAIN leaves /\ leaves[path] = value

\* A mounted namespace is complete and closed: when Load succeeds, every
\* variable with the prefix is read at its path, unless variables mounted
\* below it made an object of that path, and no variable without the prefix
\* contributes a value (rules F1.1, F1.2, F2.5).
EnvironIsMounted ==
  pc = "done" /\ input.origin = "environ" =>
    /\ \A k \in 1 .. Len(input.text), path \in Probes :
         LET kv == input.text[k]
         IN Contains(kv, "=") /\ Names(Cut(kv).name, path) => Reads(path, Cut(kv).value)
    /\ \A path \in DOMAIN leaves \cap Probes : \E k \in 1 .. Len(input.text) :
         /\ Contains(input.text[k], "=")
         /\ Names(Cut(input.text[k]).name, path) /\ Cut(input.text[k]).value = leaves[path]

\* The variables of the environment that Load has to refuse.
Wanted(k) == /\ Contains(input.text[k], "=")
             /\ HasPrefix(Cut(input.text[k]).name, input.prefix)
PathOf(k) == toPath[After(Cut(input.text[k]).name, Len(input.prefix))]
Earlier(j, k) == Precedes(input.text, j, k)
Refused(k) ==
  /\ Wanted(k)
  /\ \/ ~Valid(input.text[k])
     \/ Len(PathOf(k)) > MaxPathSegments
     \/ \E j \in 1 .. Len(input.text) : Wanted(j) /\ Earlier(j, k) /\ PathOf(j) = PathOf(k)
Hollow(k) == Wanted(k) /\ ~WellFormed(PathOf(k))
Blames(k) == pc = "failed" /\ fault.name = Cut(input.text[k]).name
Least(P(_)) == CHOOSE k \in 1 .. Len(input.text) :
  P(k) /\ \A j \in 1 .. Len(input.text) : P(j) /\ j # k => Earlier(k, j)

\* The environment has no order, so the outcome depends on none: Load fails
\* exactly when two variables reach one path or one of them is unreadable, and
\* blames the same variable in whatever order os.Environ lists them (F1.6).
SameOnEveryRun ==
  Ended /\ input.origin = "environ" /\ input.prefix # <<>> =>
    CASE \E k \in 1 .. Len(input.text) : Refused(k) -> Blames(Least(Refused))
      [] (\A k \in 1 .. Len(input.text) : ~Refused(k))
         /\ \E k \in 1 .. Len(input.text) : Hollow(k) -> Blames(Least(Hollow))
      [] OTHER -> pc = "done"

\* A text between double quotes, written the way a .env file needs it.
escaped[text \in String] ==
  IF text = <<>> THEN <<>>
  ELSE (CASE text[1] = "LF" -> <<"\\", "n">>
          [] text[1] \in {"\\", "\""} -> <<"\\", text[1]>>
          [] OTHER -> <<text[1]>>) \o escaped[Tail(text)]
Quoted(text) == <<"\"">> \o escaped[text] \o <<"\"">>

\* A value written between double quotes comes back as it was, from the last
\* line that sets its path (rules F1.7, F0.7): no text is cut at a quote, a
\* '#' or a space, and no escape is read twice.
QuotedValueSurvives ==
  pc = "done" /\ input.origin = "file" =>
    \A k \in 1 .. Len(input.text), path \in Probes, text \in Texts :
      /\ checkName(Spelling(path)) /\ ~Contains(Spelling(path), "=")
      /\ input.text[k] = Spelling(path) \o <<"=">> \o Quoted(text)
      /\ \A j \in k + 1 .. Len(input.text) :
           ~(IsPair(input.text[j]) /\ Names(NameIn(input.text[j]), path))
      => Reads(path, text)

\* A .env file fails only for a line that is no NAME=value at all or for one
\* with the prefix: a name or value of another tool's namespace never does
\* (rule F1.7).
Readable(raw) ==
  IsText(raw) =>
    /\ IsPair(raw)
    /\ HasPrefix(NameIn(raw), input.prefix) =>
         /\ checkName(NameIn(raw)) /\ ValueIn(raw).ok
         /\ WellFormed(toPath[After(NameIn(raw), Len(input.prefix))])
         /\ Len(toPath[After(NameIn(raw), Len(input.prefix))]) <= MaxPathSegments
OnlyMountedLinesFail ==
  Ended /\ input.origin = "file" =>
    (pc = "done" <=> \A k \in 1 .. Len(input.text) :
                       Valid(input.text[k]) /\ Readable(input.text[k]))
=============================================================================
