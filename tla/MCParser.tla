------------------------------ MODULE MCParser ------------------------------
(***************************************************************************)
(* Texts for TLC, what they mean, and the properties of the parser.        *)
(***************************************************************************)
EXTENDS Parser

CONSTANTS
  KeyLength,     \* how many pieces a key has at most
  NoiseLength    \* how many pieces of any kind follow one another at most

Text(lexemes) == FlattenSeq(lexemes)
Upto(n, pieces) == UNION {[1..k -> pieces] : k \in 1..n}

-----------------------------------------------------------------------------
(* What a path means, read character by character: a dot outside quotes ends *)
(* a segment, everything else is part of one; an empty segment needs quotes.  *)

Meaningless == << <<"meaningless">> >>

RECURSIVE Reading(_, _, _, _)
Reading(path, segments, segment, some) ==
  LET done == Append(segments, segment)
      close == CHOOSE k \in 2..Len(path) :
                 path[k] = "\"" /\ \A j \in 2..(k - 1) : path[j] # "\""
  IN CASE path = <<>> -> IF some THEN done ELSE Meaningless
       [] Head(path) = "." ->
            IF some THEN Reading(Tail(path), done, <<>>, FALSE) ELSE Meaningless
       [] Head(path) = "\"" ->
            Reading(From(path, close + 1), segments, segment \o SubSeq(path, 2, close - 1), TRUE)
       [] OTHER -> Reading(Tail(path), segments, Append(segment, Head(path)), TRUE)

Meaning(path) == Reading(path, <<>>, <<>>, FALSE)

-----------------------------------------------------------------------------
(* Keys *)

Q(s) == <<"\"">> \o s \o <<"\"">>

PlainPieces == { <<"a">>, <<"1">>, <<"-">>, <<"true">> }
QuotedPieces == { Q(<<".">>), Q(<<>>) }
KeyPieces == PlainPieces \cup QuotedPieces \cup { <<".">>, <<" ">> }

\* No blank at either end, no two quoted pieces that touch.
Keys ==
  {key \in Upto(KeyLength, KeyPieces) :
     /\ <<" ">> \notin {Head(key), Last(key)}
     /\ \A k \in 1..(Len(key) - 1) : ~({key[k], key[k + 1]} \subseteq QuotedPieces)}

\* What may follow a key, and the value it then has.
A == Scalar(<<"a">>, "string")
Endings ==
  { [text |-> <<"=", "a">>, value |-> A],
    [text |-> <<"LF", "=", "a">>, value |-> A],
    [text |-> <<" ", "{", "a", "=", "a", "}">>,
     value |-> Object(<<Field(<< <<"a">> >>, FALSE, A)>>)] }

KeyWorlds == [kind : {"key"}, key : Keys, ending : Endings]

-----------------------------------------------------------------------------
(* Documents, and the ways to lay one out *)

B == Scalar(<<"b">>, "string")
One == Scalar(<<"1">>, "number")
Spaced == Concat(<<A, Separator(<<" ">>), One>>)
Reference == [node |-> "subst", segments |-> << <<"a">>, <<"b">> >>,
              optional |-> TRUE, list |-> FALSE]
List == [node |-> "subst", segments |-> << <<"a", "-">> >>, optional |-> FALSE, list |-> TRUE]

FieldA(value) == Field(<< <<"a">> >>, FALSE, value)
FieldB(value) == Field(<< <<"b">>, <<"a">> >>, TRUE, value)

Leaves == {A, Spaced, Reference, List, Scalar(<<"null">>, "null")}
Inner == Leaves \cup {Array(<<>>), Array(<<A, One>>), Object(<<>>), Object(<<FieldA(B), FieldB(A)>>)}
Values == Inner
  \cup {Array(<<x, y>>) : x \in Inner, y \in {Array(<<A>>), Object(<<FieldA(B)>>)}}
  \cup {Object(<<FieldA(x), FieldB(A)>>) : x \in Inner}
  \cup {Concat(<<Object(<<FieldA(x)>>), Reference>>) : x \in Inner}

\* Texts that need quotes, or escapes between them.
Strings == {Scalar(s, "string") : s \in Upto(3, {"a", " ", "\"", "\\", "LF", "#"})}

\* An include as it is written, and the node it is.
X == Q(<<"x">>)
Includes ==
  { [text |-> X, node |-> Include(<<"x">>, FALSE, FALSE)],
    [text |-> <<"file", "(">> \o X \o <<")">>, node |-> Include(<<"x">>, FALSE, TRUE)],
    [text |-> <<"file", " ", "(", " ">> \o X \o <<" ", ")">>,
     node |-> Include(<<"x">>, FALSE, TRUE)],
    [text |-> <<"required", "(">> \o X \o <<")">>, node |-> Include(<<"x">>, TRUE, FALSE)],
    [text |-> <<"required", "(", " ", "file", "(">> \o X \o <<")", " ", ")">>,
     node |-> Include(<<"x">>, TRUE, TRUE)],
    [text |-> <<"package", "(">> \o X \o <<",", " ">> \o Q(<<"a", "/", "b">>) \o <<")">>,
     node |-> PackageInclude(<<"x">>, <<"a", "/", "b">>, FALSE)],
    [text |-> <<"required", "(", "package", "(">> \o X \o <<",", "LF">> \o Q(<<"b">>) \o <<")", ")">>,
     node |-> PackageInclude(<<"x">>, <<"b">>, TRUE)] }

\* sep: between fields and between elements; pad: inside braces and brackets
\* and around the sign of a field; sign: how a field gets its value; root: the
\* document bare, in braces, or in one pair of braces for each field.
Layouts ==
  [sep : { <<",">>, <<"LF">>, <<" ", ",", "LF">>, <<"LF", ",", " ">>,
           <<"LF", "#", "a", "LF", "LF">>, <<"/", "/", "a", "LF">> },
   pad : { <<>>, <<"LF">> }, sign : {"=", ":"}, last : BOOLEAN,
   root : {"bare", "braced", "split"}]

Between(items, sep) ==
  FlattenSeq([k \in DOMAIN items |-> IF k = 1 THEN items[k] ELSE sep \o items[k]])

\* Items between two delimiters, with a separator after the last if the layout has one.
Enclosed(open, items, close, layout) ==
  <<open>> \o layout.pad \o Between(items, layout.sep)
  \o (IF layout.last /\ items # <<>> THEN layout.sep ELSE layout.pad) \o <<close>>

RECURSIVE Write(_, _)
WriteField(field, layout) ==
  Between(field.key, <<".">>) \o layout.pad
  \o (IF field.append THEN <<"+", "=">>
      ELSE IF field.value.node = "object" /\ layout.sign = ":" THEN <<>>
      ELSE <<layout.sign>>)
  \o layout.pad \o Write(field.value, layout)

WriteFields(fields, layout) ==
  [k \in DOMAIN fields |-> WriteField(fields[k], layout)]

Escaped(c) ==
  CASE c = "LF" -> <<"\\", "n">>
    [] c \in {"\"", "\\"} -> <<"\\", c>>
    [] OTHER -> <<c>>

WriteString(raw, layout) ==
  IF Len(raw) = 1 /\ raw[1] \notin Forbidden THEN raw
  ELSE IF layout.sign = ":" THEN <<"\"", "\"", "\"">> \o raw \o <<"\"", "\"", "\"">>
  ELSE Q(FlattenSeq([k \in DOMAIN raw |-> Escaped(raw[k])]))

Write(node, layout) ==
  CASE node.node = "scalar" ->
         IF node.type = "string" THEN WriteString(node.raw, layout) ELSE node.raw
    [] node.node = "subst" ->
         <<"$", "{">> \o (IF node.optional THEN <<"?">> ELSE <<>>)
         \o Between(node.segments, <<".">>)
         \o (IF node.list THEN <<" ", "[", "]">> ELSE <<>>) \o <<"}">>
    [] node.node = "concat" ->
         FlattenSeq([k \in DOMAIN node.nodes |-> Write(node.nodes[k], layout)])
    [] node.node = "array" ->
         Enclosed("[", [k \in DOMAIN node.elements |-> Write(node.elements[k], layout)],
                  "]", layout)
    [] node.node = "object" ->
         Enclosed("{", WriteFields(node.fields, layout), "}", layout)

WriteRoot(items, layout) ==
  CASE layout.root = "bare" -> layout.pad \o Between(items, layout.sep)
    [] layout.root = "braced" -> Enclosed("{", items, "}", layout)
    [] layout.root = "split" ->
         FlattenSeq([k \in DOMAIN items |-> <<"{">> \o items[k] \o <<"}", " ">>])

\* Two fields, or an include and a field, which may follow on the same line.
DocumentWorlds ==
  [kind : {"fields"}, value : Values, layout : Layouts]
  \cup [kind : {"fields"}, value : Strings,
        layout : {l \in Layouts : l.root = "bare" /\ ~l.last /\ l.pad = <<>>}]
  \cup [kind : {"include"}, include : Includes,
        layout : Layouts \cup [sep : {<<" ">>}, pad : {<<>>}, sign : {"="},
                               last : {FALSE}, root : {"bare", "braced"}]]

Items(world) ==
  IF world.kind = "fields"
  THEN WriteFields(<<FieldA(world.value), FieldB(One)>>, world.layout)
  ELSE << <<"include", " ">> \o world.include.text >>
       \o WriteFields(<<FieldA(A)>>, world.layout)

Document(world) ==
  IF world.kind = "fields" THEN <<FieldA(world.value), FieldB(One)>>
  ELSE <<Field(<<>>, FALSE, world.include.node), FieldA(A)>>

-----------------------------------------------------------------------------
(* Any pieces whatever: of objects and arrays, and of includes *)

Structure ==
  {<<"a">>, <<"1">>, <<" ">>, <<"LF">>, <<"=">>, <<",">>, <<"{">>, <<"}">>, <<"[">>, <<"]">>}
IncludePieces ==
  {<<"required">>, <<"file">>, <<"package">>, <<"(">>, <<")">>, <<" ">>, <<"LF">>, <<",">>,
   <<"=">>, <<"a">>, Q(<<"b">>)}

NoiseWorlds ==
  [kind : {"noise"}, text : {Text(s) : s \in Upto(NoiseLength, Structure)}]
  \cup [kind : {"noise"},
        text : {<<"include", " ">> \o Text(s) : s \in Upto(NoiseLength, IncludePieces)}]

-----------------------------------------------------------------------------
VARIABLE world

Written(w) ==
  CASE w.kind = "key" -> Text(w.key) \o w.ending.text
    [] w.kind \in {"fields", "include"} -> WriteRoot(Items(w), w.layout)
    [] w.kind = "noise" -> w.text

MCInit ==
  /\ world \in KeyWorlds \cup DocumentWorlds \cup NoiseWorlds
  /\ \E src \in {Written(world)} : Parse(src)

Finished == result # Parsing /\ UNCHANGED vars

MCNext == (Next \/ Finished) /\ UNCHANGED world

MCSpec == MCInit /\ [][MCNext]_<<vars, world>>

-----------------------------------------------------------------------------
Done == result # Parsing
Read1(fields) == [kind |-> "document", fields |-> fields]

(* A key *)

\* A quoted piece next to unquoted text, without a blank or a dot between them.
Glued(key) ==
  \E k \in 1..(Len(key) - 1) :
    /\ {key[k], key[k + 1]} \cap QuotedPieces # {}
    /\ {key[k], key[k + 1]} \cap PlainPieces # {}

\* 123abc: text that the parser appends to a number.
NumberTail ==
  \E k \in 1..(Len(tokens) - 1) :
    tokens[k].type \in Numeric /\ IsConcatTail(tokens[k + 1])

\* What parseKey then forgets: a dot at the end, the quotes around a dot.
Forgotten(key) ==
  NumberTail /\ (Last(key) = <<".">> \/ Contains(key, Q(<<".">>)))

BeforeParse == at = 1 /\ stack = <<RootFrame>>

\* Where a substitution reads otherwise: blanks around a dot are not part of a
\* segment, and a segment does not start with - unless a digit follows.
SubstDiffers(key) ==
  \/ Contains(key, <<"-">>)
  \/ \E k \in 1..(Len(key) - 1) : {key[k], key[k + 1]} = { <<".">>, <<" ">> }

\* Every quoted piece is a whole segment.
QuotesAlone(key) ==
  \A k \in DOMAIN key :
    key[k] \in QuotedPieces => \A j \in {k - 1, k + 1} \cap DOMAIN key : key[j] = <<".">>

\* parseKey splits the key of a field where a reader of its characters does, and
\* the value after it is found, however the lexer has cut the key into tokens
\* (123abc is two, true.a is one) and wherever its blanks and dots stand.
KeyAsWritten ==
  Done /\ world.kind = "key" /\ ~Glued(world.key) /\ ~Forgotten(world.key) =>
    LET meaning == Meaning(Text(world.key)) IN
    result = IF meaning = Meaningless THEN Refused
             ELSE Read1(<<Field(meaning, FALSE, world.ending.value)>>)

\* The lexer's own scanner of ${...} names the path that a key of the same
\* characters names, and refuses what names none.
SubstAsKey(key, meaning) ==
  LET read == readSubstitution(<<"$", "{">> \o Text(key) \o <<"}">>, 1).token IN
  IF meaning = Meaningless THEN read.type = "Error" ELSE read.type = "Subst" /\ read.segments = meaning

\* splitPath, for the argument of a getter, refuses nothing.
PathAsKey(key, meaning) == meaning # Meaningless => splitPath(Text(key)) = meaning

\* The three readers of paths agree: a field that can be written can be referred
\* to with the same characters in a substitution, and read with them in a getter.
PathsReadAlike ==
  world.kind = "key" /\ BeforeParse =>
    LET meaning == Meaning(Text(world.key)) IN
    /\ ~SubstDiffers(world.key) => SubstAsKey(world.key, meaning)
    /\ QuotesAlone(world.key) => PathAsKey(world.key, meaning)

\* A document written in any layout (commas, newlines and comments as separators,
\* newlines around signs and brackets, trailing separators, roots with and
\* without braces, strings that need escapes or three quotes, every form of an
\* include) is parsed to the nodes that were written.
ReadsBack ==
  Done /\ world.kind \in {"fields", "include"} => result = Read1(Document(world))

\* The letters of a document, in order.
RECURSIVE Letters(_)
Letters(node) ==
  LET Of(field) == FlattenSeq(field.key) \o Letters(field.value) IN
  CASE node.node = "scalar" -> node.raw
    [] node.node = "object" -> FlattenSeq([k \in DOMAIN node.fields |-> Of(node.fields[k])])
    [] node.node = "array" -> FlattenSeq([k \in DOMAIN node.elements |-> Letters(node.elements[k])])
    [] node.node = "concat" -> FlattenSeq([k \in DOMAIN node.nodes |-> Letters(node.nodes[k])])
    [] node.node = "include" -> node.path
    [] node.node = "package" -> node.id \o node.path

IsLetter(c) == c \in {"a", "b", "1", "message"}

\* Text between file( and the path, as in file(a"b"), is skipped.
Swallowed ==
  \E k \in DOMAIN tokens : Contains(tokens[k].value, "(") /\ Contains(tokens[k].value, "a")

\* Whatever is written, an accepted text has all its letters in the AST, in
\* order: skipped separators, parentheses and blanks never take a key, a value or
\* a path with them, and a malformed include is refused and not cut short.
NothingDropped ==
  world.kind = "noise" /\ result.kind = "document" /\ ~Swallowed =>
    SelectSeq(Letters(Object(result.fields)), IsLetter) = SelectSeq(text, IsLetter)
=============================================================================
