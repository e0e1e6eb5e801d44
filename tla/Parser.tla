------------------------------- MODULE Parser -------------------------------
(***************************************************************************)
(* internal/parser: recursive descent over the tokens of a text.  A frame  *)
(* of the stack is an activation of a parse function that waits for the    *)
(* node it called for.                                                     *)
(***************************************************************************)
EXTENDS KeyPaths

VARIABLES
  text,    \* what Parse was called with
  tokens,  \* the tokens of the text
  at,      \* the index of the current token
  stack,   \* the activations, the innermost last
  result   \* what Parse returned, or Parsing

vars == <<text, tokens, at, stack, result>>

Parsing == [kind |-> "parsing"]
Refused == [kind |-> "refused"]
ArrayAtRoot == [kind |-> "array at root"]

-----------------------------------------------------------------------------
(* Nodes *)

Object(fields) == [node |-> "object", fields |-> fields]
Array(elements) == [node |-> "array", elements |-> elements]
Concat(nodes) == IF Len(nodes) = 1 THEN nodes[1] ELSE [node |-> "concat", nodes |-> nodes]
Scalar(raw, type) == [node |-> "scalar", raw |-> raw, type |-> type]
Separator(ws) == Scalar(ws, "separator")
Subst(token) == [node |-> "subst", segments |-> token.segments,
                 optional |-> token.optional, list |-> token.list]
Include(path, required, file) ==
  [node |-> "include", path |-> path, required |-> required, file |-> file]
PackageInclude(id, path, required) ==
  [node |-> "package", id |-> id, path |-> path, required |-> required]
Field(key, append, value) == [key |-> key, append |-> append, value |-> value]

ScalarType ==
  [String |-> "string", Include |-> "string", Int |-> "number",
   Float |-> "number", Bool |-> "boolean", Null |-> "null"]

-----------------------------------------------------------------------------
(* Frames: root and fields keep the fields read so far; a braced object ends *)
(* at its brace, key and append are those of the field whose value is being  *)
(* read; value keeps the parts of a concatenation.                           *)

RootFrame == [fn |-> "root", first |-> TRUE, fields |-> <<>>]
FieldsFrame(braced) ==
  [fn |-> "fields", braced |-> braced, fields |-> <<>>, key |-> <<>>, append |-> FALSE]
ValueFrame == [fn |-> "value", nodes |-> <<>>]
ArrayFrame == [fn |-> "array", elements |-> <<>>]

Top == Last(stack)
SetTop(frame) == [stack EXCEPT ![Len(stack)] = frame]

\* Mutant: a comma must stand on the line of what it follows.
skipSeparatorSameLine(i) ==
  IF Current(tokens, i).type = "," THEN skipNewlines(tokens, i + 1) ELSE skipNewlines(tokens, i)

skipSeparator(i) ==
  LET comma == skipNewlines(tokens, i) IN
  IF Current(tokens, comma).type = "," THEN skipNewlines(tokens, comma + 1) ELSE comma

-----------------------------------------------------------------------------
(* Includes.  Words are characters, so file( is the word and a parenthesis. *)

IsWord(value, word) ==
  value # <<>> /\ Head(value) = word /\ (Len(value) > 1 => value[2] = "(")

\* A word that stands alone must be followed by a parenthesis.
Opened(value, i) ==
  LET next == Current(tokens, i) IN
  Len(value) = 1 => IsUnquoted(next) /\ next.value # <<>> /\ Head(next.value) = "("

NoInclude == [ok |-> FALSE]
Included(node, i) == [ok |-> TRUE, node |-> node, next |-> i]

RECURSIVE SkipParens(_)
SkipParens(i) ==
  LET token == Current(tokens, i) IN
  IF IsUnquoted(token) /\ token.value # <<>> /\ Range(token.value) = {")"}
  THEN SkipParens(i + 1) ELSE i

\* skipToIncludePath: the place of the quoted path, and whether file was seen.
RECURSIVE skipToIncludePath(_, _)
skipToIncludePath(i, sawFile) ==
  LET token == Current(tokens, i)
      word == TrimHead(token.value, {"("})
  IN CASE token.type = "String" /\ token.quoted ->
            [ok |-> TRUE, next |-> i, file |-> sawFile]
       [] IsUnquoted(token) /\ (word = <<>> \/ IsWord(word, "file")) ->
            skipToIncludePath(i + 1, sawFile \/ word # <<>>)
       [] OTHER -> NoInclude

FileInclude(i, required, isFile) ==
  LET path == skipToIncludePath(i, isFile) IN
  IF ~path.ok THEN NoInclude
  ELSE Included(Include(Current(tokens, path.next).value, required, path.file),
                SkipParens(path.next + 1))

ValidatePackageFile(file) ==
  /\ ~Contains(file, "\\")
  /\ ~(Len(file) > 1 /\ file[2] = ":" /\ file[1] = "a")
  /\ Range(Split(file, "/")) \cap {<<>>, <<".">>, <<".", ".">>} = {}

parsePackageArgs(i, required) ==
  LET id == skipToIncludePath(i, FALSE)
      name == Current(tokens, id.next).value
      second == skipNewlines(tokens, id.next + 2)
      file == Current(tokens, second)
  IN IF /\ id.ok /\ name # <<>>
        /\ Current(tokens, id.next + 1).type = ","
        /\ file.type = "String" /\ file.quoted /\ ValidatePackageFile(file.value)
     THEN Included(PackageInclude(name, file.value, required), SkipParens(second + 1))
     ELSE NoInclude

\* required(...): what follows the parenthesis in the same token decides.
RequiredInclude(value, i) ==
  LET inner == SubSeq(value, 3, Len(value)) IN
  CASE ~Opened(value, i) -> NoInclude
    [] inner = <<>> -> FileInclude(i, TRUE, FALSE)
    [] IsWord(inner, "file") ->
         IF Opened(inner, i) THEN FileInclude(i, TRUE, TRUE) ELSE NoInclude
    [] IsWord(inner, "package") ->
         IF Opened(inner, i) THEN parsePackageArgs(i, TRUE) ELSE NoInclude
    [] OTHER -> NoInclude

\* Mutant: whatever follows the path on the line is taken for parentheses.
parseIncludeGreedy(i) ==
  LET first == skipNewlines(tokens, i + 1)
      RECURSIVE ToSeparator(_)
      ToSeparator(j) == IF Current(tokens, j).type \in {"Newline", ",", "}", "EOF"}
                        THEN j ELSE ToSeparator(j + 1)
      path == skipToIncludePath(first, FALSE)
  IN IF path.ok THEN Included(Include(Current(tokens, path.next).value, FALSE, path.file),
                              ToSeparator(path.next + 1))
     ELSE NoInclude

parseInclude(i) ==
  LET first == skipNewlines(tokens, i + 1)
      token == Current(tokens, first)
      value == token.value
  IN CASE token.type = "String" /\ token.quoted ->
            Included(Include(value, FALSE, FALSE), first + 1)
       [] IsUnquoted(token) /\ IsWord(value, "required") -> RequiredInclude(value, first + 1)
       [] IsUnquoted(token) /\ IsWord(value, "file") /\ Opened(value, first + 1) ->
            FileInclude(first + 1, FALSE, TRUE)
       [] IsUnquoted(token) /\ IsWord(value, "package") /\ Opened(value, first + 1) ->
            parsePackageArgs(first + 1, FALSE)
       [] OTHER -> NoInclude

-----------------------------------------------------------------------------
(* Steps.  What a step leads to is a record of the variables it changes.    *)

Stop(outcome) == [at |-> at, stack |-> <<>>, result |-> outcome]
Goto(i, frames) == [at |-> i, stack |-> frames, result |-> Parsing]

Becomes(next) ==
  \E n \in {next} :
    /\ at' = n.at /\ stack' = n.stack /\ result' = n.result
    /\ UNCHANGED <<text, tokens>>

\* The innermost activation returns a node to the one that called it.
Return(node, i) ==
  LET callers == Front(stack)
      caller == Last(callers)
      Resume(j, frame) == Goto(j, Append(Front(callers), frame))
  IN CASE caller.fn = "root" /\ node.node = "array" -> Resume(i, [fn |-> "array at root"])
       [] caller.fn = "root" /\ node.node = "object" ->
            Resume(i, [caller EXCEPT !.fields = @ \o node.fields])
       [] caller.fn = "fields" ->
            Resume(skipSeparator(i),
                   [caller EXCEPT !.fields = Append(@, Field(caller.key, caller.append, node))])
       [] caller.fn = "array" ->
            Resume(skipSeparator(i), [caller EXCEPT !.elements = Append(@, node)])
       [] caller.fn = "value" -> Resume(i, [caller EXCEPT !.nodes = Append(@, node)])

\* Where the next token is that is no newline.
Here == skipNewlines(tokens, at)
Type(i) == Current(tokens, i).type

-----------------------------------------------------------------------------
(* parseRoot: objects and fields up to the end of the text are one object; an *)
(* array may only come first.                                                *)

parseRoot ==
  /\ Top.fn = "root"
  /\ Becomes(LET i == Here
                 Call(j, frame) == Goto(j, Append(SetTop([Top EXCEPT !.first = FALSE]), frame))
             IN CASE Type(i) = "EOF" -> Stop([kind |-> "document", fields |-> Top.fields])
                  [] Type(i) = "[" /\ Top.first -> Call(i + 1, ArrayFrame)
                  [] Type(i) = "{" -> Call(i + 1, FieldsFrame(TRUE))
                  [] OTHER -> Call(i, FieldsFrame(FALSE)))

EndOfRootArray ==
  /\ Top.fn = "array at root"
  /\ Becomes(Stop(IF Type(Here) = "EOF" THEN ArrayAtRoot ELSE Refused))

-----------------------------------------------------------------------------
(* parseObjectFields, parseField *)

AtEndOfObject == Type(Here) = "EOF" \/ (Top.braced /\ Type(Here) = "}")

EndObject ==
  /\ Top.fn = "fields" /\ AtEndOfObject
  /\ Becomes(IF Type(Here) = "}" THEN Return(Object(Top.fields), Here + 1)
             ELSE IF Top.braced THEN Stop(Refused)
             ELSE Return(Object(Top.fields), Here))

ReadInclude ==
  /\ Top.fn = "fields" /\ Type(Here) = "Include"
  /\ Becomes(LET include == parseInclude(Here) IN
             IF include.ok
             THEN Goto(skipSeparator(include.next),
                       SetTop([Top EXCEPT !.fields = Append(@, Field(<<>>, FALSE, include.node))]))
             ELSE Stop(Refused))

\* include is reserved as the first word of an unquoted path.
Reserved(token, key) == IsUnquoted(token) /\ key.parts[1] = <<"include">>

ReadField ==
  /\ Top.fn = "fields" /\ ~AtEndOfObject /\ Type(Here) # "Include"
  /\ Becomes(LET key == parseKey(tokens, Here)
                 sep == skipNewlines(tokens, key.next)
                 next == IF Type(sep) = "{" THEN sep ELSE sep + 1
                 named == [Top EXCEPT !.key = key.parts, !.append = Type(sep) = "+="]
             IN IF ~key.ok \/ Type(sep) \notin {":", "=", "+=", "{"} THEN Stop(Refused)
                ELSE IF Reserved(Current(tokens, Here), key) THEN Stop(Refused)
                ELSE Goto(next, Append(SetTop(named), ValueFrame)))

-----------------------------------------------------------------------------
(* parseValue, parseSingleValue, parseArray *)

EndsValue == {"Newline", "EOF", ",", "}", "]"}
AtEndOfValue == Top.nodes # <<>> /\ Type(at) \in EndsValue

EndValue ==
  /\ Top.fn = "value" /\ AtEndOfValue
  /\ Becomes(Return(Concat(Top.nodes), at))

\* Blanks before another part of the value are a part themselves.
ReadSingleValue ==
  /\ Top.fn = "value" /\ ~AtEndOfValue
  /\ Becomes(LET i == IF Top.nodes = <<>> THEN Here ELSE at
                 token == Current(tokens, i)
                 blanks == IF PrecedingSpace(token) /\ Top.nodes # <<>>
                           THEN <<Separator(token.ws)>> ELSE <<>>
                 With(nodes) == SetTop([Top EXCEPT !.nodes = @ \o blanks \o nodes])
             IN CASE token.type = "{" -> Goto(i + 1, Append(With(<<>>), FieldsFrame(TRUE)))
                  [] token.type = "[" -> Goto(i + 1, Append(With(<<>>), ArrayFrame))
                  [] token.type = "Subst" -> Goto(i + 1, With(<<Subst(token)>>))
                  [] token.type \in KeyPart ->
                       Goto(i + 1, With(<<Scalar(token.value, ScalarType[token.type])>>))
                  [] OTHER -> Stop(Refused))

ReadArray ==
  /\ Top.fn = "array"
  /\ Becomes(CASE Type(Here) = "]" -> Return(Array(Top.elements), Here + 1)
               [] Type(Here) = "EOF" -> Stop(Refused)
               [] OTHER -> Goto(Here, Append(stack, ValueFrame)))

-----------------------------------------------------------------------------
Parse(src) ==
  /\ text = src
  /\ tokens = Tokenize(src)
  /\ at = 1
  /\ stack = <<RootFrame>>
  /\ result = Parsing

Next ==
  /\ result = Parsing
  /\ \/ parseRoot \/ EndOfRootArray
     \/ EndObject \/ ReadInclude \/ ReadField
     \/ EndValue \/ ReadSingleValue \/ ReadArray
=============================================================================
