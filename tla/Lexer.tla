-------------------------------- MODULE Lexer --------------------------------
(***************************************************************************)
(* internal/lexer: a text becomes a sequence of tokens.                    *)
(*                                                                         *)
(* A text is a sequence of characters.  A word that means something to the *)
(* lexer or the parser (true, null, include, file, ...) is one character,  *)
(* "LF" is the newline, "message" stands for the text of an error.  Lines, *)
(* columns and \uXXXX are left out.                                        *)
(***************************************************************************)
EXTENDS SequencesExt, Naturals

Digits == {"0", "1"}
NumberRun == Digits \cup {".", "-", "+", "e"}
Blank == {" ", "TAB", "NBSP"}                 \* HOCON whitespace but LF
AsciiBlank == {" ", "TAB"}
Bool == {"true", "false"}
Escape == [c \in {"n", "\"", "\\"} |-> IF c = "n" THEN "LF" ELSE c]
Punctuation == [c \in {"{", "}", "[", "]", ",", ":", "="} |-> c]
Forbidden == Blank \cup DOMAIN Punctuation
             \cup {"LF", "$", "\"", "+", "#", "\\", "?", "*"}
ForbiddenInSubst == Forbidden \cup {"."}

-----------------------------------------------------------------------------
(* Places in a text *)

At(text, i) == IF i <= Len(text) THEN text[i] ELSE "EOF"
From(text, i) == SubSeq(text, i, Len(text))

\* The first place that is not, or is, one of the characters.
RECURSIVE EndOf(_, _, _), Find(_, _, _)
EndOf(text, i, chars) == IF At(text, i) \in chars THEN EndOf(text, i + 1, chars) ELSE i
Find(text, i, chars) ==
  IF i > Len(text) THEN i ELSE IF text[i] \in chars THEN i ELSE Find(text, i + 1, chars)

\* The texts between the separators: one more than there are separators.
RECURSIVE Split(_, _)
Split(text, separator) ==
  LET end == Find(text, 1, {separator}) IN
  IF end > Len(text) THEN <<text>>
  ELSE <<SubSeq(text, 1, end - 1)>> \o Split(From(text, end + 1), separator)

IsComment(text, i) ==
  \/ At(text, i) = "#"
  \/ At(text, i) = "/" /\ At(text, i + 1) = "/"

Token(type, value) == [type |-> type, value |-> value, quoted |-> FALSE]
Lexed(token, next) == [token |-> token, next |-> next]
Error(next) == Lexed(Token("Error", <<"message">>), next)

-----------------------------------------------------------------------------
(* skipWhitespaceAndComments: the place of the next token, and the blanks. *)

RECURSIVE Skip(_, _, _)
Skip(text, i, ws) ==
  IF At(text, i) \in Blank THEN Skip(text, i + 1, Append(ws, text[i]))
  ELSE IF IsComment(text, i)
  THEN Skip(text, Find(text, i, {"LF"}), ws)
  ELSE [next |-> i, ws |-> ws]

-----------------------------------------------------------------------------
(* Unquoted text and numbers *)

\* readUnquoted stops at a forbidden character or where a comment begins.
RECURSIVE UnquotedEnd(_, _)
UnquotedEnd(text, i) ==
  IF At(text, i) \in Forbidden \cup {"EOF"} \/ IsComment(text, i) THEN i
  ELSE UnquotedEnd(text, i + 1)

readUnquoted(text, from, i) ==
  LET stop == UnquotedEnd(text, i) IN
  Lexed(Token("String", SubSeq(text, from, stop - 1)), stop)

Keyword(word) ==
  CASE word \in Bool -> "Bool"
    [] word = "null" -> "Null"
    [] word = "include" -> "Include"
    [] OTHER -> "String"

readUnquotedOrKeyword(text, i) ==
  LET read == readUnquoted(text, i, i)
      word == read.token.value
  IN IF word = <<>> THEN Error(i + 1)
     ELSE IF Len(word) = 1 THEN Lexed(Token(Keyword(word[1]), word), read.next)
     ELSE read

AllDigits(s) == \A k \in DOMAIN s : s[k] \in Digits
TrimHead(s, signs) == IF s # <<>> /\ Head(s) \in signs THEN Tail(s) ELSE s

Mantissa(s) ==
  /\ \A k \in DOMAIN s : s[k] \in Digits \cup {"."}
  /\ \A j, k \in DOMAIN s : s[j] = "." /\ s[k] = "." => j = k
  /\ \E k \in DOMAIN s : s[k] \in Digits

Exponent(s) ==
  s # <<>> => /\ Head(s) = "e"
              /\ TrimHead(Tail(s), {"+", "-"}) # <<>>
              /\ AllDigits(TrimHead(Tail(s), {"+", "-"}))

\* numberRunType
NumberType(run) ==
  LET body == TrimHead(run, {"-"}) IN
  IF \A k \in 0..Len(body) : ~Mantissa(SubSeq(body, 1, k)) \/ ~Exponent(From(body, k + 1))
  THEN "none"
  ELSE IF AllDigits(body) THEN "Int" ELSE "Float"

readNumber(text, i) ==
  LET stop == EndOf(text, i, NumberRun)
      run == SubSeq(text, i, stop - 1)
  IN IF NumberType(run) # "none" THEN Lexed(Token(NumberType(run), run), stop)
     ELSE IF Contains(run, "+") THEN Error(stop)
     ELSE readUnquoted(text, i, stop)

-----------------------------------------------------------------------------
(* Quoted text *)

Quoted(value, next) ==
  Lexed([type |-> "String", value |-> value, quoted |-> TRUE], next)

RECURSIVE readQuotedStringBody(_, _, _)
readQuotedStringBody(text, i, body) ==
  CASE At(text, i) \in {"EOF", "LF"} -> Error(i)
    [] At(text, i) = "\"" -> Quoted(body, i + 1)
    [] At(text, i) = "\\" ->
         IF At(text, i + 1) = "EOF" THEN Error(i + 1)
         ELSE IF text[i + 1] \notin DOMAIN Escape THEN Error(i + 2)
         ELSE readQuotedStringBody(text, i + 2, Append(body, Escape[text[i + 1]]))
    [] OTHER -> readQuotedStringBody(text, i + 1, Append(body, text[i]))

\* Of a run of three or more quotes the last three close the string.
RECURSIVE readTripleQuoted(_, _, _)
readTripleQuoted(text, i, body) ==
  LET stop == EndOf(text, i, {"\""}) IN
  CASE At(text, i) = "EOF" -> Error(i)
    [] stop >= i + 3 -> Quoted(body \o SubSeq(text, i, stop - 4), stop)
    [] stop > i -> readTripleQuoted(text, stop, body \o SubSeq(text, i, stop - 1))
    [] OTHER -> readTripleQuoted(text, i + 1, Append(body, text[i]))

readString(text, i) ==
  IF At(text, i + 1) = "\"" /\ At(text, i + 2) = "\""
  THEN readTripleQuoted(text, i + 3, <<>>)
  ELSE readQuotedStringBody(text, i + 1, <<>>)

-----------------------------------------------------------------------------
(* The body of ${...}: the segments read so far, the one being read (a      *)
(* sequence of one text, or none), and the blanks since its last character. *)

Joined(segments) ==
  FlattenSeq([k \in DOMAIN segments |-> IF k = 1 THEN segments[k] ELSE <<".">> \o segments[k]])

Substitution(state, list, next) ==
  LET segments == state.segments \o state.current IN
  Lexed(Token("Subst", Joined(segments)) @@
        [segments |-> segments, optional |-> state.optional, list |-> list], next)

\* Mutant: blanks inside a segment are dropped.
ExtendedTight(state, more) ==
  [state EXCEPT !.ws = <<>>, !.current = IF @ = <<>> THEN <<more>> ELSE << @[1] \o more >>]

Extended(state, more) ==
  [state EXCEPT !.ws = <<>>,
     !.current = IF @ = <<>> THEN <<more>> ELSE << @[1] \o state.ws \o more >>]

\* A closed path: an empty last segment is an error.
Closed(state, i) ==
  IF state.current = <<>> THEN Error(i) ELSE Substitution(state, FALSE, i)

ListSuffix(text, i, state) ==
  CASE state.current = <<>> \/ ~(Range(state.ws) \subseteq AsciiBlank) -> Error(i)
    [] At(text, i + 1) # "]" -> Error(i + 1)
    [] At(text, i + 2) # "}" -> Error(i + 2)
    [] OTHER -> Substitution(state, TRUE, i + 3)

RECURSIVE parseSubstBody(_, _, _)
parseSubstBody(text, i, state) ==
  LET c == At(text, i) IN
  CASE c \in {"EOF", "LF"} -> Error(i)
    [] c = "}" -> Closed(state, i + 1)
    [] c = "[" -> ListSuffix(text, i, state)
    [] c = "\"" ->
         LET body == readQuotedStringBody(text, i + 1, <<>>) IN
         IF body.token.type = "Error" THEN body
         ELSE parseSubstBody(text, body.next, Extended(state, body.token.value))
    [] c = "." ->
         IF state.current = <<>> THEN Error(i)
         ELSE parseSubstBody(text, i + 1,
                [state EXCEPT !.segments = @ \o state.current, !.current = <<>>, !.ws = <<>>])
    [] c \in Blank -> parseSubstBody(text, i + 1, [state EXCEPT !.ws = Append(@, c)])
    [] c \notin ForbiddenInSubst /\ c # "EOF" ->
         LET stop == Find(text, i, ForbiddenInSubst) IN
         IF c = "-" /\ state.current = <<>> /\ At(text, i + 1) \notin Digits THEN Error(i)
         ELSE parseSubstBody(text, stop, Extended(state, SubSeq(text, i, stop - 1)))
    [] OTHER -> Error(i)

readSubstitution(text, i) ==
  LET optional == At(text, i + 2) = "?"
      empty == [segments |-> <<>>, current |-> <<>>, ws |-> <<>>, optional |-> optional]
  IN IF At(text, i + 1) # "{" THEN Lexed(Token("Invalid", <<>>), i + 1)
     ELSE parseSubstBody(text, IF optional THEN i + 3 ELSE i + 2, empty)

-----------------------------------------------------------------------------
nextToken(text, i) ==
  LET c == At(text, i) IN
  CASE c = "EOF" -> Lexed(Token("EOF", <<>>), i)
    [] c = "LF" -> Lexed(Token("Newline", <<>>), i + 1)
    [] c \in DOMAIN Punctuation -> Lexed(Token(Punctuation[c], <<c>>), i + 1)
    [] c = "+" -> IF At(text, i + 1) = "="
                  THEN Lexed(Token("+=", <<"+", "=">>), i + 2) ELSE Error(i + 1)
    [] c = "$" -> readSubstitution(text, i)
    [] c = "\"" -> readString(text, i)
    [] c = "-" \/ c \in Digits -> readNumber(text, i)
    [] OTHER -> readUnquotedOrKeyword(text, i)

\* Next, with the blanks before the token.
Read(text, i) ==
  LET skipped == Skip(text, i, <<>>)
      lexed == nextToken(text, skipped.next)
  IN Lexed(lexed.token @@ [ws |-> skipped.ws], lexed.next)

\* Every token there is; after the last one Next returns EOF again.
RECURSIVE TokensFrom(_, _)
TokensFrom(text, i) ==
  LET read == Read(text, i) IN
  IF read.token.type = "EOF" THEN <<read.token>>
  ELSE <<read.token>> \o TokensFrom(text, read.next)

Tokenize(text) == TokensFrom(text, 1)
=============================================================================
