------------------------------ MODULE KeyPaths ------------------------------
(***************************************************************************)
(* What a path is, three times: parseKey reads the path of a field from    *)
(* tokens, the lexer reads that of a substitution from characters (Lexer), *)
(* and splitPath reads the argument of a getter from bytes.                *)
(***************************************************************************)
EXTENDS Lexer

\* current: the token the parser looks at.
Current(tokens, i) == tokens[IF i <= Len(tokens) THEN i ELSE Len(tokens)]

RECURSIVE skipNewlines(_, _)
skipNewlines(tokens, i) ==
  IF Current(tokens, i).type = "Newline" THEN skipNewlines(tokens, i + 1) ELSE i

Literal == {"String", "Int", "Float", "Bool", "Null"}
Numeric == {"Int", "Float"}
KeyPart == Literal \cup {"Include"}

PrecedingSpace(token) == token.ws # <<>>
StartsWithDot(token) == token.value # <<>> /\ Head(token.value) = "."
EndsWithDot(token) == token.value # <<>> /\ Last(token.value) = "."
IsUnquoted(token) == token.type = "String" /\ ~token.quoted

-----------------------------------------------------------------------------
(* splitKeySegments: a sequence of texts, or BadPath for an empty element.  *)

BadPath == << <<"bad path">> >>

NonEmpty(piece) == piece # <<>>

splitKeySegments(raw, havePrev) ==
  LET pieces == Split(raw, ".")
      Dropped(k) == (k = 1 /\ havePrev) \/ k = Len(pieces)
  IN IF \E k \in DOMAIN pieces : pieces[k] = <<>> /\ ~Dropped(k) THEN BadPath
     ELSE SelectSeq(pieces, NonEmpty)

-----------------------------------------------------------------------------
(* parseKey                                                                 *)
(* parts: the segments so far.  join: the next token continues the last of  *)
(* them across blanks (spaceConcat).  prefix: blanks after the dot in which  *)
(* the token before it ends (postDotPrefix).                                *)

Key(parts, i) == [ok |-> TRUE, parts |-> parts, next |-> i]
NoKey == [ok |-> FALSE]

Glue(parts, text) == [parts EXCEPT ![Len(parts)] = @ \o text]

\* A quoted token is one piece, dots and all.
QuotedParts(state, token) ==
  IF state.join /\ state.parts # <<>>
  THEN Glue(state.parts, token.ws \o token.value)
  ELSE Append(state.parts, state.prefix \o token.value)

UnquotedParts(state, token, new) ==
  IF state.join /\ state.parts # <<>>
  THEN LET before == Glue(state.parts, token.ws) IN
       IF StartsWithDot(token) \/ new = <<>> THEN before \o new
       ELSE Glue(before, Head(new)) \o Tail(new)
  ELSE IF state.prefix # <<>> /\ StartsWithDot(token)
  THEN Append(state.parts, state.prefix) \o new
  ELSE IF state.prefix # <<>> /\ new # <<>>
  THEN state.parts \o <<state.prefix \o Head(new)>> \o Tail(new)
  ELSE state.parts \o new

\* The blanks between a trailing dot and the part that follows it.
PostDot(token) == IF token.type \in KeyPart THEN token.ws ELSE <<>>

IsConcatTail(token) ==
  /\ token.type \in KeyPart /\ ~token.quoted
  /\ ~PrecedingSpace(token) /\ ~StartsWithDot(token)

\* Adjacent tokens after a number: 123abc is two tokens and one segment.
RECURSIVE ConcatChain(_, _, _)
ConcatChain(tokens, i, parts) ==
  LET tail == Current(tokens, i)
      others == Front(parts)
      merged == splitKeySegments(Last(parts) \o tail.value, others # <<>>)
  IN IF ~IsConcatTail(tail) THEN [parts |-> parts, next |-> i, dot |-> FALSE]
     ELSE IF merged = BadPath THEN [parts |-> BadPath, next |-> i, dot |-> FALSE]
     ELSE IF EndsWithDot(tail) THEN [parts |-> others \o merged, next |-> i + 1, dot |-> TRUE]
     ELSE ConcatChain(tokens, i + 1, others \o merged)

RECURSIVE KeyLoop(_, _, _)

\* Another round of the loop, or the end of the key.
Continue(tokens, i, parts) ==
  LET next == Current(tokens, i)
      dotted == IsUnquoted(next) /\ StartsWithDot(next)
      spaced == PrecedingSpace(next) /\ next.type \in KeyPart
  IN IF dotted \/ spaced
     THEN KeyLoop(tokens, i, [parts |-> parts, join |-> PrecedingSpace(next),
                              prefix |-> <<>>])
     ELSE IF parts = <<>> THEN NoKey ELSE Key(parts, i)

AfterDot(tokens, i, parts) ==
  KeyLoop(tokens, i, [parts |-> parts, join |-> FALSE,
                      prefix |-> PostDot(Current(tokens, i))])

AfterNumber(tokens, i, parts) ==
  LET chain == ConcatChain(tokens, i, parts) IN
  CASE chain.parts = BadPath -> NoKey
    [] chain.dot -> AfterDot(tokens, chain.next, chain.parts)
    [] OTHER -> Continue(tokens, chain.next, chain.parts)

\* Mutant: the dot that ends a key is forgotten.
AfterUnquotedLenient(tokens, i, token, parts) ==
  IF EndsWithDot(token) /\ Current(tokens, i).type \in KeyPart
  THEN AfterDot(tokens, i, parts)
  ELSE IF token.type \in Numeric /\ parts # <<>> THEN AfterNumber(tokens, i, parts)
  ELSE Continue(tokens, i, parts)

AfterUnquoted(tokens, i, token, parts) ==
  IF EndsWithDot(token)
  THEN IF Current(tokens, i).type \in KeyPart THEN AfterDot(tokens, i, parts) ELSE NoKey
  ELSE IF token.type \in Numeric /\ parts # <<>> THEN AfterNumber(tokens, i, parts)
  ELSE Continue(tokens, i, parts)

KeyLoop(tokens, i, state) ==
  LET token == Current(tokens, i)
      new == splitKeySegments(token.value, state.parts # <<>>)
  IN IF token.quoted THEN Continue(tokens, i + 1, QuotedParts(state, token))
     ELSE IF new = BadPath THEN NoKey
     ELSE AfterUnquoted(tokens, i + 1, token, UnquotedParts(state, token, new))

parseKey(tokens, i) ==
  IF Current(tokens, i).type \notin Literal THEN NoKey
  ELSE KeyLoop(tokens, i, [parts |-> <<>>, join |-> FALSE, prefix |-> <<>>])

-----------------------------------------------------------------------------
(* splitPath (config.go) *)

\* After the opening quote: the segment, and what follows its closing quote.
RECURSIVE QuotedSegment(_, _)
QuotedSegment(path, segment) ==
  CASE path = <<>> -> [segment |-> segment, rest |-> <<>>]
    [] Head(path) = "\"" -> [segment |-> segment, rest |-> Tail(path)]
    [] Head(path) = "\\" /\ Len(path) > 1 ->
         QuotedSegment(Tail(Tail(path)), Append(segment, path[2]))
    [] OTHER -> QuotedSegment(Tail(path), Append(segment, Head(path)))

RECURSIVE splitPath(_)
splitPath(path) ==
  LET read == QuotedSegment(Tail(path), <<>>)
      dot == Find(path, 1, {"."})
  IN IF path = <<>> THEN <<>>
     ELSE IF Head(path) = "\""
     THEN <<read.segment>> \o splitPath(TrimHead(read.rest, {"."}))
     ELSE <<SubSeq(path, 1, dot - 1)>> \o splitPath(From(path, dot + 1))
=============================================================================
