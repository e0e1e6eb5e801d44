--------------------------- MODULE EnvTextProofs ----------------------------
(***************************************************************************)
(* The texts of the environment adapter: what toPath, pathKey, sort.Strings *)
(* and the readers of a .env line compute, for any alphabet and any text.  *)
(***************************************************************************)
EXTENDS EnvMount, SequenceTheorems, Induction, TLAPS

(* Strings and their rests.                                                *)

\* What remains of a string after k characters.
LEMMA Rests ==
  ASSUME NEW C, NEW s \in Seq(C), NEW k \in 0 .. Len(s)
  PROVE  /\ After(s, k) \in Seq(C) /\ Len(After(s, k)) = Len(s) - k
         /\ \A i \in 1 .. Len(s) - k : After(s, k)[i] = s[k + i]
BY Shortened DEF After

LEMMA RestOfPrefixed ==
  ASSUME NEW C, NEW s \in Seq(C), NEW t \in Seq(C)
  PROVE  After(s \o t, Len(s)) = t /\ SubSeq(s \o t, 1, Len(s)) = s
<1>1. /\ s \o t \in Seq(C) /\ Len(s \o t) = Len(s) + Len(t) /\ Len(s) \in Nat /\ Len(t) \in Nat
      /\ \A i \in 1 .. Len(s) + Len(t) : (s \o t)[i] = IF i <= Len(s) THEN s[i] ELSE t[i - Len(s)]
  BY ConcatProperties
<1> DEFINE u == s \o t
<1> HIDE DEF u
<1>2. /\ u \in Seq(C) /\ Len(u) = Len(s) + Len(t)
      /\ \A i \in 1 .. Len(s) + Len(t) : u[i] = IF i <= Len(s) THEN s[i] ELSE t[i - Len(s)]
  BY <1>1 DEF u
<1>3. Len(s) \in 0 .. Len(u) /\ Len(u) - Len(s) = Len(t) BY <1>1, <1>2
<1>4. /\ After(u, Len(s)) \in Seq(C) /\ Len(After(u, Len(s))) = Len(t)
      /\ \A i \in 1 .. Len(t) : After(u, Len(s))[i] = u[Len(s) + i]
  <2> DEFINE k == Len(s)
  <2> HIDE DEF k
  <2>1. k \in 0 .. Len(u) BY <1>3 DEF k
  <2>2. /\ After(u, k) \in Seq(C) /\ Len(After(u, k)) = Len(u) - k
        /\ \A i \in 1 .. Len(u) - k : After(u, k)[i] = u[k + i]
    BY <1>2, <2>1, Rests
  <2> QED BY <1>3, <2>2 DEF k
<1>5. \A i \in 1 .. Len(t) : After(u, Len(s))[i] = t[i]
  <2> TAKE i \in 1 .. Len(t)
  <2>1. u[Len(s) + i] = t[(Len(s) + i) - Len(s)]
    <3>1. Len(s) + i \in 1 .. Len(s) + Len(t) /\ ~(Len(s) + i <= Len(s)) BY <1>1
    <3> QED BY <1>2, <3>1
  <2>2. (Len(s) + i) - Len(s) = i BY <1>1
  <2> QED BY <1>4, <2>1, <2>2
<1>6. After(u, Len(s)) = t BY <1>4, <1>5, SeqEqual
<1>7. /\ SubSeq(u, 1, Len(s)) \in Seq(C) /\ Len(SubSeq(u, 1, Len(s))) = Len(s)
      /\ \A i \in 1 .. Len(s) : SubSeq(u, 1, Len(s))[i] = u[i]
  <2>1. \A i \in 1 .. Len(s) : u[i] \in C BY <1>1, <1>2, ElementOfSeq
  <2> QED BY <1>1, <2>1, SubSeqProperties
<1>8. SubSeq(u, 1, Len(s)) = s BY <1>1, <1>2, <1>7, SeqEqual
<1> QED BY <1>6, <1>8 DEF u

LEMMA SplitAfter ==
  ASSUME NEW C, NEW s \in Seq(C), NEW k \in 0 .. Len(s)
  PROVE  s = SubSeq(s, 1, k) \o After(s, k)
<1>1. Len(s) \in Nat OBVIOUS
<1>2. SubSeq(s, 1, k) \o SubSeq(s, k + 1, Len(s)) = SubSeq(s, 1, Len(s))
  <2>1. 1 \in 1 .. Len(s) + 1 /\ k \in 1 - 1 .. Len(s) /\ Len(s) \in k .. Len(s) BY <1>1
  <2> QED BY <2>1, ConcatAdjacentSubSeq
<1>3. SubSeq(s, 1, Len(s)) = s BY SubSeqFull
<1> QED BY <1>2, <1>3 DEF After

LEMMA FirstAlone ==
  ASSUME NEW C, NEW s \in Seq(C), 1 <= Len(s)
  PROVE  SubSeq(s, 1, 1) = <<s[1]>>
<1>1. s[1] \in C BY ElementOfSeq
<1>2. /\ SubSeq(s, 1, 1) \in Seq(C) /\ Len(SubSeq(s, 1, 1)) = 1
      /\ \A i \in 1 .. 1 : SubSeq(s, 1, 1)[i] = s[i]
  <2>1. \A i \in 1 .. 1 : s[i] \in C BY <1>1
  <2> QED BY <2>1, SubSeqProperties
<1>3. <<s[1]>> \in Seq(C) /\ Len(<<s[1]>>) = 1 /\ <<s[1]>>[1] = s[1] BY <1>1
<1>4. \A i \in 1 .. 1 : SubSeq(s, 1, 1)[i] = <<s[1]>>[i] BY <1>2, <1>3
<1> QED BY <1>2, <1>3, <1>4, SeqEqual

\* A string that is not empty is its first character and the rest.
LEMMA HeadAndRest ==
  ASSUME NEW C, NEW s \in Seq(C), s # <<>>
  PROVE  /\ Len(s) \in Nat \ {0} /\ s[1] \in C
         /\ After(s, 1) \in Seq(C) /\ Len(After(s, 1)) = Len(s) - 1
         /\ s = <<s[1]>> \o After(s, 1)
         /\ Tail(s) = After(s, 1)
<1>1. Len(s) \in Nat \ {0} BY EmptySeq
<1>2. s[1] \in C BY <1>1, ElementOfSeq
<1>3. 1 \in 0 .. Len(s) BY <1>1
<1>4. After(s, 1) \in Seq(C) /\ Len(After(s, 1)) = Len(s) - 1 BY <1>3, Rests
<1>5. s = SubSeq(s, 1, 1) \o After(s, 1) BY <1>3, SplitAfter
<1>6. SubSeq(s, 1, 1) = <<s[1]>> BY <1>1, FirstAlone
<1>7. Tail(s) = After(s, 1) BY TailIsSubSeq DEF After
<1> QED BY <1>1, <1>2, <1>4, <1>5, <1>6, <1>7

\* A string with one more character in front.
LEMMA Prefixed ==
  ASSUME NEW C, NEW c \in C, NEW t \in Seq(C)
  PROVE  /\ <<c>> \o t \in Seq(C) /\ <<c>> \o t # <<>>
         /\ Len(<<c>> \o t) = Len(t) + 1
         /\ (<<c>> \o t)[1] = c /\ After(<<c>> \o t, 1) = t
         /\ \A i \in 1 .. Len(t) : (<<c>> \o t)[i + 1] = t[i]
         /\ Head(<<c>> \o t) = c /\ Tail(<<c>> \o t) = t
<1>1. <<c>> \in Seq(C) /\ Len(<<c>>) = 1 /\ <<c>>[1] = c /\ Len(t) \in Nat OBVIOUS
<1> DEFINE u == <<c>> \o t
<1>2. /\ u \in Seq(C) /\ Len(u) = 1 + Len(t)
      /\ \A i \in 1 .. 1 + Len(t) : u[i] = IF i <= 1 THEN <<c>>[i] ELSE t[i - 1]
  <2> DEFINE d == <<c>>
  <2>1. d \in Seq(C) /\ Len(d) = 1 BY <1>1
  <2> HIDE DEF d
  <2>2. /\ d \o t \in Seq(C) /\ Len(d \o t) = Len(d) + Len(t)
        /\ \A i \in 1 .. Len(d) + Len(t) : (d \o t)[i] = IF i <= Len(d) THEN d[i] ELSE t[i - Len(d)]
    BY <2>1, ConcatProperties
  <2>3. /\ d \o t \in Seq(C) /\ Len(d \o t) = 1 + Len(t)
        /\ \A i \in 1 .. 1 + Len(t) : (d \o t)[i] = IF i <= 1 THEN d[i] ELSE t[i - 1]
    BY <2>1, <2>2
  <2> QED BY <2>3 DEF d, u
<1>3. After(u, 1) = t BY <1>1, RestOfPrefixed
<1> HIDE DEF u
<1>4. Len(u) = Len(t) + 1 /\ u # <<>> BY <1>1, <1>2
<1>5. u[1] = c BY <1>1, <1>2
<1>6. \A i \in 1 .. Len(t) : u[i + 1] = t[i] BY <1>1, <1>2
<1>7. Tail(u) = t BY <1>2, <1>3, <1>4, HeadAndRest
<1>8. Head(u) = c BY <1>2, <1>4, <1>5
<1> QED BY <1>2, <1>3, <1>4, <1>5, <1>6, <1>7, <1>8 DEF u

(* What the recursive definitions say.                                     *)

PathOfRest(rest, twoFewer, oneFewer) ==
  IF StartsCut(rest) THEN << <<>> >> \o twoFewer
  ELSE <<<<lower(rest[1])>> \o Head(oneFewer)>> \o Tail(oneFewer)

LEMMA LowerType ==
  \A c \in Characters : lower(c) \in Characters /\ lower(c) \notin DOMAIN Fold
BY AlphabetAssumption DEF lower

LEMMA PathOfRestType ==
  ASSUME NEW C, NEW s \in Seq(C), s # <<>>, \A c \in C : lower(c) \in C,
         NEW p \in Seq(Seq(C)) \ {<<>>}, NEW q \in Seq(Seq(C)) \ {<<>>}
  PROVE  PathOfRest(s, p, q) \in Seq(Seq(C)) \ {<<>>}
<1> DEFINE W == Seq(C)
<1>1. CASE StartsCut(s)
  <2> DEFINE none == <<>>
  <2>1. none \in W OBVIOUS
  <2> HIDE DEF none, W
  <2>2. <<none>> \o p \in Seq(W) /\ <<none>> \o p # <<>> BY <2>1, Prefixed DEF W
  <2> QED BY <1>1, <2>2 DEF PathOfRest, none, W
<1>2. CASE ~StartsCut(s)
  <2>1. s[1] \in C BY HeadAndRest
  <2>2. lower(s[1]) \in C BY <2>1
  <2>3. Head(q) \in W /\ Tail(q) \in Seq(W)
    <3> HIDE DEF W
    <3> QED BY HeadTailProperties DEF W
  <2> DEFINE h == <<lower(s[1])>> \o Head(q)
  <2>4. h \in W BY <2>2, <2>3, Prefixed
  <2> HIDE DEF h, W
  <2>5. <<h>> \o Tail(q) \in Seq(W) /\ <<h>> \o Tail(q) # <<>> BY <2>3, <2>4, Prefixed
  <2> QED BY <1>2, <2>5 DEF PathOfRest, h, W
<1> QED BY <1>1, <1>2

LEMMA ToPathEquation ==
  /\ toPath[<<>>] = << <<>> >>
  /\ \A s \in String \ {<<>>} : toPath[s] = PathOfRest(s, toPath[After(s, 2)], toPath[After(s, 1)])
<1> DEFINE V == Seq(Seq(Characters)) \ {<<>>}
           first == << <<>> >>
           step == [s \in Seq(Characters) \ {<<>>} |-> [q \in V |-> [p \in V |-> PathOfRest(s, p, q)]]]
           Defined(f, rest) == CASE rest = <<>> -> << <<>> >>
                              [] StartsCut(rest) -> << <<>> >> \o f[After(rest, 2)]
                              [] OTHER -> LET path == f[After(rest, 1)]
                                          IN <<<<lower(rest[1])>> \o Head(path)>> \o Tail(path)
<1>1. first \in V OBVIOUS
<1>2. ASSUME NEW s \in Seq(Characters) \ {<<>>}, NEW q \in V, NEW p \in V
      PROVE  PathOfRest(s, p, q) \in V
  BY LowerType, PathOfRestType
<1> HIDE DEF V
<1>3. step \in [Seq(Characters) \ {<<>>} -> [V -> [V -> V]]] BY <1>2
<1>4. \A s \in Seq(Characters) \ {<<>>}, q \in V, p \in V : step[s][q][p] = PathOfRest(s, p, q)
  OBVIOUS
<1> HIDE DEF step, first
<1>5. PICK f : f \in RecursiveOnSeq(Characters, V, first, step) BY <1>1, <1>3, SequenceRecursion
<1>6. f \in [String -> V] BY <1>5 DEF RecursiveOnSeq, String
<1>7. ~StartsCut(<<>>) BY DEF StartsCut, HasPrefix
<1>8. ASSUME NEW g, NEW s \in String
      PROVE  Defined(g, s) = IF s = <<>> THEN << <<>> >> ELSE PathOfRest(s, g[After(s, 2)], g[After(s, 1)])
  BY <1>7 DEF PathOfRest
<1> HIDE DEF Defined
<1>9. ASSUME NEW s \in String PROVE f[s] = Defined(f, s)
  <2>1. CASE s = <<>> BY <1>5, <1>8, <2>1 DEF RecursiveOnSeq, first
  <2>2. CASE s # <<>>
    <3>1. f[s] = step[s][f[SubSeq(s, 2, Len(s))]][f[SubSeq(s, 3, Len(s))]]
      BY <1>5, <2>2 DEF RecursiveOnSeq, String
    <3>2. /\ SubSeq(s, 2, Len(s)) = After(s, 1) /\ SubSeq(s, 3, Len(s)) = After(s, 2)
      BY DEF After
    <3>3. After(s, 1) \in String /\ After(s, 2) \in String
      <4>1. Len(s) \in Nat BY DEF String
      <4> QED BY <4>1 DEF After, String
    <3>4. f[After(s, 1)] \in V /\ f[After(s, 2)] \in V BY <1>6, <3>3
    <3>5. s \in Seq(Characters) \ {<<>>} BY <2>2 DEF String
    <3>6. step[s][f[After(s, 1)]][f[After(s, 2)]] = PathOfRest(s, f[After(s, 2)], f[After(s, 1)])
      BY <1>4, <3>4, <3>5
    <3> QED BY <1>8, <2>2, <3>1, <3>2, <3>6
  <2> QED BY <2>1, <2>2
<1>10. f = [s \in String |-> Defined(f, s)] BY <1>6, <1>9
<1>11. toPath = CHOOSE g : g = [s \in String |-> Defined(g, s)] BY DEF toPath, Defined
<1>12. toPath = [s \in String |-> Defined(toPath, s)] BY <1>10, <1>11, Zenon
<1>13. \A s \in String : toPath[s] = Defined(toPath, s) BY <1>12
<1>14. <<>> \in String BY DEF String
<1> QED BY <1>8, <1>13, <1>14

\* Every character that a definition writes.
Glyphs == Characters \cup {Digit[i] : i \in 1 .. 10} \cup {"_", ":", "LF", "\\", "\"", "n"}

LEMMA StringIsGlyphs == String \subseteq Seq(Glyphs) /\ Seq(String) \subseteq Seq(Seq(Glyphs))
<1>1. Characters \subseteq Glyphs BY DEF Glyphs
<1>2. \A s \in String : s \in Seq(Glyphs)
  <2> HIDE DEF Glyphs, Characters
  <2> QED BY <1>1, SeqMonotonic DEF String
<1>3. \A s \in Seq(String) : s \in Seq(Seq(Glyphs))
  <2> HIDE DEF Glyphs, String
  <2> QED BY <1>2, SeqMonotonic
<1> QED BY <1>2, <1>3

\* The rest of a path.
LEMMA TailOfPath ==
  ASSUME NEW C, NEW path \in Seq(C) \ {<<>>}
  PROVE  path[1] \in C /\ Tail(path) \in Seq(C) /\ Tail(path) = SubSeq(path, 2, Len(path))
         /\ Len(Tail(path)) = Len(path) - 1 /\ Len(path) \in Nat \ {0}
BY HeadAndRest, TailIsSubSeq

LEMMA JoinedEquation ==
  /\ Joined[<<>>] = <<>>
  /\ \A path \in Seq(String) \ {<<>>} :
       Joined[path] = IF Len(path) = 1 THEN path[1]
                      ELSE path[1] \o <<"_", "_">> \o Joined[Tail(path)]
<1> DEFINE V == Seq(Glyphs)
           D == Seq(String)
           first == <<>>
           Join(path, v) == IF Len(path) = 1 THEN path[1] ELSE path[1] \o <<"_", "_">> \o v
           step == [path \in D \ {<<>>} |-> [v \in V |-> [w \in V |-> Join(path, v)]]]
           Defined(f, path) == CASE path = <<>> -> <<>>
                              [] Len(path) = 1 -> path[1]
                              [] OTHER -> path[1] \o <<"_", "_">> \o f[Tail(path)]
<1>1. first \in V OBVIOUS
<1>2. ASSUME NEW path \in D \ {<<>>}, NEW v \in V PROVE Join(path, v) \in V
  <2>1. path[1] \in V BY TailOfPath, StringIsGlyphs
  <2>2. <<"_", "_">> \in V
    <3>1. "_" \in Glyphs BY DEF Glyphs
    <3> HIDE DEF Glyphs
    <3>2. \A x \in Glyphs : <<x, x>> \in Seq(Glyphs) OBVIOUS
    <3> QED BY <3>1, <3>2
  <2> HIDE DEF V
  <2>3. path[1] \o <<"_", "_">> \in V BY <2>1, <2>2, ConcatProperties DEF V
  <2>4. (path[1] \o <<"_", "_">>) \o v \in V BY <2>3, ConcatProperties DEF V
  <2> QED BY <2>1, <2>4
<1> HIDE DEF V, Join
<1>3. step \in [D \ {<<>>} -> [V -> [V -> V]]] BY <1>2
<1>4. \A path \in D \ {<<>>}, v \in V, w \in V : step[path][v][w] = Join(path, v) OBVIOUS
<1> HIDE DEF step, first
<1>5. PICK f : f \in RecursiveOnSeq(String, V, first, step) BY <1>1, <1>3, SequenceRecursion
<1>6. f \in [D -> V] BY <1>5 DEF RecursiveOnSeq
<1>7. ASSUME NEW g, NEW path \in D
      PROVE  Defined(g, path) = IF path = <<>> THEN <<>> ELSE Join(path, g[Tail(path)])
  <2>1. Len(<<>>) = 0 OBVIOUS
  <2>2. CASE path = <<>> BY <2>1, <2>2
  <2>3. CASE path # <<>> /\ Len(path) = 1 BY <2>3 DEF Join
  <2>4. CASE path # <<>> /\ Len(path) # 1 BY <2>4 DEF Join
  <2> QED BY <2>2, <2>3, <2>4
<1> HIDE DEF Defined, D
<1>8. ASSUME NEW path \in D PROVE f[path] = Defined(f, path)
  <2>1. CASE path = <<>> BY <1>5, <1>7, <2>1 DEF RecursiveOnSeq, first
  <2>2. CASE path # <<>>
    <3>1. f[path] = step[path][f[SubSeq(path, 2, Len(path))]][f[SubSeq(path, 3, Len(path))]]
      BY <1>5, <2>2 DEF RecursiveOnSeq, D
    <3>2. Tail(path) = SubSeq(path, 2, Len(path)) /\ Tail(path) \in D
      BY <2>2, TailOfPath DEF D
    <3>3. SubSeq(path, 3, Len(path)) \in D
      <4>1. Len(path) \in Nat BY DEF D
      <4> QED BY <4>1 DEF D
    <3>4. f[Tail(path)] \in V /\ f[SubSeq(path, 3, Len(path))] \in V BY <1>6, <3>2, <3>3
    <3>5. path \in D \ {<<>>} BY <2>2
    <3>6. step[path][f[Tail(path)]][f[SubSeq(path, 3, Len(path))]] = Join(path, f[Tail(path)])
      BY <1>4, <3>4, <3>5
    <3>7. f[path] = Join(path, f[Tail(path)]) BY <3>1, <3>2, <3>6
    <3> QED BY <1>7, <2>2, <3>7
  <2> QED BY <2>1, <2>2
<1>9. f = [path \in D |-> Defined(f, path)] BY <1>6, <1>8
<1>10. Joined = CHOOSE g : g = [path \in D |-> Defined(g, path)] BY DEF Joined, Defined, D
<1>11. Joined = [path \in D |-> Defined(Joined, path)] BY <1>9, <1>10, Zenon
<1>12. \A path \in D : Joined[path] = Defined(Joined, path) BY <1>11
<1>13. <<>> \in D BY DEF D
<1> QED BY <1>7, <1>12, <1>13 DEF D, Join

LEMMA JoinedType ==
  \A path \in Seq(String) : Joined[path] \in Seq(Glyphs)
<1> DEFINE S == {path \in Seq(String) : Joined[path] \in Seq(Glyphs)}
           D == String
           V == Seq(Glyphs)
           us == <<"_", "_">>
<1>1. us \in V
  <2>1. "_" \in Glyphs BY DEF Glyphs
  <2> HIDE DEF Glyphs
  <2>2. \A x \in Glyphs : <<x, x>> \in Seq(Glyphs) OBVIOUS
  <2> QED BY <2>1, <2>2
<1>2. <<>> \in V OBVIOUS
<1>3. ASSUME NEW path \in Seq(D), \A t \in Seq(D) : Len(t) < Len(path) => t \in S PROVE path \in S
  <2>1. CASE path = <<>> BY <1>2, <2>1, JoinedEquation
  <2>2. CASE path # <<>>
    <3>1. path[1] \in String /\ Tail(path) \in Seq(D) /\ Len(Tail(path)) = Len(path) - 1
           /\ Len(path) \in Nat \ {0}
      BY <2>2, TailOfPath
    <3>2. path[1] \in V /\ Joined[Tail(path)] \in V
      <4>1. Len(Tail(path)) < Len(path) BY <3>1
      <4>2. Tail(path) \in S BY <1>3, <3>1, <4>1
      <4> QED BY <3>1, <4>2, StringIsGlyphs
    <3> HIDE DEF V, us
    <3>3. (path[1] \o us) \o Joined[Tail(path)] \in V
      <4>1. path[1] \o us \in V BY <1>1, <3>2, ConcatProperties DEF V
      <4> QED BY <3>2, <4>1, ConcatProperties DEF V
    <3>4. Joined[path] = IF Len(path) = 1 THEN path[1] ELSE (path[1] \o us) \o Joined[Tail(path)]
      BY <2>2, JoinedEquation DEF us
    <3>5. Joined[path] \in V BY <3>2, <3>3, <3>4
    <3> QED BY <3>5 DEF V
  <2> QED BY <2>1, <2>2
<1> HIDE DEF S, D
<1>4. \A path \in Seq(D) : path \in S BY <1>3, ShorterInSet
<1> QED BY <1>4 DEF S, D

LEMMA UnescapedEquation ==
  \A v \in String :
    unescaped[v] =
      CASE v = <<>> -> Bad
        [] v # <<>> /\ v[1] = "\"" -> IfBlank(After(v, 1), <<>>)
        [] v # <<>> /\ v[1] = "\\" -> IF Len(v) > 1 /\ v[2] \in DOMAIN Escaped
                                      THEN Prepend(Escaped[v[2]], unescaped[After(v, 2)])
                                      ELSE Bad
        [] OTHER -> Prepend(v[1], unescaped[After(v, 1)])
<1> DEFINE V == {Bad} \cup {Good(t) : t \in Seq(Glyphs)}
           first == Bad
           Read1(v, two, one) ==
             IF v[1] = "\"" THEN IfBlank(After(v, 1), <<>>)
             ELSE IF v[1] = "\\" THEN IF Len(v) > 1 /\ v[2] \in DOMAIN Escaped
                                      THEN Prepend(Escaped[v[2]], two) ELSE Bad
             ELSE Prepend(v[1], one)
           step == [v \in String \ {<<>>} |-> [one \in V |-> [two \in V |-> Read1(v, two, one)]]]
           Defined(f, v) == CASE v = <<>> -> Bad
                           [] v # <<>> /\ v[1] = "\"" -> IfBlank(After(v, 1), <<>>)
                           [] v # <<>> /\ v[1] = "\\" ->
                                IF Len(v) > 1 /\ v[2] \in DOMAIN Escaped
                                THEN Prepend(Escaped[v[2]], f[After(v, 2)])
                                ELSE Bad
                           [] OTHER -> Prepend(v[1], f[After(v, 1)])
<1>1. first \in V OBVIOUS
<1>2. ASSUME NEW c \in Glyphs, NEW r \in V PROVE Prepend(c, r) \in V
  <2>1. CASE r = Bad BY <2>1 DEF Prepend, Bad
  <2>2. CASE r # Bad
    <3>1. PICK t \in Seq(Glyphs) : r = Good(t) BY <2>2
    <3>2. Prepend(c, r) = Good(<<c>> \o t) BY <3>1 DEF Prepend, Good
    <3>3. <<c>> \o t \in Seq(Glyphs)
      <4> HIDE DEF Glyphs
      <4> QED BY Prefixed
    <3> QED BY <3>2, <3>3
  <2> QED BY <2>1, <2>2
<1>3. ASSUME NEW v \in String \ {<<>>}, NEW two \in V, NEW one \in V
      PROVE  Read1(v, two, one) \in V
  <2>1. IfBlank(After(v, 1), <<>>) \in V
    <3>1. <<>> \in Seq(Glyphs) OBVIOUS
    <3>2. IfBlank(After(v, 1), <<>>) \in {Good(<<>>), Bad} BY DEF IfBlank
    <3> QED BY <3>1, <3>2
  <2>2. v[1] \in Glyphs BY HeadAndRest DEF String, Glyphs
  <2>3. Prepend(v[1], one) \in V BY <1>2, <2>2
  <2>4. v[2] \in DOMAIN Escaped => Escaped[v[2]] \in Glyphs BY DEF Escaped, Glyphs
  <2>5. v[2] \in DOMAIN Escaped => Prepend(Escaped[v[2]], two) \in V BY <1>2, <2>4
  <2>6. Bad \in V OBVIOUS
  <2> HIDE DEF V
  <2> QED BY <2>1, <2>3, <2>5, <2>6
<1> HIDE DEF V, Read1
<1>4. step \in [String \ {<<>>} -> [V -> [V -> V]]] BY <1>3
<1>5. \A v \in String \ {<<>>}, one \in V, two \in V : step[v][one][two] = Read1(v, two, one)
  OBVIOUS
<1> HIDE DEF step, first
<1>6. PICK f : f \in RecursiveOnSeq(Characters, V, first, step)
  BY <1>1, <1>4, SequenceRecursion DEF String
<1>7. f \in [String -> V] BY <1>6 DEF RecursiveOnSeq, String
<1>8. ASSUME NEW g, NEW v \in String
      PROVE  Defined(g, v) = IF v = <<>> THEN Bad ELSE Read1(v, g[After(v, 2)], g[After(v, 1)])
  BY DEF Read1
<1> HIDE DEF Defined
<1>9. ASSUME NEW v \in String PROVE f[v] = Defined(f, v)
  <2>1. CASE v = <<>> BY <1>6, <1>8, <2>1 DEF RecursiveOnSeq, first
  <2>2. CASE v # <<>>
    <3>1. f[v] = step[v][f[SubSeq(v, 2, Len(v))]][f[SubSeq(v, 3, Len(v))]]
      BY <1>6, <2>2 DEF RecursiveOnSeq, String
    <3>2. /\ SubSeq(v, 2, Len(v)) = After(v, 1) /\ SubSeq(v, 3, Len(v)) = After(v, 2)
      BY DEF After
    <3>3. After(v, 1) \in String /\ After(v, 2) \in String
      <4>1. Len(v) \in Nat BY DEF String
      <4> QED BY <4>1 DEF After, String
    <3>4. f[After(v, 1)] \in V /\ f[After(v, 2)] \in V BY <1>7, <3>3
    <3>5. v \in String \ {<<>>} BY <2>2
    <3>6. step[v][f[After(v, 1)]][f[After(v, 2)]] = Read1(v, f[After(v, 2)], f[After(v, 1)])
      BY <1>5, <3>4, <3>5
    <3>7. f[v] = Read1(v, f[After(v, 2)], f[After(v, 1)]) BY <3>1, <3>2, <3>6
    <3> QED BY <1>8, <2>2, <3>7
  <2> QED BY <2>1, <2>2
<1>10. f = [v \in String |-> Defined(f, v)] BY <1>7, <1>9
<1>11. unescaped = CHOOSE g : g = [v \in String |-> Defined(g, v)] BY DEF unescaped, Defined
<1>12. unescaped = [v \in String |-> Defined(unescaped, v)] BY <1>10, <1>11, Zenon
<1>13. \A v \in String : unescaped[v] = Defined(unescaped, v) BY <1>12
<1> QED BY <1>13 DEF Defined

(* Paths and the names that spell them.                                    *)

LEMMA CutStarts ==
  ASSUME NEW C, NEW s \in Seq(C)
  PROVE  StartsCut(s) <=> 2 <= Len(s) /\ s[1] = "_" /\ s[2] = "_"
<1>1. Len(s) \in Nat OBVIOUS
<1>2. ASSUME 2 <= Len(s) PROVE SubSeq(s, 1, 2) = <<"_", "_">> <=> s[1] = "_" /\ s[2] = "_"
  <2>1. \A i \in 1 .. 2 : s[i] \in C BY <1>1, <1>2, ElementOfSeq
  <2>2. /\ SubSeq(s, 1, 2) \in Seq(C) /\ Len(SubSeq(s, 1, 2)) = 2
        /\ \A i \in 1 .. 2 : SubSeq(s, 1, 2)[i] = s[i]
    BY <2>1, SubSeqProperties
  <2> DEFINE u == SubSeq(s, 1, 2)
             us == <<"_", "_">>
  <2>3. Len(us) = 2 /\ us[1] = "_" /\ us[2] = "_" OBVIOUS
  <2>4. ASSUME s[1] = "_", s[2] = "_" PROVE u = us
    <3>1. us \in Seq(C)
      <4>1. "_" \in C
        <5>1. 1 \in 1 .. 2 OBVIOUS
        <5> QED BY <2>1, <2>4, <5>1
      <4>2. \A x \in C : <<x, x>> \in Seq(C) OBVIOUS
      <4> QED BY <4>1, <4>2
    <3>2. \A i \in 1 .. 2 : i = 1 \/ i = 2 OBVIOUS
    <3>3. \A i \in 1 .. 2 : u[i] = us[i] BY <2>2, <2>3, <2>4, <3>2
    <3> HIDE DEF u, us
    <3> QED BY <2>2, <2>3, <3>1, <3>3, SeqEqual DEF u
  <2>5. 1 \in 1 .. 2 /\ 2 \in 1 .. 2 OBVIOUS
  <2> QED BY <2>2, <2>3, <2>4, <2>5
<1>3. Len(<<"_", "_">>) = 2 OBVIOUS
<1> QED BY <1>1, <1>2, <1>3 DEF StartsCut, HasPrefix

\* Two characters in front are one in front of the other.
LEMMA TwoPrefixed ==
  ASSUME NEW C, NEW c \in C, NEW d \in C, NEW u \in Seq(C)
  PROVE  <<c, d>> \o u = <<c>> \o (<<d>> \o u)
<1> DEFINE cc == <<c>>
           dd == <<d>>
           cd == <<c, d>>
<1>1. cc \in Seq(C) /\ dd \in Seq(C) /\ cd \in Seq(C) OBVIOUS
<1>2. cd = cc \o dd
  <2>1. /\ cc \o dd \in Seq(C) /\ Len(cc \o dd) = 2
        /\ (cc \o dd)[1] = c /\ (cc \o dd)[2] = d
    <3>1. Len(cc) = 1 /\ Len(dd) = 1 /\ cc[1] = c /\ dd[1] = d OBVIOUS
    <3> HIDE DEF cc, dd
    <3>2. /\ cc \o dd \in Seq(C) /\ Len(cc \o dd) = Len(cc) + Len(dd)
          /\ \A i \in 1 .. Len(cc) + Len(dd) :
               (cc \o dd)[i] = IF i <= Len(cc) THEN cc[i] ELSE dd[i - Len(cc)]
      BY <1>1, ConcatProperties
    <3> QED BY <3>1, <3>2
  <2>2. Len(cd) = 2 /\ cd[1] = c /\ cd[2] = d OBVIOUS
  <2>3. \A i \in 1 .. 2 : i = 1 \/ i = 2 OBVIOUS
  <2> HIDE DEF cc, dd, cd
  <2>4. \A i \in 1 .. 2 : cd[i] = (cc \o dd)[i] BY <2>1, <2>2, <2>3
  <2> QED BY <1>1, <2>1, <2>2, <2>4, SeqEqual
<1> HIDE DEF cc, dd, cd
<1>3. (cc \o dd) \o u = cc \o (dd \o u) BY <1>1, ConcatAssociative
<1> QED BY <1>2, <1>3 DEF cc, dd, cd

LEMMA Associative ==
  ASSUME NEW C
  PROVE  \A s, t, u \in Seq(C) : (s \o t) \o u = s \o (t \o u)
BY ConcatAssociative

\* A character doubled in front of any text.
LEMMA Doubled ==
  ASSUME NEW C
  PROVE  \A c \in C, u \in Seq(C) : <<c, c>> \o u = <<c>> \o (<<c>> \o u)
<1>1. ASSUME NEW c \in C, NEW u \in Seq(C) PROVE <<c, c>> \o u = <<c>> \o (<<c>> \o u)
  BY TwoPrefixed
<1> QED BY <1>1

LEMMA CutSplits ==
  ASSUME NEW C, NEW s \in Seq(C), StartsCut(s)
  PROVE  /\ After(s, 2) \in Seq(C) /\ Len(After(s, 2)) = Len(s) - 2 /\ 2 <= Len(s)
         /\ Len(s) \in Nat /\ "_" \in C
         /\ s = <<"_">> \o (<<"_">> \o After(s, 2))
<1>0. Len(s) \in Nat OBVIOUS
<1>1. 2 <= Len(s) BY CutStarts
<1>2. 2 \in 0 .. Len(s) /\ 1 \in 1 .. Len(s) BY <1>0, <1>1
<1>3. After(s, 2) \in Seq(C) /\ Len(After(s, 2)) = Len(s) - 2 BY <1>2, Rests
<1>4. s = SubSeq(s, 1, 2) \o After(s, 2) BY <1>2, SplitAfter
<1>5. SubSeq(s, 1, 2) = <<"_", "_">> BY DEF StartsCut, HasPrefix
<1>6. "_" \in C
  <2>1. s[1] \in C BY <1>2, ElementOfSeq
  <2>2. s[1] = "_" BY CutStarts
  <2> QED BY <2>1, <2>2
<1>7. \A c \in C : <<c, c>> \o After(s, 2) = <<c>> \o (<<c>> \o After(s, 2)) BY <1>3, Doubled
<1> QED BY <1>0, <1>1, <1>3, <1>4, <1>5, <1>6, <1>7

LEMMA LowerText ==
  ASSUME NEW C, NEW s \in Seq(C), \A c \in C : lower(c) \in C
  PROVE  /\ lowerASCII(s) \in Seq(C) /\ Len(lowerASCII(s)) = Len(s)
         /\ \A i \in 1 .. Len(s) : lowerASCII(s)[i] = lower(s[i])
<1>1. Len(s) \in Nat /\ \A i \in 1 .. Len(s) : s[i] \in C BY ElementOfSeq
<1> HIDE DEF lower
<1> QED BY <1>1 DEF lowerASCII

LEMMA LowerPrefixed ==
  ASSUME NEW C, NEW c \in C, NEW t \in Seq(C), \A x \in C : lower(x) \in C
  PROVE  lowerASCII(<<c>> \o t) = <<lower(c)>> \o lowerASCII(t)
<1> DEFINE u == <<c>> \o t
           v == <<lower(c)>> \o lowerASCII(t)
<1>1. /\ u \in Seq(C) /\ Len(u) = Len(t) + 1 /\ u[1] = c /\ Len(t) \in Nat
      /\ \A i \in 1 .. Len(t) : u[i + 1] = t[i]
  BY Prefixed
<1>2. /\ lowerASCII(t) \in Seq(C) /\ Len(lowerASCII(t)) = Len(t)
      /\ \A i \in 1 .. Len(t) : lowerASCII(t)[i] = lower(t[i])
  BY LowerText
<1>3. /\ v \in Seq(C) /\ Len(v) = Len(t) + 1 /\ v[1] = lower(c)
      /\ \A i \in 1 .. Len(t) : v[i + 1] = lowerASCII(t)[i]
  <2>1. lower(c) \in C OBVIOUS
  <2> HIDE DEF lower, lowerASCII
  <2> QED BY <1>2, <2>1, Prefixed
<1> HIDE DEF u, v
<1>4. /\ lowerASCII(u) \in Seq(C) /\ Len(lowerASCII(u)) = Len(u)
      /\ \A i \in 1 .. Len(u) : lowerASCII(u)[i] = lower(u[i])
  BY <1>1, LowerText
<1>5. ASSUME NEW i \in 1 .. Len(t) + 1 PROVE lowerASCII(u)[i] = v[i]
  <2>1. CASE i = 1 BY <1>1, <1>3, <1>4, <2>1
  <2>2. CASE i # 1
    <3>1. i - 1 \in 1 .. Len(t) /\ (i - 1) + 1 = i BY <1>1, <2>2
    <3>2. u[i] = t[i - 1] /\ v[i] = lower(t[i - 1])
      <4>1. u[(i - 1) + 1] = t[i - 1] BY <1>1, <3>1
      <4>2. v[(i - 1) + 1] = lowerASCII(t)[i - 1] BY <1>3, <3>1
      <4>3. lowerASCII(t)[i - 1] = lower(t[i - 1]) BY <1>2, <3>1
      <4> QED BY <3>1, <4>1, <4>2, <4>3
    <3> QED BY <1>1, <1>4, <3>2
  <2> QED BY <2>1, <2>2
<1>6. lowerASCII(u) = v
  <2> HIDE DEF lowerASCII
  <2> QED BY <1>1, <1>3, <1>4, <1>5, SeqEqual
<1> QED BY <1>6 DEF u, v

\* A path has a segment, and every segment is a text over the same characters.
LEMMA ToPathType ==
  ASSUME NEW C, C \subseteq Characters, \A c \in C : lower(c) \in C
  PROVE  \A s \in Seq(C) : toPath[s] \in Seq(Seq(C)) \ {<<>>}
<1> DEFINE S == {s \in Seq(C) : toPath[s] \in Seq(Seq(C)) \ {<<>>}}
<1>1. \A s \in Seq(C) : s \in String
  <2> HIDE DEF Characters
  <2> QED BY SeqMonotonic DEF String
<1>2. ASSUME NEW s \in Seq(C), \A t \in Seq(C) : Len(t) < Len(s) => t \in S PROVE s \in S
  <2>1. CASE s = <<>>
    <3>1. << <<>> >> \in Seq(Seq(C)) \ {<<>>} OBVIOUS
    <3> QED BY <2>1, <3>1, ToPathEquation
  <2>2. CASE s # <<>>
    <3>1. After(s, 1) \in Seq(C) /\ Len(After(s, 1)) = Len(s) - 1 /\ Len(s) \in Nat \ {0}
      BY <2>2, HeadAndRest
    <3>2. toPath[After(s, 1)] \in Seq(Seq(C)) \ {<<>>} BY <1>2, <3>1
    <3>3. toPath[s] = PathOfRest(s, toPath[After(s, 2)], toPath[After(s, 1)])
      BY <1>1, <2>2, ToPathEquation
    <3>4. CASE StartsCut(s)
      <4>3. After(s, 2) \in Seq(C) /\ Len(After(s, 2)) = Len(s) - 2 BY <3>4, CutSplits
      <4>4. toPath[After(s, 2)] \in Seq(Seq(C)) \ {<<>>} BY <1>2, <3>1, <4>3
      <4>5. PathOfRest(s, toPath[After(s, 2)], toPath[After(s, 1)]) \in Seq(Seq(C)) \ {<<>>}
        BY <2>2, <3>2, <4>4, PathOfRestType
      <4> QED BY <3>3, <4>5
    <3>5. CASE ~StartsCut(s)
      <4>1. PathOfRest(s, toPath[After(s, 1)], toPath[After(s, 1)]) \in Seq(Seq(C)) \ {<<>>}
        BY <2>2, <3>2, PathOfRestType
      <4>2. PathOfRest(s, toPath[After(s, 2)], toPath[After(s, 1)])
              = PathOfRest(s, toPath[After(s, 1)], toPath[After(s, 1)])
        BY <3>5 DEF PathOfRest
      <4> QED BY <3>3, <4>1, <4>2
    <3> QED BY <3>4, <3>5
  <2> QED BY <2>1, <2>2
<1> HIDE DEF S
<1>3. \A s \in Seq(C) : s \in S BY <1>2, ShorterInSet
<1> QED BY <1>3 DEF S

\* A character more in the first segment is one in front of the name.
LEMMA JoinedGrows ==
  ASSUME NEW c \in Characters, NEW p \in Seq(String) \ {<<>>}
  PROVE  /\ <<<<c>> \o p[1]>> \o Tail(p) \in Seq(String) \ {<<>>}
         /\ Joined[<<<<c>> \o p[1]>> \o Tail(p)] = <<c>> \o Joined[p]
<1> DEFINE h == <<c>> \o p[1]
           q == <<h>> \o Tail(p)
<1>1. p[1] \in String /\ Tail(p) \in Seq(String) /\ Len(Tail(p)) = Len(p) - 1
       /\ Len(p) \in Nat \ {0}
  BY TailOfPath
<1>2. h \in String BY <1>1, Prefixed DEF String
<1> HIDE DEF h
<1>3. q \in Seq(String) \ {<<>>} /\ Len(q) = Len(Tail(p)) + 1 /\ q[1] = h /\ Tail(q) = Tail(p)
  BY <1>1, <1>2, Prefixed
<1>4. Len(q) = Len(p) BY <1>1, <1>3
<1> HIDE DEF q
<1>5. CASE Len(p) = 1
  <2>1. Joined[q] = h /\ Joined[p] = p[1] BY <1>3, <1>4, <1>5, JoinedEquation
  <2> QED BY <1>3, <2>1 DEF h, q
<1>6. CASE Len(p) # 1
  <2> DEFINE us == <<"_", "_">>
             cc == <<c>>
             p1 == p[1]
             k == h \o us
             m == p[1] \o us
             rest == Joined[Tail(p)]
  <2>1. Joined[q] = k \o rest /\ Joined[p] = m \o rest
    BY <1>3, <1>4, <1>6, JoinedEquation
  <2>2. cc \in Seq(Glyphs) /\ p1 \in Seq(Glyphs)
    <3>1. c \in Glyphs BY DEF Glyphs
    <3> QED BY <1>1, <3>1, StringIsGlyphs
  <2>3. us \in Seq(Glyphs)
    <3>1. "_" \in Glyphs BY DEF Glyphs
    <3>2. \A x \in Glyphs : <<x, x>> \in Seq(Glyphs) OBVIOUS
    <3> QED BY <3>1, <3>2
  <2>4. rest \in Seq(Glyphs) BY <1>1, JoinedType
  <2>5. k = cc \o m /\ m \in Seq(Glyphs)
    <3> HIDE DEF us, cc, p1
    <3>1. (cc \o p1) \o us = cc \o (p1 \o us)
      <4> HIDE DEF h
      <4> QED BY <2>2, <2>3, Associative
    <3>2. p1 \o us \in Seq(Glyphs) BY <2>2, <2>3, ConcatProperties
    <3> QED BY <3>1, <3>2 DEF p1, cc, h
  <2> HIDE DEF us, cc, k, m, rest, p1, h
  <2>6. (cc \o m) \o rest = cc \o (m \o rest)
    <3>1. cc \in Seq(Glyphs) /\ m \in Seq(Glyphs) /\ rest \in Seq(Glyphs) BY <2>2, <2>4, <2>5
    <3> HIDE DEF Glyphs
    <3> QED BY <3>1, Associative
  <2>7. Joined[q] = cc \o Joined[p] BY <2>1, <2>5, <2>6
  <2> QED BY <1>3, <2>7 DEF cc, h, q
<1> QED BY <1>5, <1>6

\* A segment more in front is a cut in front of the name.
LEMMA JoinedCut ==
  ASSUME NEW p \in Seq(String) \ {<<>>}
  PROVE  /\ << <<>> >> \o p \in Seq(String) \ {<<>>}
         /\ Joined[<< <<>> >> \o p] = <<"_", "_">> \o Joined[p]
<1> DEFINE none == <<>>
           us == <<"_", "_">>
           q == <<none>> \o p
<1>1. none \in String BY DEF String
<1>2. none \o us = us OBVIOUS
<1> HIDE DEF none
<1>3. q \in Seq(String) \ {<<>>} /\ Len(q) = Len(p) + 1 /\ q[1] = none /\ Tail(q) = p
  BY <1>1, Prefixed
<1>4. Len(p) \in Nat \ {0} BY EmptySeq
<1> HIDE DEF q
<1>5. q \in Seq(String) \ {<<>>} /\ Len(q) # 1 BY <1>3, <1>4
<1>6. Joined[q] = (none \o us) \o Joined[p] BY <1>3, <1>5, JoinedEquation
<1> QED BY <1>2, <1>5, <1>6 DEF none, us, q

\* The name that spells the path of a name is that name, in lower case.
LEMMA JoinedOfToPath ==
  \A s \in String : Joined[toPath[s]] = lowerASCII(s)
<1> DEFINE S == {s \in String : Joined[toPath[s]] = lowerASCII(s)}
           C == Characters
           none == <<>>
<1>0. \A c \in C : lower(c) \in C BY LowerType
<1>1. \A s \in Seq(C) : toPath[s] \in Seq(String) \ {<<>>}
  <2> HIDE DEF C
  <2> QED BY <1>0, ToPathType DEF C, String
<1>2. none \in String /\ lowerASCII(none) = none BY DEF lowerASCII, String
<1>3. ASSUME NEW s \in Seq(C), \A t \in Seq(C) : Len(t) < Len(s) => t \in S PROVE s \in S
  <2>0. s \in String BY DEF String
  <2>1. CASE s = <<>>
    <3>1. toPath[s] = <<none>> BY <2>1, ToPathEquation
    <3>2. <<none>> \in Seq(String) \ {<<>>} /\ Len(<<none>>) = 1 /\ <<none>>[1] = none BY <1>2
    <3> HIDE DEF none
    <3>3. Joined[<<none>>] = none BY <3>2, JoinedEquation
    <3>4. Joined[toPath[s]] = none BY <3>1, <3>3
    <3> QED BY <1>2, <2>0, <2>1, <3>4 DEF none
  <2>2. CASE s # <<>>
    <3>1. /\ After(s, 1) \in Seq(C) /\ Len(After(s, 1)) = Len(s) - 1 /\ Len(s) \in Nat \ {0}
          /\ s[1] \in C /\ s = <<s[1]>> \o After(s, 1)
      BY <2>2, HeadAndRest
    <3>2. toPath[s] = PathOfRest(s, toPath[After(s, 2)], toPath[After(s, 1)])
      BY <2>0, <2>2, ToPathEquation
    <3>3. CASE StartsCut(s)
      <4> DEFINE u == After(s, 2)
                 t == <<"_">> \o u
      <4>0. u \in Seq(C) /\ Len(u) = Len(s) - 2 BY <3>3, CutSplits
      <4>1. u \in Seq(C) /\ "_" \in C /\ s = <<"_">> \o t BY <3>3, CutSplits
      <4>2. Joined[toPath[u]] = lowerASCII(u)
        <5>1. Len(u) < Len(s) /\ u \in Seq(C) BY <3>1, <4>0
        <5> HIDE DEF u
        <5>2. u \in S BY <1>3, <5>1
        <5> QED BY <5>2
      <4>3. toPath[u] \in Seq(String) \ {<<>>} BY <1>1, <4>1
      <4>4. toPath[s] = << <<>> >> \o toPath[u] BY <3>2, <3>3 DEF PathOfRest
      <4> HIDE DEF C, u
      <4>5. Joined[toPath[s]] = <<"_", "_">> \o lowerASCII(u) BY <4>2, <4>3, <4>4, JoinedCut
      <4>6. lower("_") = "_" BY AlphabetAssumption DEF lower
      <4>7. t \in Seq(C) BY <4>1, Prefixed
      <4>8. lowerASCII(t) = <<lower("_")>> \o lowerASCII(u) BY <1>0, <4>1, LowerPrefixed
      <4> HIDE DEF t
      <4>9. lowerASCII(s) = <<lower("_")>> \o lowerASCII(t) BY <1>0, <4>1, <4>7, LowerPrefixed
      <4>10. lowerASCII(u) \in Seq(C) BY <1>0, <4>1, LowerText
      <4>11. \A c \in C, w \in Seq(C) : <<c, c>> \o w = <<c>> \o (<<c>> \o w) BY Doubled
      <4>12. Joined[toPath[s]] = <<"_">> \o (<<"_">> \o lowerASCII(u)) BY <4>1, <4>5, <4>10, <4>11
      <4>13. lowerASCII(s) = <<"_">> \o (<<"_">> \o lowerASCII(u)) BY <4>6, <4>8, <4>9
      <4> QED BY <2>0, <4>12, <4>13
    <3>4. CASE ~StartsCut(s)
      <4> DEFINE t == After(s, 1)
                 p == toPath[t]
                 c == lower(s[1])
      <4>1. p \in Seq(String) \ {<<>>} BY <1>1, <3>1
      <4>2. Joined[p] = lowerASCII(t) BY <1>3, <3>1
      <4>3. toPath[s] = <<<<c>> \o p[1]>> \o Tail(p)
        <5>1. Head(p) = p[1] BY <4>1
        <5> HIDE DEF p
        <5> QED BY <3>2, <3>4, <5>1 DEF PathOfRest, p
      <4>4. c \in C BY <1>0, <3>1
      <4>5. lowerASCII(s) = <<c>> \o lowerASCII(t)
        <5> HIDE DEF C, t
        <5>1. s = <<s[1]>> \o t BY <3>1 DEF t
        <5>2. t \in Seq(C) BY <3>1 DEF t
        <5> QED BY <1>0, <3>1, <5>1, <5>2, LowerPrefixed
      <4> HIDE DEF p, t, c
      <4>6. Joined[toPath[s]] = <<c>> \o Joined[p] BY <4>1, <4>3, <4>4, JoinedGrows
      <4>7. Joined[toPath[s]] = lowerASCII(s) BY <4>2, <4>5, <4>6
      <4> QED BY <2>0, <4>7
    <3> QED BY <3>3, <3>4
  <2> QED BY <2>1, <2>2
<1> HIDE DEF S, C
<1>4. \A s \in Seq(C) : s \in S BY <1>3, ShorterInSet
<1> QED BY <1>4 DEF S, C, String

\* A text whose lower case begins with a character.
LEMMA LowerSplits ==
  ASSUME NEW s \in String, NEW c \in Glyphs, NEW t \in Seq(Glyphs), lowerASCII(s) = <<c>> \o t
  PROVE  /\ s # <<>> /\ lower(s[1]) = c /\ After(s, 1) \in String
         /\ lowerASCII(After(s, 1)) = t
<1> DEFINE C == Characters
<1>1. \A x \in C : lower(x) \in C BY LowerType
<1>2. /\ <<c>> \o t \in Seq(Glyphs) /\ Len(<<c>> \o t) = Len(t) + 1 /\ Len(t) \in Nat
      /\ (<<c>> \o t)[1] = c /\ After(<<c>> \o t, 1) = t
  BY Prefixed
<1>3. s \in Seq(C) BY DEF String
<1>4. s # <<>>
  <2>1. lowerASCII(<<>>) = <<>> BY DEF lowerASCII
  <2> QED BY <1>2, <2>1
<1> HIDE DEF C
<1>5. s[1] \in C /\ After(s, 1) \in Seq(C) /\ s = <<s[1]>> \o After(s, 1)
  BY <1>3, <1>4, HeadAndRest
<1> DEFINE d == s[1]
           u == After(s, 1)
<1>6. d \in C /\ u \in Seq(C) /\ s = <<d>> \o u BY <1>5
<1> HIDE DEF d, u
<1>7. lowerASCII(s) = <<lower(d)>> \o lowerASCII(u) BY <1>1, <1>6, LowerPrefixed
<1>8. lower(d) \in C /\ lowerASCII(u) \in Seq(C) BY <1>1, <1>6, LowerText
<1> DEFINE l == lower(d)
           v == lowerASCII(u)
<1>9. l \in C /\ v \in Seq(C) /\ lowerASCII(s) = <<l>> \o v BY <1>7, <1>8
<1> HIDE DEF l, v
<1>10. (<<l>> \o v)[1] = l /\ After(<<l>> \o v, 1) = v BY <1>9, Prefixed
<1>11. l = c /\ v = t BY <1>2, <1>9, <1>10
<1> QED BY <1>4, <1>6, <1>11 DEF l, v, d, u, C, String

\* A character twice in front.
LEMMA TwiceInFront ==
  ASSUME NEW C, NEW c \in C, NEW u \in Seq(C)
  PROVE  /\ Len(<<c>> \o (<<c>> \o u)) >= 2
         /\ SubSeq(<<c>> \o (<<c>> \o u), 1, 2) = <<c, c>>
         /\ After(<<c>> \o (<<c>> \o u), 2) = u
<1> DEFINE cs == <<c, c>>
           s == cs \o u
<1>1. cs \in Seq(C) /\ Len(cs) = 2 OBVIOUS
<1>2. s = <<c>> \o (<<c>> \o u) BY TwoPrefixed
<1> HIDE DEF cs
<1>3. After(s, 2) = u /\ SubSeq(s, 1, 2) = cs BY <1>1, RestOfPrefixed
<1>4. Len(s) = Len(cs) + Len(u) /\ Len(u) \in Nat BY <1>1, ConcatProperties
<1> HIDE DEF s
<1>5. Len(s) >= 2 BY <1>1, <1>4
<1> QED BY <1>2, <1>3, <1>5 DEF cs

\* Two underscores are a cut.
LEMMA CutJoins ==
  ASSUME NEW C, NEW u \in Seq(C), "_" \in C
  PROVE  StartsCut(<<"_">> \o (<<"_">> \o u)) /\ After(<<"_">> \o (<<"_">> \o u), 2) = u
<1>1. Len(<<"_", "_">>) = 2 OBVIOUS
<1>2. \A c \in C : /\ Len(<<c>> \o (<<c>> \o u)) >= 2
                   /\ SubSeq(<<c>> \o (<<c>> \o u), 1, 2) = <<c, c>>
                   /\ After(<<c>> \o (<<c>> \o u), 2) = u
  BY TwiceInFront
<1> DEFINE s == <<"_">> \o (<<"_">> \o u)
<1>3. Len(s) >= 2 /\ SubSeq(s, 1, 2) = <<"_", "_">> /\ After(s, 2) = u BY <1>2
<1> HIDE DEF s
<1>4. Len(<<"_", "_">>) <= Len(s)
  <2> DEFINE n == Len(<<"_", "_">>)
             m == Len(s)
  <2>1. n = 2 /\ m >= 2 BY <1>1, <1>3
  <2> HIDE DEF n, m
  <2>2. n <= m BY <2>1
  <2> QED BY <2>2 DEF n, m
<1> QED BY <1>1, <1>3, <1>4 DEF StartsCut, HasPrefix, s

LEMMA SpelledTail ==
  ASSUME NEW path, Spelled(path), Len(path) # 1
  PROVE  Spelled(Tail(path))
<1> DEFINE rest == Tail(path)
<1>1. path \in Seq(String) \ {<<>>} BY DEF Spelled
<1>2. rest \in Seq(String) /\ Len(rest) = Len(path) - 1 /\ Len(path) \in Nat \ {0}
  BY <1>1, TailOfPath
<1>3. \A i \in 1 .. Len(rest) : rest[i] = path[i + 1] BY <1>1, HeadTailProperties
<1> HIDE DEF rest
<1>4. rest # <<>> BY <1>2
<1>5. \A i \in 1 .. Len(rest) : i + 1 \in 1 .. Len(path) BY <1>2
<1>6. \A i \in 1 .. Len(rest) - 1 : i \in 1 .. Len(rest) /\ i + 1 \in 1 .. Len(path) - 1 BY <1>2
<1>7. \A i \in 1 .. Len(rest) : \A k \in 1 .. Len(rest[i]) : rest[i][k] \notin DOMAIN Fold
  BY <1>3, <1>5 DEF Spelled
<1>8. \A i \in 1 .. Len(rest) : \A k \in 1 .. Len(rest[i]) - 1 :
        rest[i][k] = "_" => rest[i][k + 1] # "_"
  BY <1>3, <1>5 DEF Spelled
<1>9. \A i \in 1 .. Len(rest) - 1 : rest[i] # <<>> => rest[i][Len(rest[i])] # "_"
  BY <1>3, <1>6 DEF Spelled
<1> QED BY <1>2, <1>4, <1>7, <1>8, <1>9 DEF Spelled, rest

LEMMA SpelledRest ==
  ASSUME NEW path, Spelled(path), path[1] # <<>>
  PROVE  Spelled(<<After(path[1], 1)>> \o Tail(path))
<1> DEFINE r == After(path[1], 1)
           q == <<r>> \o Tail(path)
           seg == path[1]
<1>1. path \in Seq(String) \ {<<>>} BY DEF Spelled
<1>2. /\ seg \in String /\ Tail(path) \in Seq(String) /\ Len(Tail(path)) = Len(path) - 1
      /\ Len(path) \in Nat \ {0}
  BY <1>1, TailOfPath
<1>3. Len(seg) \in Nat \ {0} /\ r \in String /\ Len(r) = Len(seg) - 1
  BY <1>2, HeadAndRest DEF String
<1>4. \A k \in 1 .. Len(r) : r[k] = seg[k + 1]
  <2>1. 1 \in 0 .. Len(seg) /\ seg \in Seq(Characters) BY <1>2, <1>3 DEF String
  <2> HIDE DEF seg
  <2>2. \A i \in 1 .. Len(seg) - 1 : After(seg, 1)[i] = seg[1 + i] BY <2>1, Rests
  <2>3. \A k \in 1 .. Len(r) : k \in 1 .. Len(seg) - 1 /\ 1 + k = k + 1 BY <1>3
  <2> QED BY <2>2, <2>3 DEF seg
<1> HIDE DEF r, seg
<1>5. /\ q \in Seq(String) \ {<<>>} /\ Len(q) = Len(path) /\ q[1] = r
      /\ \A i \in 1 .. Len(path) - 1 : q[i + 1] = path[i + 1]
  <2>1. /\ q \in Seq(String) /\ q # <<>> /\ Len(q) = Len(Tail(path)) + 1 /\ q[1] = r
        /\ \A i \in 1 .. Len(Tail(path)) : q[i + 1] = Tail(path)[i]
    BY <1>2, <1>3, Prefixed
  <2>2. \A i \in 1 .. Len(Tail(path)) : Tail(path)[i] = path[i + 1] BY <1>1, HeadTailProperties
  <2> HIDE DEF q
  <2> QED BY <1>2, <2>1, <2>2
<1> HIDE DEF q
<1>6. ASSUME NEW i \in 1 .. Len(q), i # 1 PROVE q[i] = path[i]
  <2>1. i - 1 \in 1 .. Len(path) - 1 /\ (i - 1) + 1 = i BY <1>2, <1>5, <1>6
  <2> QED BY <1>5, <2>1
<1>7. \A k \in 1 .. Len(r) : k + 1 \in 1 .. Len(seg) BY <1>3
<1>8. 1 \in 1 .. Len(path) BY <1>2
<1>9. \A i \in 1 .. Len(q) : \A k \in 1 .. Len(q[i]) : q[i][k] \notin DOMAIN Fold
  <2> TAKE i \in 1 .. Len(q)
  <2>1. CASE i = 1 BY <1>4, <1>5, <1>7, <1>8, <2>1 DEF Spelled, seg
  <2>2. CASE i # 1
    <3>1. q[i] = path[i] /\ i \in 1 .. Len(path) BY <1>5, <1>6, <2>2
    <3> QED BY <3>1 DEF Spelled
  <2> QED BY <2>1, <2>2
<1>10. \A i \in 1 .. Len(q) : \A k \in 1 .. Len(q[i]) - 1 : q[i][k] = "_" => q[i][k + 1] # "_"
  <2> TAKE i \in 1 .. Len(q)
  <2>1. CASE i = 1
    <3>1. \A k \in 1 .. Len(r) - 1 :
            k \in 1 .. Len(r) /\ k + 1 \in 1 .. Len(r) /\ k + 1 \in 1 .. Len(seg) - 1
      BY <1>3
    <3>2. \A k \in 1 .. Len(seg) - 1 : seg[k] = "_" => seg[k + 1] # "_"
      BY <1>8 DEF Spelled, seg
    <3>3. \A k \in 1 .. Len(r) - 1 : r[k] = seg[k + 1] /\ r[k + 1] = seg[(k + 1) + 1]
      BY <1>4, <3>1
    <3>4. \A k \in 1 .. Len(r) - 1 : r[k] = "_" => r[k + 1] # "_" BY <3>1, <3>2, <3>3
    <3> QED BY <1>5, <2>1, <3>4
  <2>2. CASE i # 1
    <3>1. q[i] = path[i] /\ i \in 1 .. Len(path) BY <1>5, <1>6, <2>2
    <3> QED BY <3>1 DEF Spelled
  <2> QED BY <2>1, <2>2
<1>11. \A i \in 1 .. Len(q) - 1 : q[i] # <<>> => q[i][Len(q[i])] # "_"
  <2> TAKE i \in 1 .. Len(q) - 1
  <2>0. i \in 1 .. Len(q) /\ i \in 1 .. Len(path) - 1 BY <1>2, <1>5
  <2>1. CASE i = 1
    <3> SUFFICES ASSUME r # <<>> PROVE r[Len(r)] # "_" BY <1>5, <2>1
    <3>1. Len(r) \in Nat \ {0} BY <1>3, EmptySeq DEF String
    <3>2. Len(r) \in 1 .. Len(r) /\ Len(r) + 1 = Len(seg) BY <1>3, <3>1
    <3>3. r[Len(r)] = seg[Len(seg)] BY <1>4, <3>2
    <3>4. seg # <<>> BY DEF seg
    <3>5. seg[Len(seg)] # "_" BY <2>0, <2>1, <3>4 DEF Spelled, seg
    <3> QED BY <3>3, <3>5
  <2>2. CASE i # 1
    <3>1. q[i] = path[i] BY <1>6, <2>0, <2>2
    <3> QED BY <2>0, <3>1 DEF Spelled
  <2> QED BY <2>1, <2>2
<1>12. Spelled(q) BY <1>5, <1>9, <1>10, <1>11 DEF Spelled
<1> QED BY <1>12 DEF q, r

Shorter(path) == <<After(path[1], 1)>> \o Tail(path)

LEMMA PathGrows ==
  ASSUME NEW path, Spelled(path), path[1] # <<>>
  PROVE  /\ Spelled(Shorter(path)) /\ Shorter(path)[1] = After(path[1], 1)
         /\ path[1][1] \in Characters
         /\ Joined[path] = <<path[1][1]>> \o Joined[Shorter(path)]
         /\ path = <<<<path[1][1]>> \o Head(Shorter(path))>> \o Tail(Shorter(path))
<1> DEFINE seg == path[1]
           r == After(seg, 1)
           c == seg[1]
           q == <<r>> \o Tail(path)
<1>1. path \in Seq(String) \ {<<>>} BY DEF Spelled
<1>2. seg \in String /\ Tail(path) \in Seq(String) BY <1>1, TailOfPath
<1>3. c \in Characters /\ r \in String /\ seg = <<c>> \o r BY <1>2, HeadAndRest DEF String
<1>4. path = <<seg>> \o Tail(path) BY <1>1, HeadAndRest
<1>5. Spelled(q) BY SpelledRest
<1> HIDE DEF r, c, seg
<1>6. q \in Seq(String) \ {<<>>} /\ q[1] = r /\ Head(q) = r /\ Tail(q) = Tail(path)
  BY <1>2, <1>3, Prefixed
<1> HIDE DEF q
<1>7. Joined[<<<<c>> \o q[1]>> \o Tail(q)] = <<c>> \o Joined[q] BY <1>3, <1>6, JoinedGrows
<1>8. path = <<<<c>> \o Head(q)>> \o Tail(q) BY <1>3, <1>4, <1>6
<1>9. Joined[path] = <<c>> \o Joined[q] BY <1>6, <1>7, <1>8
<1> QED BY <1>3, <1>5, <1>6, <1>8, <1>9 DEF Shorter, q, r, c, seg

LEMMA LowerUnderscore ==
  \A x \in Characters : lower(x) = "_" => x = "_"
BY AlphabetAssumption DEF lower

\* A name of a path does not begin with a cut, unless the path does.
LEMMA NoCutInSegment ==
  ASSUME NEW s \in String, NEW path, Spelled(path), path[1] # <<>>, lowerASCII(s) = Joined[path]
  PROVE  ~StartsCut(s)
<1> SUFFICES ASSUME StartsCut(s) PROVE FALSE OBVIOUS
<1> DEFINE q == Shorter(path)
           c == path[1][1]
           u == After(s, 1)
<1>0. path \in Seq(String) \ {<<>>} /\ path[1] \in String
  <2>1. path \in Seq(String) \ {<<>>} BY DEF Spelled
  <2> QED BY <2>1, TailOfPath
<1>1. s \in Seq(Characters) BY DEF String
<1>2. 2 <= Len(s) /\ s[1] = "_" /\ s[2] = "_" /\ Len(s) \in Nat
  <2>1. StartsCut(s) => 2 <= Len(s) /\ s[1] = "_" /\ s[2] = "_" BY <1>1, CutStarts
  <2>2. Len(s) \in Nat BY <1>1
  <2> QED BY <2>1, <2>2
<1>3. /\ Spelled(q) /\ q[1] = After(path[1], 1) /\ c \in Characters
      /\ Joined[path] = <<c>> \o Joined[q]
  BY PathGrows
<1>4. c \in Glyphs /\ Joined[q] \in Seq(Glyphs)
  <2>1. q \in Seq(String) BY <1>3 DEF Spelled
  <2> QED BY <1>3, <2>1, JoinedType DEF Glyphs
<1> HIDE DEF c, q
<1>5. lower(s[1]) = c /\ u \in String /\ lowerASCII(u) = Joined[q] BY <1>3, <1>4, LowerSplits
<1>6. c = "_" BY <1>2, <1>5, AlphabetAssumption DEF lower
<1>7. u[1] = "_" /\ u # <<>>
  <2>1. 1 \in 0 .. Len(s) /\ 1 \in 1 .. Len(s) - 1 /\ 1 + 1 = 2
    <3>1. 2 <= Len(s) /\ Len(s) \in Nat BY <1>2
    <3> HIDE DEF u
    <3> QED BY <3>1
  <2>2. u[1] = s[1 + 1] /\ Len(u) = Len(s) - 1 BY <1>1, <2>1, Rests
  <2>3. u # <<>>
    <3>1. Len(u) # 0 BY <2>1, <2>2
    <3> QED BY <3>1
  <2> QED BY <1>2, <2>1, <2>2, <2>3
<1>8. Len(path[1]) \in Nat \ {0} /\ Len(After(path[1], 1)) = Len(path[1]) - 1
  BY <1>0, HeadAndRest DEF String
<1>9. Len(path) \in Nat \ {0} /\ 1 \in 1 .. Len(path)
  <2>1. Len(path) \in Nat \ {0} BY <1>0, TailOfPath
  <2> QED BY <2>1
<1>10. CASE After(path[1], 1) # <<>>
  <2> DEFINE d == q[1][1]
             qq == Shorter(q)
  <2>1. /\ Spelled(qq) /\ d \in Characters
        /\ Joined[q] = <<d>> \o Joined[qq]
    <3>1. q[1] # <<>> BY <1>3, <1>10
    <3> QED BY <1>3, <3>1, PathGrows
  <2>2. d \in Glyphs /\ Joined[qq] \in Seq(Glyphs)
    <3>1. qq \in Seq(String) BY <2>1 DEF Spelled
    <3> QED BY <2>1, <3>1, JoinedType DEF Glyphs
  <2> HIDE DEF qq, d
  <2>3. lower(u[1]) = d BY <1>5, <2>1, <2>2, LowerSplits
  <2>4. d = "_" BY <1>7, <2>3, AlphabetAssumption DEF lower
  <2>5. d = path[1][2] /\ 1 \in 1 .. Len(path[1]) - 1 /\ 1 + 1 = 2
    <3>1. Len(path[1]) - 1 # 0
      <4>1. Len(After(path[1], 1)) # 0 BY <1>0, <1>8, <1>10, HeadAndRest DEF String
      <4> QED BY <1>8, <4>1
    <3>2. 1 \in 0 .. Len(path[1]) /\ 1 \in 1 .. Len(path[1]) - 1
      <4> DEFINE n == Len(path[1])
      <4>1. n \in Nat \ {0} /\ n - 1 # 0 BY <1>8, <3>1
      <4> HIDE DEF n
      <4>2. 1 \in 0 .. n /\ 1 \in 1 .. n - 1 BY <4>1
      <4> QED BY <4>2 DEF n
    <3> DEFINE seg == path[1]
    <3>3. seg \in Seq(Characters) BY <1>0 DEF String
    <3> HIDE DEF seg
    <3>4. After(seg, 1)[1] = seg[1 + 1] BY <3>2, <3>3, Rests DEF seg
    <3>5. 1 + 1 = 2 OBVIOUS
    <3> QED BY <1>3, <3>2, <3>4, <3>5 DEF d, seg
  <2>6. path[1][1] = "_" => path[1][2] # "_" BY <1>9, <2>5 DEF Spelled
  <2> QED BY <1>6, <2>4, <2>5, <2>6 DEF c
<1>11. CASE After(path[1], 1) = <<>>
  <2>1. Len(path[1]) = 1
    <3> DEFINE n == Len(path[1])
    <3>1. Len(<<>>) = 0 OBVIOUS
    <3>2. n \in Nat /\ n - 1 = 0 BY <1>8, <1>11, <3>1
    <3> HIDE DEF n
    <3>3. n = 1 BY <3>2
    <3> QED BY <3>3 DEF n
  <2>2. CASE Len(path) = 1
    <3>1. Joined[path] = path[1] BY <1>0, <2>2, JoinedEquation
    <3>2. Len(lowerASCII(s)) = Len(s)
      <4>1. s \in Seq(Characters) BY <1>1
      <4> QED BY <4>1, LowerType, LowerText
    <3>3. Len(s) = 1 BY <2>1, <3>1, <3>2
    <3> QED
      <4>1. 2 <= Len(s) /\ Len(s) \in Nat BY <1>2
      <4> HIDE DEF u
      <4> QED BY <3>3, <4>1
  <2>3. CASE Len(path) # 1
    <3> DEFINE n == Len(path)
    <3>0. n \in Nat \ {0} /\ n # 1 BY <1>9, <2>3
    <3> HIDE DEF n
    <3>9. 1 \in 1 .. n - 1 BY <3>0
    <3>1. 1 \in 1 .. Len(path) - 1 BY <3>9 DEF n
    <3>2. path[1][Len(path[1])] # "_" BY <3>1 DEF Spelled
    <3> QED BY <1>6, <2>1, <3>2 DEF c
  <2> QED BY <2>2, <2>3
<1> QED BY <1>10, <1>11

\* A name that spells a path, in any case, leads to it.
LEMMA NamesItsPath ==
  \A s \in String : \A path : Spelled(path) /\ lowerASCII(s) = Joined[path] => toPath[s] = path
<1> DEFINE C == Characters
           S == {s \in String : \A path : Spelled(path) /\ lowerASCII(s) = Joined[path]
                                          => toPath[s] = path}
<1>1. ASSUME NEW s \in Seq(C), \A t \in Seq(C) : Len(t) < Len(s) => t \in S PROVE s \in S
  <2>0. s \in String /\ Len(s) \in Nat BY DEF String
  <2> SUFFICES ASSUME NEW path, Spelled(path), lowerASCII(s) = Joined[path]
               PROVE  toPath[s] = path
    BY <2>0
  <2>1. path \in Seq(String) \ {<<>>} BY DEF Spelled
  <2>2. /\ path[1] \in String /\ Tail(path) \in Seq(String) /\ Len(path) \in Nat \ {0}
        /\ Len(Tail(path)) = Len(path) - 1 /\ path = <<path[1]>> \o Tail(path)
    <3>1. path = <<path[1]>> \o Tail(path) BY <2>1, HeadAndRest
    <3> QED BY <2>1, <3>1, TailOfPath
  <2>3. CASE path[1] = <<>> /\ Len(path) = 1
    <3>1. Joined[path] = <<>> BY <2>1, <2>3, JoinedEquation
    <3>2. Len(lowerASCII(s)) = Len(s)
      <4>1. s \in Seq(Characters) OBVIOUS
      <4> QED BY <4>1, LowerType, LowerText
    <3>3. s = <<>>
      <4>1. Len(<<>>) = 0 OBVIOUS
      <4> QED BY <3>1, <3>2, <4>1, EmptySeq
    <3>4. toPath[s] = << <<>> >> BY <3>3, ToPathEquation
    <3>5. path = << <<>> >>
      <4>1. Tail(path) = <<>>
        <5> DEFINE rest == Tail(path)
        <5>1. rest \in Seq(String) /\ Len(rest) = 0 BY <2>2, <2>3
        <5> HIDE DEF rest
        <5>2. rest = <<>> BY <5>1, EmptySeq
        <5> QED BY <5>2 DEF rest
      <4>2. \A x \in String : <<x>> \o <<>> = <<x>> OBVIOUS
      <4> QED BY <2>2, <2>3, <4>1, <4>2
    <3> QED BY <3>4, <3>5
  <2>4. CASE path[1] = <<>> /\ Len(path) # 1
    <3> DEFINE p == Tail(path)
               J == Joined[p]
               t == After(s, 1)
               u == After(t, 1)
               us == <<"_">> \o J
    <3>1. Spelled(p) BY <2>4, SpelledTail
    <3>2. p \in Seq(String) \ {<<>>} BY <3>1 DEF Spelled
    <3>3. path = << <<>> >> \o p BY <2>2, <2>4
    <3>4. J \in Seq(Glyphs) BY <3>2, JoinedType
    <3>5. "_" \in Glyphs BY DEF Glyphs
    <3>6. Joined[path] = <<"_", "_">> \o J BY <3>2, <3>3, JoinedCut
    <3>7. us \in Seq(Glyphs) BY <3>4, <3>5, Prefixed
    <3> HIDE DEF p, J, us
    <3>8. Joined[path] = <<"_">> \o us
      <4>1. \A c \in Glyphs, w \in Seq(Glyphs) : <<c, c>> \o w = <<c>> \o (<<c>> \o w) BY Doubled
      <4> QED BY <3>4, <3>5, <3>6, <4>1 DEF us
    <3>9. s # <<>> /\ lower(s[1]) = "_" /\ t \in String /\ lowerASCII(t) = us
      BY <2>0, <3>5, <3>7, <3>8, LowerSplits
    <3> HIDE DEF t
    <3>10. t # <<>> /\ lower(t[1]) = "_" /\ u \in String /\ lowerASCII(u) = J
      BY <3>4, <3>5, <3>9, LowerSplits DEF us
    <3>11. s[1] \in C /\ s = <<s[1]>> \o t /\ Len(t) = Len(s) - 1 BY <3>9, HeadAndRest DEF t
    <3>12. t \in Seq(C) BY <3>9 DEF String
    <3>13. t[1] \in C /\ t = <<t[1]>> \o u /\ Len(u) = Len(t) - 1 /\ u \in Seq(C)
           /\ Len(t) \in Nat \ {0}
      BY <3>10, <3>12, HeadAndRest
    <3>14. s[1] = "_" /\ t[1] = "_" BY <3>9, <3>10, <3>11, <3>13, LowerUnderscore
    <3> HIDE DEF u
    <3>15. s = <<"_">> \o (<<"_">> \o u) /\ "_" \in C BY <3>11, <3>13, <3>14
    <3>16. StartsCut(s) /\ After(s, 2) = u BY <3>13, <3>15, CutJoins
    <3>17. toPath[u] = p
      <4>1. Len(u) < Len(s)
        <5> DEFINE l == Len(s)
                   m == Len(t)
                   n == Len(u)
        <5>1. l \in Nat /\ m = l - 1 /\ n = m - 1 BY <2>0, <3>11, <3>13
        <5> HIDE DEF l, m, n
        <5>2. n < l BY <5>1
        <5> QED BY <5>2 DEF l, n
      <4>2. u \in S
        <5> HIDE DEF S, C
        <5> QED BY <1>1, <3>13, <4>1
      <4> QED BY <3>1, <3>10, <4>2 DEF J
    <3>18. toPath[s] = PathOfRest(s, toPath[After(s, 2)], toPath[After(s, 1)])
      BY <2>0, <3>9, ToPathEquation
    <3>19. toPath[s] = << <<>> >> \o p BY <3>16, <3>17, <3>18 DEF PathOfRest
    <3> QED BY <3>3, <3>19
  <2>5. CASE path[1] # <<>>
    <3> DEFINE q == Shorter(path)
               c == path[1][1]
               u == After(s, 1)
    <3>1. /\ Spelled(q) /\ c \in Characters /\ Joined[path] = <<c>> \o Joined[q]
          /\ path = <<<<c>> \o Head(q)>> \o Tail(q)
      BY <2>5, PathGrows
    <3>2. c \in Glyphs /\ Joined[q] \in Seq(Glyphs)
      <4>1. q \in Seq(String) BY <3>1 DEF Spelled
      <4> QED BY <3>1, <4>1, JoinedType DEF Glyphs
    <3> HIDE DEF c, q
    <3>3. s # <<>> /\ lower(s[1]) = c /\ u \in String /\ lowerASCII(u) = Joined[q]
      BY <2>0, <3>1, <3>2, LowerSplits
    <3>4. u \in Seq(C) /\ Len(u) = Len(s) - 1 BY <3>3, HeadAndRest
    <3>5. toPath[u] = q
      <4> HIDE DEF u
      <4>1. Len(u) < Len(s) BY <2>0, <3>4
      <4>2. u \in S
        <5> HIDE DEF S, C
        <5> QED BY <1>1, <3>4, <4>1
      <4> QED BY <3>1, <3>3, <4>2
    <3>6. toPath[s] = PathOfRest(s, toPath[After(s, 2)], toPath[After(s, 1)])
      BY <2>0, <3>3, ToPathEquation
    <3>7. ~StartsCut(s) BY <2>0, <2>5, NoCutInSegment
    <3>8. toPath[s] = <<<<c>> \o Head(q)>> \o Tail(q)
      BY <3>3, <3>5, <3>6, <3>7 DEF PathOfRest
    <3> QED BY <3>1, <3>8
  <2> QED BY <2>3, <2>4, <2>5
<1> HIDE DEF S, C
<1>2. \A s \in Seq(C) : s \in S BY <1>1, ShorterInSet
<1> QED BY <1>2 DEF S, C, String

(* A strict total order on 1 .. n has an increasing enumeration.           *)
Total(R, n) ==
  /\ \A i \in 1 .. n : <<i, i>> \notin R
  /\ \A i, j, k \in 1 .. n : <<i, j>> \in R /\ <<j, k>> \in R => <<i, k>> \in R
  /\ \A i, j \in 1 .. n : i = j \/ <<i, j>> \in R \/ <<j, i>> \in R

Sortings(R, n) ==
  {f \in [1 .. n -> 1 .. n] : /\ \A i \in 1 .. n : \E k \in 1 .. n : f[k] = i
                              /\ \A i, j \in 1 .. n : i < j => <<f[i], f[j]>> \in R}

\* Insertion into a sorted enumeration.
LEMMA OneMoreSorted ==
  ASSUME NEW R, NEW n \in Nat, Total(R, n + 1), NEW f \in Sortings(R, n)
  PROVE  \E g : g \in Sortings(R, n + 1)
<1> DEFINE Above == {i \in 1 .. n + 1 : i = n + 1 \/ <<n + 1, f[i]>> \in R}
<1>1. PICK p \in Above : \A i \in Above : p <= i
  <2>1. Above \subseteq Nat /\ n + 1 \in Above OBVIOUS
  <2> QED BY <2>1, LeastElement
<1>2. f \in [1 .. n -> 1 .. n] BY DEF Sortings
<1> DEFINE m == n + 1
           g == [i \in 1 .. m |-> IF i < p THEN f[i] ELSE IF i = p THEN m ELSE f[i - 1]]
<1>3. p \in 1 .. m /\ m \in Nat /\ n \in 1 .. m \cup {0} OBVIOUS
<1>4. \A i \in 1 .. m : i < p => i \in 1 .. n /\ g[i] = f[i] OBVIOUS
<1>5. g[p] = m OBVIOUS
<1>6. \A i \in 1 .. m : i > p => i - 1 \in 1 .. n /\ g[i] = f[i - 1] OBVIOUS
<1>7. g \in [1 .. m -> 1 .. m]
  <2>1. \A i \in 1 .. n : f[i] \in 1 .. m BY <1>2
  <2> QED BY <2>1
<1>8. \A i \in 1 .. n : i < p => <<f[i], m>> \in R
  <2> TAKE i \in 1 .. n
  <2> HAVE i < p
  <2>1. i \notin Above BY <1>1
  <2>2. <<m, f[i]>> \notin R BY <2>1
  <2>3. f[i] \in 1 .. n BY <1>2
  <2>4. f[i] \in 1 .. m /\ f[i] # m /\ m \in 1 .. m
    <3> HIDE DEF g
    <3> QED BY <2>3
  <2> QED BY <2>2, <2>4 DEF Total
<1>9. \A i \in 1 .. n : i >= p => <<m, f[i]>> \in R
  <2> TAKE i \in 1 .. n
  <2> HAVE i >= p
  <2>1. p # m /\ <<m, f[p]>> \in R /\ p \in 1 .. n
    <3>1. p # n + 1 OBVIOUS
    <3> QED BY <3>1
  <2>2. i = p \/ <<f[p], f[i]>> \in R BY <2>1 DEF Sortings
  <2>3. f[i] \in 1 .. m /\ f[p] \in 1 .. m
    <3>1. f[i] \in 1 .. n /\ f[p] \in 1 .. n BY <1>2, <2>1
    <3>2. \A k \in 1 .. n : k \in 1 .. m OBVIOUS
    <3> QED BY <3>1, <3>2
  <2>4. m \in 1 .. m OBVIOUS
  <2> QED BY <2>1, <2>2, <2>3, <2>4 DEF Total
<1>10. \A i, j \in 1 .. n : i < j => <<f[i], f[j]>> \in R BY DEF Sortings
<1>11. ASSUME NEW i \in 1 .. n + 1 PROVE \E k \in 1 .. m : g[k] = i
  <2>1. CASE i = m BY <1>3, <1>5, <2>1
  <2>2. CASE i # m
    <3>1. i \in 1 .. n BY <2>2
    <3>2. PICK k \in 1 .. n : f[k] = i BY <3>1 DEF Sortings
    <3>3. CASE k < p
      <4>1. k \in 1 .. m OBVIOUS
      <4> QED BY <1>4, <3>2, <3>3, <4>1
    <3>4. CASE ~(k < p)
      <4>1. k + 1 \in 1 .. m /\ k + 1 > p /\ (k + 1) - 1 = k BY <3>4
      <4> HIDE DEF g
      <4>2. g[k + 1] = f[k] BY <1>6, <4>1
      <4> QED BY <3>2, <4>1, <4>2
    <3> QED BY <3>3, <3>4
  <2> QED BY <2>1, <2>2
<1>12. ASSUME NEW i \in 1 .. n + 1, NEW j \in 1 .. n + 1, i < j PROVE <<g[i], g[j]>> \in R
  <2> HIDE DEF g
  <2>1. CASE j < p
    <3>1. i < p /\ i \in 1 .. m /\ j \in 1 .. m BY <1>12, <2>1
    <3>2. g[i] = f[i] /\ g[j] = f[j] /\ i \in 1 .. n /\ j \in 1 .. n BY <1>4, <2>1, <3>1
    <3> QED BY <1>10, <1>12, <3>2
  <2>2. CASE j = p
    <3>1. i < p /\ i \in 1 .. m BY <1>12, <2>2
    <3>2. g[i] = f[i] /\ i \in 1 .. n BY <1>4, <3>1
    <3> QED BY <1>5, <1>8, <2>2, <3>1, <3>2
  <2>3. CASE i = p
    <3>1. j > p /\ j \in 1 .. m BY <1>12, <2>3
    <3>2. g[j] = f[j - 1] /\ j - 1 \in 1 .. n BY <1>6, <3>1
    <3>3. j - 1 >= p BY <3>1
    <3> QED BY <1>5, <1>9, <2>3, <3>2, <3>3
  <2>4. CASE i < p /\ j > p
    <3>1. i \in 1 .. m /\ j \in 1 .. m OBVIOUS
    <3>2. g[i] = f[i] /\ i \in 1 .. n BY <1>4, <2>4, <3>1
    <3>3. g[j] = f[j - 1] /\ j - 1 \in 1 .. n BY <1>6, <2>4, <3>1
    <3>4. i < j - 1 BY <2>4, <3>1, <1>3
    <3> QED BY <1>10, <3>2, <3>3, <3>4
  <2>5. CASE i > p
    <3>1. i \in 1 .. m /\ j \in 1 .. m /\ j > p BY <1>12, <2>5
    <3>2. g[i] = f[i - 1] /\ i - 1 \in 1 .. n BY <1>6, <2>5, <3>1
    <3>3. g[j] = f[j - 1] /\ j - 1 \in 1 .. n BY <1>6, <3>1
    <3>4. i - 1 < j - 1 BY <1>12, <3>1
    <3> QED BY <1>10, <3>2, <3>3, <3>4
  <2> QED BY <1>12, <2>1, <2>2, <2>3, <2>4, <2>5
<1> HIDE DEF g
<1>13. g \in Sortings(R, n + 1) BY <1>7, <1>11, <1>12 DEF Sortings
<1> QED BY <1>13

LEMMA SortingExists ==
  ASSUME NEW R, NEW m \in Nat, Total(R, m)
  PROVE  \E f : f \in Sortings(R, m)
<1> DEFINE S == {n \in Nat : n <= m => \E f : f \in Sortings(R, n)}
<1>1. 0 \in S
  <2> DEFINE f == [i \in {} |-> 0]
  <2>1. 1 .. 0 = {} /\ f \in [{} -> {}] OBVIOUS
  <2> HIDE DEF f
  <2>2. f \in Sortings(R, 0) BY <2>1 DEF Sortings
  <2> QED BY <2>2
<1>2. ASSUME NEW n \in Nat, n \in S PROVE n + 1 \in S
  <2> SUFFICES ASSUME n + 1 <= m PROVE \E f : f \in Sortings(R, n + 1) OBVIOUS
  <2>1. PICK f : f \in Sortings(R, n) BY <1>2
  <2>2. Total(R, n + 1)
    <3>1. 1 .. n + 1 \subseteq 1 .. m OBVIOUS
    <3> QED BY <3>1 DEF Total
  <2> QED BY <2>1, <2>2, OneMoreSorted
<1> HIDE DEF S
<1>3. \A n \in Nat : n \in S BY <1>1, <1>2, NatInSet
<1> QED BY <1>3 DEF S

(* The order of the environment.                                           *)

LEMMA Ranks ==
  /\ Len(Order) \in Nat
  /\ \A c \in Characters : Rank(c) \in 1 .. Len(Order) /\ Order[Rank(c)] = c
<1>1. Len(Order) \in Nat BY AlphabetAssumption
<1>2. ASSUME NEW c \in Characters PROVE Rank(c) \in 1 .. Len(Order) /\ Order[Rank(c)] = c
  <2>1. \E i \in 1 .. Len(Order) : Order[i] = c BY DEF Characters
  <2> QED BY <2>1 DEF Rank
<1> QED BY <1>1, <1>2

\* s comes before t because of the i-th character.
DiffersAt(s, t, i) ==
  /\ i \in 1 .. Len(t) /\ i <= Len(s) + 1
  /\ \A k \in 1 .. i - 1 : s[k] = t[k]
  /\ i > Len(s) \/ Rank(s[i]) < Rank(t[i])

LEMMA FirstOnes ==
  ASSUME NEW s \in String, NEW n \in 0 .. Len(s)
  PROVE  /\ SubSeq(s, 1, n) \in String /\ Len(SubSeq(s, 1, n)) = n
         /\ \A k \in 1 .. n : SubSeq(s, 1, n)[k] = s[k]
<1>1. Len(s) \in Nat /\ s \in Seq(Characters) BY DEF String
<1> HIDE DEF Characters
<1>2. \A k \in 1 .. n : s[k] \in Characters BY <1>1, ElementOfSeq
<1> QED BY <1>1, <1>2, SubSeqProperties DEF String

LEMMA BeforeDiffers ==
  ASSUME NEW s \in String, NEW t \in String
  PROVE  Before(s, t) <=> \E i \in Nat : DiffersAt(s, t, i)
<1>1. Len(s) \in Nat /\ Len(t) \in Nat BY DEF String
<1>2. ASSUME NEW i \in 1 .. Len(t), i <= Len(s) + 1
      PROVE  SubSeq(s, 1, i - 1) = SubSeq(t, 1, i - 1) <=> \A k \in 1 .. i - 1 : s[k] = t[k]
  <2> DEFINE n == i - 1
             u == SubSeq(s, 1, n)
             v == SubSeq(t, 1, n)
  <2>1. n \in 0 .. Len(s) /\ n \in 0 .. Len(t) BY <1>1, <1>2
  <2> HIDE DEF n
  <2>2. u \in String /\ Len(u) = n /\ \A k \in 1 .. n : u[k] = s[k] BY <2>1, FirstOnes
  <2>3. v \in String /\ Len(v) = n /\ \A k \in 1 .. n : v[k] = t[k] BY <2>1, FirstOnes
  <2> HIDE DEF u, v
  <2>4. ASSUME \A k \in 1 .. n : s[k] = t[k] PROVE u = v
    <3>1. \A k \in 1 .. n : u[k] = v[k] BY <2>2, <2>3, <2>4
    <3> HIDE DEF Characters
    <3> QED BY <2>2, <2>3, <3>1, SeqEqual DEF String
  <2>5. u = v => \A k \in 1 .. n : s[k] = t[k] BY <2>2, <2>3
  <2> QED BY <2>4, <2>5 DEF u, v, n
<1>3. \A i \in Nat : DiffersAt(s, t, i) => i \in 1 .. Len(t) BY DEF DiffersAt
<1>4. \A i \in 1 .. Len(t) : i \in Nat BY <1>1
<1> QED BY <1>2, <1>3, <1>4 DEF Before, DiffersAt

LEMMA BeforeIsStrict ==
  ASSUME NEW s \in String
  PROVE  ~Before(s, s)
<1>1. Len(s) \in Nat /\ s \in Seq(Characters) BY DEF String
<1>2. ASSUME NEW i \in Nat, DiffersAt(s, s, i) PROVE FALSE
  <2>1. i \in 1 .. Len(s) BY <1>2 DEF DiffersAt
  <2>2. s[i] \in Characters
    <3> HIDE DEF Characters
    <3> QED BY <1>1, <2>1, ElementOfSeq
  <2>3. Rank(s[i]) \in Nat BY <2>2, Ranks
  <2> QED BY <1>1, <1>2, <2>1, <2>3 DEF DiffersAt
<1> QED BY <1>2, BeforeDiffers

LEMMA BeforeIsTransitive ==
  ASSUME NEW s \in String, NEW t \in String, NEW u \in String, Before(s, t), Before(t, u)
  PROVE  Before(s, u)
<1>1. Len(s) \in Nat /\ Len(t) \in Nat /\ Len(u) \in Nat BY DEF String
<1>2. \A v \in String : \A k \in 1 .. Len(v) : Rank(v[k]) \in Nat
  <2> TAKE v \in String
  <2> TAKE k \in 1 .. Len(v)
  <2>1. v[k] \in Characters
    <3> HIDE DEF Characters
    <3> QED BY ElementOfSeq DEF String
  <2> QED BY <2>1, Ranks
<1>3. PICK i \in Nat : DiffersAt(s, t, i) BY BeforeDiffers
<1>4. PICK j \in Nat : DiffersAt(t, u, j) BY BeforeDiffers
<1>5. CASE i < j
  <2>1. i \in 1 .. Len(u) /\ i \in 1 .. j - 1 /\ t[i] = u[i] BY <1>1, <1>3, <1>4, <1>5 DEF DiffersAt
  <2>2. \A k \in 1 .. i - 1 : k \in 1 .. j - 1 BY <1>5
  <2>3. DiffersAt(s, u, i) BY <1>3, <1>4, <2>1, <2>2 DEF DiffersAt
  <2> QED BY <2>3, BeforeDiffers
<1>6. CASE i = j
  <2>1. i \in 1 .. Len(t) /\ i \in 1 .. Len(u) /\ ~(i > Len(t)) BY <1>1, <1>3, <1>4, <1>6 DEF DiffersAt
  <2>2. Rank(t[i]) < Rank(u[i]) BY <1>4, <1>6, <2>1 DEF DiffersAt
  <2>3. i > Len(s) \/ Rank(s[i]) < Rank(u[i])
    <3> SUFFICES ASSUME ~(i > Len(s)) PROVE Rank(s[i]) < Rank(u[i]) OBVIOUS
    <3>1. Rank(s[i]) < Rank(t[i]) BY <1>3 DEF DiffersAt
    <3>2. i \in 1 .. Len(s) BY <1>1, <2>1
    <3>3. Rank(s[i]) \in Nat /\ Rank(t[i]) \in Nat /\ Rank(u[i]) \in Nat BY <1>2, <2>1, <3>2
    <3> QED BY <2>2, <3>1, <3>3
  <2>4. DiffersAt(s, u, i) BY <1>3, <1>4, <1>6, <2>1, <2>3 DEF DiffersAt
  <2> QED BY <2>4, BeforeDiffers
<1>7. CASE i > j
  <2>1. j \in 1 .. Len(u) /\ j \in 1 .. i - 1 /\ s[j] = t[j] /\ ~(j > Len(t)) /\ j <= Len(s) + 1
    BY <1>1, <1>3, <1>4, <1>7 DEF DiffersAt
  <2>2. \A k \in 1 .. j - 1 : k \in 1 .. i - 1 BY <1>7
  <2>3. DiffersAt(s, u, j) BY <1>3, <1>4, <2>1, <2>2 DEF DiffersAt
  <2> QED BY <2>3, BeforeDiffers
<1> QED BY <1>5, <1>6, <1>7

LEMMA BeforeIsTotal ==
  ASSUME NEW s \in String, NEW t \in String, s # t
  PROVE  Before(s, t) \/ Before(t, s)
<1>1. Len(s) \in Nat /\ Len(t) \in Nat /\ s \in Seq(Characters) /\ t \in Seq(Characters)
  BY DEF String
<1>2. CASE \E k \in Nat : k \in 1 .. Len(s) /\ k \in 1 .. Len(t) /\ s[k] # t[k]
  <2> DEFINE D == {k \in Nat : k \in 1 .. Len(s) /\ k \in 1 .. Len(t) /\ s[k] # t[k]}
  <2>1. PICK i \in D : \A k \in D : i <= k BY <1>2, LeastElement
  <2>2. i \in 1 .. Len(s) /\ i \in 1 .. Len(t) /\ s[i] # t[i] /\ i \in Nat OBVIOUS
  <2>3. \A k \in 1 .. i - 1 : s[k] = t[k] BY <1>1, <2>1, <2>2
  <2>4. s[i] \in Characters /\ t[i] \in Characters
    <3> HIDE DEF Characters, D
    <3> QED BY <1>1, <2>2, ElementOfSeq
  <2>5. /\ Rank(s[i]) \in Nat /\ Rank(t[i]) \in Nat /\ Rank(s[i]) # Rank(t[i])
    BY <2>2, <2>4, Ranks
  <2> HIDE DEF D
  <2>6. Rank(s[i]) < Rank(t[i]) \/ Rank(t[i]) < Rank(s[i]) BY <2>5
  <2>7. i <= Len(s) + 1 /\ i <= Len(t) + 1 BY <1>1, <2>2
  <2>8. DiffersAt(s, t, i) \/ DiffersAt(t, s, i) BY <2>2, <2>3, <2>6, <2>7 DEF DiffersAt
  <2> QED BY <2>2, <2>8, BeforeDiffers
<1>3. CASE ~\E k \in Nat : k \in 1 .. Len(s) /\ k \in 1 .. Len(t) /\ s[k] # t[k]
  <2>1. Len(s) # Len(t)
    <3> SUFFICES ASSUME Len(s) = Len(t) PROVE FALSE OBVIOUS
    <3>1. \A k \in 1 .. Len(s) : s[k] = t[k] BY <1>1, <1>3
    <3> HIDE DEF Characters
    <3> QED BY <1>1, <3>1, SeqEqual
  <2>2. CASE Len(s) < Len(t)
    <3>1. DiffersAt(s, t, Len(s) + 1) BY <1>1, <1>3, <2>2 DEF DiffersAt
    <3> QED BY <1>1, <3>1, BeforeDiffers
  <2>3. CASE Len(t) < Len(s)
    <3>1. DiffersAt(t, s, Len(t) + 1) BY <1>1, <1>3, <2>3 DEF DiffersAt
    <3> QED BY <1>1, <3>1, BeforeDiffers
  <2> QED BY <1>1, <2>1, <2>2, <2>3
<1> QED BY <1>2, <1>3

\* The variables have one order, up to equal strings.
Ordering(text) == {p \in (1 .. Len(text)) \X (1 .. Len(text)) : Precedes(text, p[1], p[2])}

LEMMA PrecedesIsTotal ==
  ASSUME NEW text \in Seq(String)
  PROVE  Total(Ordering(text), Len(text))
<1> DEFINE N == 1 .. Len(text)
<1>1. \A i \in N : text[i] \in String
  <2> HIDE DEF String
  <2> QED BY ElementOfSeq
<1>2. \A i, j \in N : <<i, j>> \in Ordering(text) <=> Precedes(text, i, j) BY DEF Ordering
<1>3. Len(text) \in Nat OBVIOUS
<1>4. \A i \in N : i \in Nat BY <1>3
<1>5. \A i \in N : <<i, i>> \notin Ordering(text)
  BY <1>1, <1>2, <1>4, BeforeIsStrict DEF Precedes
<1>6. ASSUME NEW i \in N, NEW j \in N, NEW k \in N, Precedes(text, i, j), Precedes(text, j, k)
      PROVE  Precedes(text, i, k)
  <2>1. i < j /\ j < k => i < k BY <1>4
  <2>2. Before(text[i], text[j]) /\ Before(text[j], text[k]) => Before(text[i], text[k])
    BY <1>1, BeforeIsTransitive
  <2> QED BY <1>6, <2>1, <2>2 DEF Precedes
<1>7. ASSUME NEW i \in N, NEW j \in N PROVE i = j \/ Precedes(text, i, j) \/ Precedes(text, j, i)
  <2>1. i = j \/ i < j \/ j < i BY <1>4
  <2>2. text[i] # text[j] => Before(text[i], text[j]) \/ Before(text[j], text[i])
    BY <1>1, BeforeIsTotal
  <2> QED BY <2>1, <2>2 DEF Precedes
<1> QED BY <1>2, <1>5, <1>6, <1>7 DEF Total

\* sort.Strings.
OrderOf(text) ==
  CHOOSE f \in [1 .. Len(text) -> 1 .. Len(text)] :
    /\ \A i \in 1 .. Len(text) : \E k \in 1 .. Len(text) : f[k] = i
    /\ \A i, j \in 1 .. Len(text) : i < j => Precedes(text, f[i], f[j])

\* o lists the places of the text in the order of their strings.
Lists(o, text) ==
  /\ o \in [1 .. Len(text) -> 1 .. Len(text)]
  /\ \A i \in 1 .. Len(text) : \E k \in 1 .. Len(text) : o[k] = i
  /\ \A i, j \in 1 .. Len(text) : i < j <=> Precedes(text, o[i], o[j])

LEMMA SortedLists ==
  ASSUME NEW text \in Seq(String)
  PROVE  /\ Lists(OrderOf(text), text)
         /\ \A k \in 1 .. Len(text) : sorted(text)[k] = text[OrderOf(text)[k]]
<1> DEFINE N == 1 .. Len(text)
           R == Ordering(text)
           o == OrderOf(text)
<1>1. Len(text) \in Nat /\ Total(R, Len(text)) BY PrecedesIsTotal
<1>2. PICK f : f \in Sortings(R, Len(text)) BY <1>1, SortingExists
<1>3. \A i, j \in N : <<i, j>> \in R <=> Precedes(text, i, j) BY DEF Ordering
<1>4. /\ f \in [N -> N]
      /\ \A i \in N : \E k \in N : f[k] = i
      /\ \A i, j \in N : i < j => Precedes(text, f[i], f[j])
  BY <1>2, <1>3 DEF Sortings
<1>5. /\ o \in [N -> N]
      /\ \A i \in N : \E k \in N : o[k] = i
      /\ \A i, j \in N : i < j => Precedes(text, o[i], o[j])
  BY <1>4 DEF OrderOf
<1>6. \A k \in N : sorted(text)[k] = text[o[k]] BY DEF sorted, OrderOf
<1> HIDE DEF o, R
<1>7. \A i, j \in N : Precedes(text, o[i], o[j]) => i < j
  <2> TAKE i, j \in N
  <2> HAVE Precedes(text, o[i], o[j])
  <2>1. o[i] \in N /\ o[j] \in N BY <1>5
  <2>2. <<o[i], o[j]>> \in R BY <1>3, <2>1
  <2>3. ~(<<o[j], o[i]>> \in R) /\ o[i] # o[j]
    <3>1. \A a, b \in N : <<a, b>> \in R => <<b, a>> \notin R /\ a # b BY <1>1 DEF Total
    <3> QED BY <2>1, <2>2, <3>1
  <2>4. ~(j < i) BY <1>3, <1>5, <2>1, <2>3
  <2>5. i # j BY <2>3
  <2>6. i \in Nat /\ j \in Nat BY <1>1
  <2> QED BY <2>4, <2>5, <2>6
<1>8. Lists(o, text) BY <1>5, <1>7 DEF Lists
<1> QED BY <1>6, <1>8 DEF o

(* What pathKey tells apart.                                               *)

Digits == {Digit[i] : i \in 1 .. 10}

LEMMA DigitFacts ==
  /\ \A i \in 1 .. 10 : Digit[i] \in Digits
  /\ \A i, j \in 1 .. 10 : Digit[i] = Digit[j] => i = j
  /\ ":" \notin Digits
<1>1. /\ Digit[1] = "0" /\ Digit[2] = "1" /\ Digit[3] = "2" /\ Digit[4] = "3" /\ Digit[5] = "4"
      /\ Digit[6] = "5" /\ Digit[7] = "6" /\ Digit[8] = "7" /\ Digit[9] = "8" /\ Digit[10] = "9"
  BY DEF Digit
<1>2. \A i \in 1 .. 10 : i = 1 \/ i = 2 \/ i = 3 \/ i = 4 \/ i = 5 \/ i = 6 \/ i = 7 \/ i = 8
                         \/ i = 9 \/ i = 10
  OBVIOUS
<1>3. \A i \in 1 .. 10 : Digit[i] # ":" BY <1>1, <1>2
<1>4. \A i, j \in 1 .. 10 : Digit[i] = Digit[j] => i = j BY <1>1, <1>2
<1> QED BY <1>3, <1>4 DEF Digits

LEMMA Halves ==
  \A n \in Nat : ~(n < 10) => n \div 10 \in Nat /\ n \div 10 < n
OBVIOUS

LEMMA Remainders ==
  \A n \in Nat : /\ n \div 10 \in Nat /\ (n % 10) + 1 \in 1 .. 10
                 /\ n = 10 * (n \div 10) + (n % 10)
OBVIOUS

LEMMA DecimalEquation ==
  \A n \in Nat : Decimal[n] = IF n < 10 THEN <<Digit[n + 1]>>
                              ELSE Decimal[n \div 10] \o <<Digit[(n % 10) + 1]>>
<1> DEFINE V == Seq(Digits)
           Defined(f, n) == IF n < 10 THEN <<Digit[n + 1]>> ELSE f[n \div 10] \o <<Digit[(n % 10) + 1]>>
           step == [n \in Nat |-> [f \in [Nat -> V] |-> Defined(f, n)]]
           size == [n \in Nat |-> n]
           none == <<>>
<1>1. none \in V OBVIOUS
<1>2. ASSUME NEW n \in Nat, NEW f \in [Nat -> V] PROVE Defined(f, n) \in V
  <2>1. CASE n < 10
    <3>1. n + 1 \in 1 .. 10 BY <2>1
    <3>2. Digit[n + 1] \in Digits BY <3>1, DigitFacts
    <3>3. \A d \in Digits : <<d>> \in Seq(Digits) OBVIOUS
    <3> QED BY <2>1, <3>2, <3>3
  <2>2. CASE ~(n < 10)
    <3>1. n \div 10 \in Nat /\ (n % 10) + 1 \in 1 .. 10 BY Remainders
    <3>2. f[n \div 10] \in V /\ Digit[(n % 10) + 1] \in Digits BY <3>1, DigitFacts
    <3> DEFINE d == Digit[(n % 10) + 1]
    <3>3. <<d>> \in V
      <4> HIDE DEF d
      <4> QED BY <3>2 DEF d
    <3>4. f[n \div 10] \o <<d>> \in V
      <4> HIDE DEF d, V
      <4> QED BY <3>2, <3>3, ConcatProperties DEF V
    <3> QED BY <2>2, <3>4
  <2> QED BY <2>1, <2>2
<1>3. \A n \in Nat : \A g, h \in [Nat -> V] :
        (\A t \in Nat : t < n => g[t] = h[t]) => Defined(g, n) = Defined(h, n)
  <2> TAKE n \in Nat
  <2> TAKE g, h \in [Nat -> V]
  <2> HAVE \A t \in Nat : t < n => g[t] = h[t]
  <2>1. CASE n < 10 BY <2>1
  <2>2. CASE ~(n < 10)
    <3>1. g[n \div 10] = h[n \div 10] BY <2>2, Halves
    <3> QED BY <2>2, <3>1
  <2> QED BY <2>1, <2>2
<1> HIDE DEF V, Defined, none
<1>4. step \in [Nat -> [[Nat -> V] -> V]] BY <1>2
<1>5. size \in [Nat -> Nat] OBVIOUS
<1>6. \A n \in Nat, g \in [Nat -> V] : step[n][g] = Defined(g, n) OBVIOUS
<1>7. LooksAtSmaller(Nat, V, size, step) BY <1>3, <1>6 DEF LooksAtSmaller
<1> HIDE DEF step, size
<1>8. PICK f : f \in FixedPoints(Nat, V, step) BY <1>1, <1>4, <1>5, <1>7, SizeRecursion
<1>9. f \in [Nat -> V] /\ \A n \in Nat : f[n] = Defined(f, n) BY <1>6, <1>8 DEF FixedPoints
<1>10. f = [n \in Nat |-> Defined(f, n)] BY <1>9
<1>11. Decimal = CHOOSE g : g = [n \in Nat |-> Defined(g, n)] BY DEF Decimal, Defined
<1>12. Decimal = [n \in Nat |-> Defined(Decimal, n)] BY <1>10, <1>11, Zenon
<1>13. \A n \in Nat : Decimal[n] = Defined(Decimal, n) BY <1>12
<1> QED BY <1>13 DEF Defined

\* Two texts are cut alike where their first parts have one length.
LEMMA EqualCuts ==
  ASSUME NEW C, NEW s \in Seq(C), NEW t \in Seq(C), NEW x \in Seq(C), NEW y \in Seq(C),
         Len(s) = Len(t), s \o x = t \o y
  PROVE  s = t /\ x = y
<1>1. After(s \o x, Len(s)) = x /\ SubSeq(s \o x, 1, Len(s)) = s BY RestOfPrefixed
<1>2. After(t \o y, Len(t)) = y /\ SubSeq(t \o y, 1, Len(t)) = t BY RestOfPrefixed
<1> QED BY <1>1, <1>2

LEMMA LastApart ==
  ASSUME NEW C, NEW s \in Seq(C), NEW t \in Seq(C), NEW c \in C, NEW d \in C,
         s \o <<c>> = t \o <<d>>
  PROVE  s = t /\ c = d
<1> DEFINE x == <<c>>
           y == <<d>>
<1>1. x \in Seq(C) /\ y \in Seq(C) /\ Len(x) = 1 /\ Len(y) = 1 /\ x[1] = c /\ y[1] = d OBVIOUS
<1>2. s \o x = t \o y OBVIOUS
<1> HIDE DEF x, y
<1>3. /\ Len(s \o x) = Len(s) + Len(x) /\ Len(t \o y) = Len(t) + Len(y)
      /\ Len(s) \in Nat /\ Len(t) \in Nat
  <2>1. \A u, v \in Seq(C) : Len(u \o v) = Len(u) + Len(v) BY ConcatProperties
  <2>2. \A u \in Seq(C) : Len(u) \in Nat OBVIOUS
  <2> QED BY <1>1, <2>1, <2>2
<1> DEFINE m == Len(s)
           n == Len(t)
<1>4. m \in Nat /\ n \in Nat /\ m + 1 = n + 1 BY <1>1, <1>2, <1>3
<1> HIDE DEF m, n
<1>6. m = n BY <1>4
<1>5. s = t /\ x = y BY <1>1, <1>2, <1>6, EqualCuts DEF m, n
<1> QED BY <1>1, <1>5

LEMMA DecimalType ==
  \A n \in Nat : /\ Decimal[n] \in Seq(Digits)
                 /\ IF n < 10 THEN Len(Decimal[n]) = 1 ELSE Len(Decimal[n]) > 1
<1> DEFINE Fine(n) == /\ Decimal[n] \in Seq(Digits)
                      /\ IF n < 10 THEN Len(Decimal[n]) = 1 ELSE Len(Decimal[n]) > 1
           N == {n \in Nat : ~Fine(n)}
<1> SUFFICES ASSUME N # {} PROVE FALSE OBVIOUS
<1>1. PICK n \in N : \A m \in N : n <= m
  <2>1. N \subseteq Nat OBVIOUS
  <2> HIDE DEF N
  <2> QED BY <2>1, LeastElement
<1>2. CASE n < 10
  <2> DEFINE d == Digit[n + 1]
  <2>1. d \in Digits
    <3>1. n + 1 \in 1 .. 10 BY <1>2
    <3> HIDE DEF d, N
    <3> QED BY <3>1, DigitFacts DEF d
  <2> HIDE DEF d
  <2>2. <<d>> \in Seq(Digits) /\ Len(<<d>>) = 1 BY <2>1
  <2>3. Decimal[n] = <<d>> BY <1>2, DecimalEquation DEF d
  <2>4. Fine(n)
    <3> HIDE DEF N
    <3> QED BY <1>2, <2>2, <2>3
  <2> QED BY <2>4
<1>3. CASE ~(n < 10)
  <2> DEFINE k == n \div 10
             d == Digit[(n % 10) + 1]
  <2>1. k \in Nat /\ k < n BY <1>3, Halves
  <2>2. d \in Digits BY Remainders, DigitFacts
  <2>3. Decimal[n] = Decimal[k] \o <<d>> BY <1>3, DecimalEquation
  <2> HIDE DEF k, d
  <2>4. Fine(k) BY <1>1, <2>1
  <2>5. Decimal[k] \in Seq(Digits) /\ Len(Decimal[k]) >= 1 /\ Len(Decimal[k]) \in Nat
    <3>1. Decimal[k] \in Seq(Digits) BY <2>4
    <3>2. Len(Decimal[k]) \in Nat BY <3>1
    <3> DEFINE l == Len(Decimal[k])
    <3>3. (k < 10 /\ l = 1) \/ (~(k < 10) /\ l > 1) BY <2>4
    <3>4. l \in Nat BY <3>2
    <3> HIDE DEF l, N
    <3>5. l >= 1 BY <3>3, <3>4
    <3> QED BY <3>1, <3>4, <3>5 DEF l
  <2>6. <<d>> \in Seq(Digits) /\ Len(<<d>>) = 1 BY <2>2
  <2> DEFINE D == Decimal[k]
             e == <<d>>
  <2>7. D \in Seq(Digits) /\ Len(D) >= 1 /\ Len(D) \in Nat /\ e \in Seq(Digits) /\ Len(e) = 1
    BY <2>5, <2>6
  <2>8. Decimal[n] = D \o e BY <2>3
  <2> HIDE DEF D, e, N
  <2>9. D \o e \in Seq(Digits) /\ Len(D \o e) = Len(D) + 1 BY <2>7, ConcatProperties
  <2>10. Len(D \o e) > 1 BY <2>7, <2>9
  <2>11. Fine(n) BY <1>3, <2>8, <2>9, <2>10
  <2> QED BY <2>11 DEF N
<1> QED BY <1>2, <1>3

LEMMA DecimalInjective ==
  \A n, m \in Nat : Decimal[n] = Decimal[m] => n = m
<1> DEFINE N == {n \in Nat : \E m \in Nat : Decimal[n] = Decimal[m] /\ n # m}
<1> SUFFICES ASSUME N # {} PROVE FALSE OBVIOUS
<1>1. PICK n \in N : \A m \in N : n <= m
  <2>1. N \subseteq Nat OBVIOUS
  <2> HIDE DEF N
  <2> QED BY <2>1, LeastElement
<1>2. PICK m \in Nat : Decimal[n] = Decimal[m] /\ n # m OBVIOUS
<1>3. n \in Nat OBVIOUS
<1>4. \A k \in Nat : k < n => k \notin N BY <1>1
<1>5. n < 10 <=> m < 10
  <2> DEFINE k == Len(Decimal[n])
             l == Len(Decimal[m])
  <2> HIDE DEF N
  <2>1. k = l BY <1>2
  <2>2. Decimal[n] \in Seq(Digits) /\ IF n < 10 THEN k = 1 ELSE k > 1 BY <1>3, DecimalType
  <2>3. IF m < 10 THEN l = 1 ELSE l > 1 BY DecimalType
  <2> HIDE DEF k, l
  <2> QED BY <2>1, <2>2, <2>3
<1>6. CASE n < 10
  <2> HIDE DEF N
  <2> DEFINE c == Digit[n + 1]
             d == Digit[m + 1]
  <2>1. n + 1 \in 1 .. 10 /\ m + 1 \in 1 .. 10 BY <1>3, <1>5, <1>6
  <2>2. Decimal[n] = <<c>> /\ Decimal[m] = <<d>> BY <1>3, <1>5, <1>6, DecimalEquation
  <2>3. c = d
    <3> HIDE DEF c, d
    <3>1. <<c>> = <<d>> BY <1>2, <2>2
    <3>2. <<c>>[1] = c /\ <<d>>[1] = d OBVIOUS
    <3> QED BY <3>1, <3>2
  <2>4. n + 1 = m + 1 BY <2>1, <2>3, DigitFacts
  <2> QED BY <1>2, <1>3, <2>4
<1>7. CASE ~(n < 10)
  <2> DEFINE j == n \div 10
             k == m \div 10
             c == Digit[(n % 10) + 1]
             d == Digit[(m % 10) + 1]
  <2>1. j \in Nat /\ j < n /\ k \in Nat /\ n = 10 * j + (n % 10) /\ m = 10 * k + (m % 10)
    BY <1>3, <1>7, Halves, Remainders
  <2>2. Decimal[n] = Decimal[j] \o <<c>> /\ Decimal[m] = Decimal[k] \o <<d>>
    BY <1>3, <1>5, <1>7, DecimalEquation
  <2>3. (n % 10) + 1 \in 1 .. 10 /\ (m % 10) + 1 \in 1 .. 10 BY <1>3, Remainders
  <2>4. c \in Digits /\ d \in Digits BY <2>3, DigitFacts
  <2>5. Decimal[j] \in Seq(Digits) /\ Decimal[k] \in Seq(Digits) BY <2>1, DecimalType
  <2>6. Decimal[j] = Decimal[k] /\ c = d
    <3> DEFINE J == Decimal[j]
               K == Decimal[k]
    <3>1. J \o <<c>> = K \o <<d>> BY <1>2, <2>2
    <3>2. J \in Seq(Digits) /\ K \in Seq(Digits) BY <2>5
    <3> HIDE DEF J, K, N, c, d
    <3>3. J = K /\ c = d BY <2>4, <3>1, <3>2, LastApart
    <3> QED BY <3>3 DEF J, K
  <2>7. (n % 10) + 1 = (m % 10) + 1 BY <2>3, <2>6, DigitFacts
  <2>8. n % 10 = m % 10
    <3>1. n % 10 \in Nat /\ m % 10 \in Nat BY <1>3
    <3> QED BY <2>7, <3>1
  <2>9. j \notin N BY <1>4, <2>1
  <2> HIDE DEF j, k
  <2>10. j = k BY <2>1, <2>6, <2>9
  <2> QED BY <1>2, <2>1, <2>8, <2>10
<1> QED BY <1>6, <1>7

\* The key of a segment, and of the segments after it.
Keyed(segment, rest) == Decimal[Len(segment)] \o <<":">> \o segment \o rest

LEMMA KeyedParts ==
  ASSUME NEW s \in String, NEW r \in Seq(Glyphs)
  PROVE  /\ Decimal[Len(s)] \in Seq(Digits) /\ Decimal[Len(s)] \in Seq(Glyphs)
         /\ <<":">> \in Seq(Glyphs) /\ s \in Seq(Glyphs) /\ s \o r \in Seq(Glyphs)
         /\ Decimal[Len(s)] \o <<":">> \in Seq(Glyphs)
         /\ Keyed(s, r) = (Decimal[Len(s)] \o <<":">>) \o (s \o r)
         /\ Keyed(s, r) \in Seq(Glyphs)
<1> DEFINE D == Decimal[Len(s)]
           colon == <<":">>
           A == D \o colon
<1>1. Len(s) \in Nat BY DEF String
<1>2. D \in Seq(Digits) BY <1>1, DecimalType
<1>3. D \in Seq(Glyphs)
  <2>1. Digits \subseteq Glyphs BY DEF Digits, Glyphs
  <2> HIDE DEF Digits, Glyphs, D
  <2> QED BY <1>2, <2>1, SeqMonotonic
<1>4. colon \in Seq(Glyphs)
  <2>1. ":" \in Glyphs BY DEF Glyphs
  <2>2. \A c \in Glyphs : <<c>> \in Seq(Glyphs) OBVIOUS
  <2> QED BY <2>1, <2>2
<1>5. s \in Seq(Glyphs) BY StringIsGlyphs
<1> HIDE DEF D, colon
<1>6. \A u, v \in Seq(Glyphs) : u \o v \in Seq(Glyphs) BY ConcatProperties
<1>7. A \in Seq(Glyphs) BY <1>3, <1>4, <1>6
<1>8. s \o r \in Seq(Glyphs) BY <1>5, <1>6
<1> HIDE DEF A
<1>9. (A \o s) \o r = A \o (s \o r) BY <1>5, <1>7, Associative
<1>10. A \o (s \o r) \in Seq(Glyphs) BY <1>6, <1>7, <1>8
<1>11. Keyed(s, r) = (A \o s) \o r BY DEF Keyed, A, D, colon
<1> QED BY <1>2, <1>3, <1>4, <1>5, <1>7, <1>8, <1>9, <1>10, <1>11 DEF A, D, colon

LEMMA PathKeyEquation ==
  /\ pathKey[<<>>] = <<>>
  /\ \A path \in Seq(String) \ {<<>>} : pathKey[path] = Keyed(path[1], pathKey[Tail(path)])
<1> DEFINE V == Seq(Glyphs)
           D == Seq(String)
           first == <<>>
           step == [path \in D \ {<<>>} |-> [v \in V |-> [w \in V |-> Keyed(path[1], v)]]]
           Defined(f, path) == IF path = <<>> THEN <<>>
                            ELSE Decimal[Len(path[1])] \o <<":">> \o path[1] \o f[Tail(path)]
<1>1. first \in V OBVIOUS
<1>2. ASSUME NEW path \in D \ {<<>>}, NEW v \in V PROVE Keyed(path[1], v) \in V
  <2>1. path[1] \in String BY TailOfPath
  <2> QED BY <2>1, KeyedParts
<1> HIDE DEF V
<1>3. step \in [D \ {<<>>} -> [V -> [V -> V]]] BY <1>2
<1>4. \A path \in D \ {<<>>}, v \in V, w \in V : step[path][v][w] = Keyed(path[1], v) OBVIOUS
<1> HIDE DEF step, first
<1>5. PICK f : f \in RecursiveOnSeq(String, V, first, step) BY <1>1, <1>3, SequenceRecursion
<1>6. f \in [D -> V] BY <1>5 DEF RecursiveOnSeq
<1>7. ASSUME NEW g, NEW path \in D
      PROVE  Defined(g, path) = IF path = <<>> THEN <<>> ELSE Keyed(path[1], g[Tail(path)])
  BY DEF Keyed
<1> HIDE DEF Defined, D
<1>8. ASSUME NEW path \in D PROVE f[path] = Defined(f, path)
  <2>1. CASE path = <<>> BY <1>5, <1>7, <2>1 DEF RecursiveOnSeq, first
  <2>2. CASE path # <<>>
    <3>1. f[path] = step[path][f[SubSeq(path, 2, Len(path))]][f[SubSeq(path, 3, Len(path))]]
      BY <1>5, <2>2 DEF RecursiveOnSeq, D
    <3>2. Tail(path) = SubSeq(path, 2, Len(path)) /\ Tail(path) \in D
      BY <2>2, TailOfPath DEF D
    <3>3. SubSeq(path, 3, Len(path)) \in D
      <4>1. Len(path) \in Nat BY DEF D
      <4> QED BY <4>1 DEF D
    <3>4. f[Tail(path)] \in V /\ f[SubSeq(path, 3, Len(path))] \in V BY <1>6, <3>2, <3>3
    <3>5. path \in D \ {<<>>} BY <2>2
    <3>6. step[path][f[Tail(path)]][f[SubSeq(path, 3, Len(path))]] = Keyed(path[1], f[Tail(path)])
      BY <1>4, <3>4, <3>5
    <3>7. f[path] = Keyed(path[1], f[Tail(path)]) BY <3>1, <3>2, <3>6
    <3> QED BY <1>7, <2>2, <3>7
  <2> QED BY <2>1, <2>2
<1>9. f = [path \in D |-> Defined(f, path)] BY <1>6, <1>8
<1>10. pathKey = CHOOSE g : g = [path \in D |-> Defined(g, path)] BY DEF pathKey, Defined, D
<1>11. pathKey = [path \in D |-> Defined(pathKey, path)] BY <1>9, <1>10, Zenon
<1>12. \A path \in D : pathKey[path] = Defined(pathKey, path) BY <1>11
<1>13. <<>> \in D BY DEF D
<1> QED BY <1>7, <1>12, <1>13 DEF D

LEMMA PathKeyType ==
  \A path \in Seq(String) : pathKey[path] \in Seq(Glyphs)
<1> DEFINE S == {path \in Seq(String) : pathKey[path] \in Seq(Glyphs)}
           D == String
<1>1. <<>> \in Seq(Glyphs) OBVIOUS
<1>2. ASSUME NEW path \in Seq(D), \A t \in Seq(D) : Len(t) < Len(path) => t \in S PROVE path \in S
  <2>1. CASE path = <<>> BY <1>1, <2>1, PathKeyEquation
  <2>2. CASE path # <<>>
    <3>1. path[1] \in String /\ Tail(path) \in Seq(D) /\ Len(Tail(path)) = Len(path) - 1
           /\ Len(path) \in Nat \ {0}
      BY <2>2, TailOfPath
    <3>2. Tail(path) \in S
      <4>1. Len(Tail(path)) < Len(path) BY <3>1
      <4> QED BY <1>2, <3>1, <4>1
    <3>3. Keyed(path[1], pathKey[Tail(path)]) \in Seq(Glyphs) BY <3>1, <3>2, KeyedParts
    <3> QED BY <2>2, <3>3, PathKeyEquation
  <2> QED BY <2>1, <2>2
<1> HIDE DEF S, D
<1>3. \A path \in Seq(D) : path \in S BY <1>2, ShorterInSet
<1> QED BY <1>3 DEF S, D

\* The digits end where the colon is.
LEMMA ColonNotEarlier ==
  ASSUME NEW s \in Seq(Digits), NEW t \in Seq(Digits), NEW x \in Seq(Glyphs), NEW y \in Seq(Glyphs),
         (s \o <<":">>) \o x = (t \o <<":">>) \o y
  PROVE  ~(Len(s) < Len(t))
<1> SUFFICES ASSUME Len(s) < Len(t) PROVE FALSE OBVIOUS
<1> DEFINE colon == <<":">>
           u == s \o colon
           v == t \o colon
           n == Len(s) + 1
<1>1. /\ colon \in Seq(Glyphs) /\ Len(colon) = 1
      /\ s \in Seq(Glyphs) /\ t \in Seq(Glyphs)
  <2>1. ":" \in Glyphs BY DEF Glyphs
  <2>2. \A c \in Glyphs : <<c>> \in Seq(Glyphs) /\ Len(<<c>>) = 1 OBVIOUS
  <2>3. Digits \subseteq Glyphs BY DEF Digits, Glyphs
  <2>4. s \in Seq(Glyphs) /\ t \in Seq(Glyphs)
    <3> HIDE DEF Digits, Glyphs
    <3> QED BY <2>3, SeqMonotonic
  <2> QED BY <2>1, <2>2, <2>4
<1>2. Len(s) \in Nat /\ Len(t) \in Nat BY <1>1
<1>3. n \in 1 .. Len(t) /\ ~(n <= Len(s)) /\ n - Len(s) = 1 /\ n \in 1 .. Len(s) + 1
      /\ n \in 1 .. Len(t) + 1
  <2> DEFINE l == Len(s)
             m == Len(t)
  <2>1. l \in Nat /\ m \in Nat /\ l < m BY <1>2
  <2> HIDE DEF l, m
  <2>2. /\ l + 1 \in 1 .. m /\ ~(l + 1 <= l) /\ (l + 1) - l = 1 /\ l + 1 \in 1 .. l + 1
        /\ l + 1 \in 1 .. m + 1
    BY <2>1
  <2> QED BY <2>2 DEF l, m
<1>4. colon[1] = ":" OBVIOUS
<1> HIDE DEF colon, n
<1>5. \A p, q \in Seq(Glyphs) :
        /\ p \o q \in Seq(Glyphs) /\ Len(p \o q) = Len(p) + Len(q)
        /\ \A i \in 1 .. Len(p) + Len(q) : (p \o q)[i] = IF i <= Len(p) THEN p[i] ELSE q[i - Len(p)]
  BY ConcatProperties
<1>6. u \in Seq(Glyphs) /\ Len(u) = Len(s) + 1 /\ u[n] = colon[1]
  <2>5. u \in Seq(Glyphs) BY <1>1, <1>5
  <2>6. Len(u) = Len(s) + Len(colon) BY <1>1, <1>5
  <2> HIDE DEF u
  <2>1. u \in Seq(Glyphs) /\ Len(u) = Len(s) + 1 BY <1>1, <2>5, <2>6
  <2> USE DEF u
  <2>2. n \in 1 .. Len(s) + Len(colon) BY <1>1, <1>3
  <2>3. u[n] = IF n <= Len(s) THEN s[n] ELSE colon[n - Len(s)] BY <1>1, <1>5, <2>2
  <2>4. u[n] = colon[n - Len(s)] BY <1>3, <2>3
  <2> QED BY <1>3, <2>1, <2>4
<1>7. v \in Seq(Glyphs) /\ Len(v) = Len(t) + 1 /\ v[n] = t[n]
  <2>1. n <= Len(t) BY <1>2, <1>3
  <2> QED BY <1>1, <1>3, <1>5, <2>1
<1>8. u \o x = v \o y BY DEF u, v, colon
<1> HIDE DEF u, v
<1>9. (u \o x)[n] = u[n]
  <2>1. n <= Len(u) /\ n \in 1 .. Len(u) + Len(x)
    <3>1. Len(x) \in Nat OBVIOUS
    <3> HIDE DEF n
    <3> QED BY <1>2, <1>3, <1>6, <3>1
  <2> QED BY <1>5, <1>6, <2>1
<1>10. (v \o y)[n] = v[n]
  <2>1. n <= Len(v) /\ n \in 1 .. Len(v) + Len(y)
    <3>1. Len(y) \in Nat OBVIOUS
    <3> QED BY <1>2, <1>3, <1>7, <3>1
  <2> QED BY <1>5, <1>7, <2>1
<1>11. t[n] = ":" BY <1>4, <1>6, <1>7, <1>8, <1>9, <1>10
<1>12. t[n] \in Digits BY <1>3, ElementOfSeq
<1> QED BY <1>11, <1>12, DigitFacts

\* No two paths have one key.
LEMMA PathKeyInjective ==
  \A p, q \in Seq(String) : pathKey[p] = pathKey[q] => p = q
<1> DEFINE D == String
           S == {p \in Seq(String) : \A q \in Seq(String) : pathKey[p] = pathKey[q] => p = q}
<1>1. \A p \in Seq(String) \ {<<>>} : pathKey[p] # <<>>
  <2> TAKE p \in Seq(String) \ {<<>>}
  <2> DEFINE s == p[1]
             r == pathKey[Tail(p)]
             A == Decimal[Len(s)]
             colon == <<":">>
  <2>1. s \in String /\ r \in Seq(Glyphs) BY TailOfPath, PathKeyType
  <2>2. pathKey[p] = Keyed(s, r) BY PathKeyEquation
  <2>3. /\ A \in Seq(Glyphs) /\ colon \in Seq(Glyphs) /\ s \o r \in Seq(Glyphs)
        /\ A \o colon \in Seq(Glyphs) /\ Keyed(s, r) = (A \o colon) \o (s \o r)
    <3> HIDE DEF s, r
    <3> QED BY <2>1, KeyedParts
  <2>4. Len(colon) = 1 OBVIOUS
  <2> HIDE DEF A, colon, s, r
  <2>5. Len((A \o colon) \o (s \o r)) = Len(A) + Len(colon) + Len(s \o r)
    <3>1. \A x, y \in Seq(Glyphs) : Len(x \o y) = Len(x) + Len(y) BY ConcatProperties
    <3> QED BY <2>3, <3>1
  <2>6. Len(A) \in Nat /\ Len(s \o r) \in Nat BY <2>3
  <2>7. Len(Keyed(s, r)) # 0 BY <2>3, <2>4, <2>5, <2>6
  <2>8. Len(<<>>) = 0 OBVIOUS
  <2> QED BY <2>2, <2>7, <2>8
<1>2. ASSUME NEW p \in Seq(D), \A t \in Seq(D) : Len(t) < Len(p) => t \in S PROVE p \in S
  <2> SUFFICES ASSUME NEW q \in Seq(String), pathKey[p] = pathKey[q] PROVE p = q OBVIOUS
  <2>1. CASE p = <<>> \/ q = <<>> BY <1>1, <2>1, PathKeyEquation
  <2>2. CASE p # <<>> /\ q # <<>>
    <3> DEFINE s == p[1]
               t == q[1]
               x == pathKey[Tail(p)]
               y == pathKey[Tail(q)]
               A == Decimal[Len(s)]
               B == Decimal[Len(t)]
               a == A \o <<":">>
               b == B \o <<":">>
    <3>1. /\ s \in String /\ Tail(p) \in Seq(String) /\ Len(Tail(p)) = Len(p) - 1
          /\ Len(p) \in Nat \ {0}
      BY <2>2, TailOfPath
    <3>2. t \in String /\ Tail(q) \in Seq(String) BY <2>2, TailOfPath
    <3>3. x \in Seq(Glyphs) /\ y \in Seq(Glyphs) BY <3>1, <3>2, PathKeyType
    <3>4. Keyed(s, x) = Keyed(t, y) BY <2>2, PathKeyEquation
    <3>5. p = <<s>> \o Tail(p) /\ q = <<t>> \o Tail(q) BY <2>2, HeadAndRest
    <3>20. s \in Seq(Characters) /\ t \in Seq(Characters) BY <3>1, <3>2 DEF String
    <3> HIDE DEF s, t, x, y
    <3>21. Len(s) \in Nat /\ Len(t) \in Nat
      <4> HIDE DEF Characters
      <4> QED BY <3>20
    <3>6. /\ A \in Seq(Digits) /\ s \in Seq(Glyphs) /\ s \o x \in Seq(Glyphs) /\ a \in Seq(Glyphs)
          /\ Keyed(s, x) = a \o (s \o x)
      BY <3>1, <3>3, KeyedParts
    <3>7. /\ B \in Seq(Digits) /\ t \in Seq(Glyphs) /\ t \o y \in Seq(Glyphs) /\ b \in Seq(Glyphs)
          /\ Keyed(t, y) = b \o (t \o y)
      BY <3>2, <3>3, KeyedParts
    <3>8. (A \o <<":">>) \o (s \o x) = (B \o <<":">>) \o (t \o y) BY <3>4, <3>6, <3>7
    <3>9. ~(Len(A) < Len(B)) /\ ~(Len(B) < Len(A))
      <4> DEFINE X == s \o x
                 Y == t \o y
      <4>1. X \in Seq(Glyphs) /\ Y \in Seq(Glyphs) BY <3>6, <3>7
      <4>2. (A \o <<":">>) \o X = (B \o <<":">>) \o Y BY <3>8
      <4> HIDE DEF A, B, X, Y
      <4> QED BY <3>6, <3>7, <4>1, <4>2, ColonNotEarlier
    <3>10. Len(A) = Len(B)
      <4>1. Len(A) \in Nat /\ Len(B) \in Nat BY <3>6, <3>7
      <4> HIDE DEF A, B
      <4> QED BY <3>9, <4>1
    <3>11. Len(a) = Len(b)
      <4> DEFINE colon == <<":">>
      <4>1. \A u, v \in Seq(Glyphs) : Len(u \o v) = Len(u) + Len(v) BY ConcatProperties
      <4>2. A \in Seq(Glyphs) /\ B \in Seq(Glyphs) /\ colon \in Seq(Glyphs)
        BY <3>1, <3>2, <3>3, KeyedParts
      <4> HIDE DEF A, B, colon
      <4>3. Len(A \o colon) = Len(A) + Len(colon) /\ Len(B \o colon) = Len(B) + Len(colon)
        BY <4>1, <4>2
      <4>4. Len(A \o colon) = Len(B \o colon) BY <3>10, <4>3
      <4> QED BY <4>4 DEF colon
    <3>12. a = b /\ s \o x = t \o y
      <4> DEFINE X == s \o x
                 Y == t \o y
      <4>1. a \in Seq(Glyphs) /\ b \in Seq(Glyphs) /\ X \in Seq(Glyphs) /\ Y \in Seq(Glyphs)
            /\ a \o X = b \o Y
        BY <3>6, <3>7, <3>8
      <4> HIDE DEF a, b, X, Y
      <4>2. a = b /\ X = Y BY <3>11, <4>1, EqualCuts
      <4> QED BY <4>2 DEF X, Y
    <3>13. A = B
      <4> DEFINE c == ":"
      <4>1. c \in Glyphs BY DEF Glyphs
      <4>2. A \o <<c>> = B \o <<c>> BY <3>12
      <4>3. A \in Seq(Glyphs) /\ B \in Seq(Glyphs) BY <3>1, <3>2, <3>3, KeyedParts
      <4> HIDE DEF A, B, c
      <4> QED BY <4>1, <4>2, <4>3, LastApart
    <3>14. Len(s) = Len(t)
      <4> HIDE DEF S
      <4> QED BY <3>13, <3>21, DecimalInjective DEF A, B
    <3>15. s = t /\ x = y
      <4>1. s \in Seq(Glyphs) /\ t \in Seq(Glyphs) /\ x \in Seq(Glyphs) /\ y \in Seq(Glyphs)
        BY <3>3, <3>6, <3>7
      <4>2. s \o x = t \o y BY <3>12
      <4> HIDE DEF x, y, S, D, Glyphs
      <4>3. \A u, v, w, z \in Seq(Glyphs) : Len(u) = Len(v) /\ u \o w = v \o z => u = v /\ w = z
        BY EqualCuts
      <4> QED BY <3>14, <4>1, <4>2, <4>3
    <3>16. Tail(p) = Tail(q)
      <4>1. Len(Tail(p)) < Len(p) BY <3>1
      <4>2. Tail(p) \in S BY <1>2, <3>1, <4>1
      <4> QED BY <3>2, <3>15, <4>2 DEF x, y
    <3> QED BY <3>5, <3>15, <3>16
  <2> QED BY <2>1, <2>2
<1> HIDE DEF S, D
<1>3. \A p \in Seq(D) : p \in S BY <1>2, ShorterInSet
<1> QED BY <1>3 DEF S, D

\* Where a variable is cut.
LEMMA CutParts ==
  ASSUME NEW kv \in String, Contains(kv, "=")
  PROVE  /\ Cut(kv).name \in String /\ Cut(kv).value \in String
         /\ Valid(kv) <=> Valid(Cut(kv).name) /\ Valid(Cut(kv).value)
<1> DEFINE i == First(kv, "=")
           D == {k \in Nat : k \in 1 .. Len(kv) /\ kv[k] = "="}
<1>1. kv \in Seq(Characters) /\ Len(kv) \in Nat BY DEF String
<1>2. i \in 1 .. Len(kv) /\ kv[i] = "="
  <2>1. PICK k \in D : \A j \in D : k <= j
    <3>1. D \subseteq Nat /\ D # {} BY <1>1 DEF Contains
    <3> HIDE DEF D
    <3> QED BY <3>1, LeastElement
  <2>2. k \in 1 .. Len(kv) /\ kv[k] = "=" /\ \A j \in 1 .. k - 1 : kv[j] # "="
    <3>1. k \in 1 .. Len(kv) /\ kv[k] = "=" OBVIOUS
    <3>2. \A j \in 1 .. k - 1 : j \in 1 .. Len(kv) /\ ~(k <= j) BY <1>1, <3>1
    <3>3. \A j \in 1 .. k - 1 : j \notin D BY <2>1, <3>2
    <3> QED BY <1>1, <3>1, <3>2, <3>3
  <2> QED BY <2>2 DEF First
<1> HIDE DEF i, D
<1> DEFINE n == i - 1
           name == SubSeq(kv, 1, n)
           value == After(kv, i)
<1>3. n \in 0 .. Len(kv) /\ i \in 0 .. Len(kv) /\ n + 1 = i BY <1>1, <1>2
<1>4. Cut(kv).name = name /\ Cut(kv).value = value BY DEF Cut, CutAt, i
<1> HIDE DEF n
<1>5. name \in String /\ Len(name) = n /\ \A k \in 1 .. n : name[k] = kv[k] BY <1>3, FirstOnes
<1>6. /\ value \in String /\ Len(value) = Len(kv) - i
      /\ \A k \in 1 .. Len(kv) - i : value[k] = kv[i + k]
  <2> HIDE DEF Characters
  <2> QED BY <1>1, <1>3, Rests DEF String
<1> HIDE DEF name, value
<1>7. ASSUME Valid(kv) PROVE Valid(name) /\ Valid(value)
  <2>1. \A k \in 1 .. n : k \in 1 .. Len(kv) BY <1>1, <1>2, <1>3
  <2>2. \A k \in 1 .. Len(kv) - i : i + k \in 1 .. Len(kv) BY <1>1, <1>2
  <2> QED BY <1>5, <1>6, <1>7, <2>1, <2>2 DEF Valid
<1>8. ASSUME Valid(name), Valid(value) PROVE Valid(kv)
  <2> SUFFICES ASSUME NEW k \in 1 .. Len(kv) PROVE kv[k] # BadByte BY DEF Valid
  <2>1. CASE k = i BY <1>2, <2>1, AlphabetAssumption
  <2>2. CASE k < i
    <3>1. k \in 1 .. n BY <1>1, <1>2, <1>3, <2>2
    <3> QED BY <1>5, <1>8, <3>1 DEF Valid
  <2>3. CASE k > i
    <3>1. k - i \in 1 .. Len(kv) - i /\ i + (k - i) = k BY <1>1, <1>2, <2>3
    <3>2. value[k - i] = kv[i + (k - i)] BY <1>6, <3>1
    <3> QED BY <1>6, <1>8, <3>1, <3>2 DEF Valid
  <2> QED BY <1>1, <1>2, <2>1, <2>2, <2>3
<1> QED BY <1>4, <1>5, <1>6, <1>7, <1>8

(* What is read of a line.                                                 *)

\* The numbers up to k are in B and the next is not, or there is none; the same
\* from the other end.
Leads(B, n, k) == /\ k \in 0 .. n /\ \A i \in 1 .. k : i \in B
                  /\ k = n \/ k + 1 \notin B
Trails(B, n, k) == /\ k \in 0 .. n /\ \A i \in k + 1 .. n : i \in B
                   /\ k = 0 \/ k \notin B

LEMMA LeadsUpTo ==
  ASSUME NEW n \in Nat, NEW B
  PROVE  /\ \E k : Leads(B, n, k)
         /\ \A k : Leads(B, n, k) /\ (n = 0 \/ 1 \notin B) => k = 0
<1> DEFINE D == {k \in Nat : k = n \/ (k < n /\ k + 1 \notin B)}
<1>1. PICK k \in D : \A i \in D : k <= i
  <2>1. D \subseteq Nat /\ n \in D OBVIOUS
  <2> HIDE DEF D
  <2> QED BY <2>1, LeastElement
<1>2. \A i \in 1 .. k : i \in B
  <2> TAKE i \in 1 .. k
  <2>1. i - 1 \in Nat /\ i - 1 < k /\ i - 1 < n /\ (i - 1) + 1 = i BY <1>1
  <2>2. i - 1 \notin D BY <1>1, <2>1
  <2> QED BY <2>1, <2>2
<1>3. Leads(B, n, k) BY <1>1, <1>2 DEF Leads
<1> QED BY <1>3 DEF Leads

LEMMA TrailsFrom ==
  ASSUME NEW n \in Nat, NEW B
  PROVE  /\ \E k : Trails(B, n, k)
         /\ \A k : Trails(B, n, k) /\ n \notin B => k = n
<1> DEFINE D == {k \in Nat : k = 0 \/ (k <= n /\ k \notin B)}
<1>1. PICK k \in D : \A i \in D : i <= k
  <2>1. D \subseteq Nat /\ 0 \in D /\ \A i \in D : i <= n OBVIOUS
  <2> HIDE DEF D
  <2> QED BY <2>1, GreatestElement
<1>2. \A i \in k + 1 .. n : i \in B BY <1>1
<1>3. Trails(B, n, k) BY <1>1, <1>2 DEF Trails
<1> QED BY <1>3 DEF Trails

Blanks(s) == {i \in 1 .. Len(s) : s[i] = " "}

\* Trimming keeps a text's characters, and a text without spaces at its ends.
LEMMA TrimLeftType ==
  ASSUME NEW C, NEW s \in Seq(C)
  PROVE  /\ TrimLeft(s) \in Seq(C)
         /\ (s = <<>> \/ s[1] # " ") => TrimLeft(s) = s
<1> DEFINE n == Len(s)
           B == Blanks(s)
           k == Spaces(s)
<1>1. n \in Nat /\ (s = <<>> => n = 0) OBVIOUS
<1>2. \A j \in 0 .. n : (/\ \A i \in 1 .. j : s[i] = " "
                         /\ j = n \/ s[j + 1] # " ") <=> Leads(B, n, j)
  <2> TAKE j \in 0 .. n
  <2>1. \A i \in 1 .. j : i \in 1 .. n BY <1>1
  <2>2. j # n => j + 1 \in 1 .. n BY <1>1
  <2> QED BY <2>1, <2>2 DEF Leads, Blanks
<1>3. \E j \in 0 .. n : Leads(B, n, j) BY <1>1, LeadsUpTo DEF Leads
<1>4. k \in 0 .. n /\ Leads(B, n, k)
  <2>1. k = CHOOSE j \in 0 .. n : (/\ \A i \in 1 .. j : s[i] = " "
                                   /\ j = n \/ s[j + 1] # " ") BY DEF Spaces
  <2> HIDE DEF B, n, k
  <2> QED BY <1>2, <1>3, <2>1
<1>5. (s = <<>> \/ s[1] # " ") => n = 0 \/ 1 \notin B
  <2>1. s[1] # " " => 1 \notin B BY DEF Blanks
  <2> HIDE DEF B, n
  <2> QED BY <1>1, <2>1
<1> HIDE DEF n, B, k
<1>6. TrimLeft(s) \in Seq(C) BY <1>4, Rests DEF TrimLeft, k, n
<1>7. ASSUME s = <<>> \/ s[1] # " " PROVE TrimLeft(s) = s
  <2>1. k = 0 BY <1>1, <1>4, <1>5, <1>7, LeadsUpTo
  <2>2. TrimLeft(s) = SubSeq(s, 1, Len(s)) BY <2>1 DEF TrimLeft, After, k
  <2> QED BY <2>2, SubSeqFull
<1> QED BY <1>6, <1>7

LEMMA TrimRightType ==
  ASSUME NEW C, NEW s \in Seq(C)
  PROVE  /\ TrimRight(s) \in Seq(C)
         /\ (s = <<>> \/ s[Len(s)] # " ") => TrimRight(s) = s
<1> DEFINE n == Len(s)
           B == Blanks(s)
           k == CHOOSE j \in 0 .. n : (/\ \A i \in j + 1 .. n : s[i] = " "
                                       /\ j = 0 \/ s[j] # " ")
<1>1. n \in Nat /\ (s = <<>> => n = 0) OBVIOUS
<1>2. \A j \in 0 .. n : (/\ \A i \in j + 1 .. n : s[i] = " "
                         /\ j = 0 \/ s[j] # " ") <=> Trails(B, n, j)
  <2> TAKE j \in 0 .. n
  <2>1. \A i \in j + 1 .. n : i \in 1 .. n BY <1>1
  <2>2. j # 0 => j \in 1 .. n BY <1>1
  <2> QED BY <2>1, <2>2 DEF Trails, Blanks
<1>3. \E j \in 0 .. n : Trails(B, n, j) BY <1>1, TrailsFrom DEF Trails
<1>4. k \in 0 .. n /\ Trails(B, n, k)
  <2> HIDE DEF B, n
  <2> QED BY <1>2, <1>3
<1>5. TrimRight(s) = SubSeq(s, 1, k) BY DEF TrimRight
<1>6. (s = <<>> \/ s[Len(s)] # " ") => n \notin B
  <2>1. s[Len(s)] # " " => n \notin B BY DEF Blanks
  <2>2. \A i \in B : i \in 1 .. n BY DEF Blanks
  <2> HIDE DEF B, n
  <2>3. n = 0 => n \notin B BY <2>2
  <2> QED BY <1>1, <2>1, <2>3
<1> HIDE DEF n, B, k
<1>7. TrimRight(s) \in Seq(C)
  <2>1. \A j \in 0 .. Len(s) : SubSeq(s, 1, j) \in Seq(C) OBVIOUS
  <2> QED BY <1>4, <1>5, <2>1 DEF n
<1>8. ASSUME s = <<>> \/ s[Len(s)] # " " PROVE TrimRight(s) = s
  <2>1. k = n BY <1>1, <1>4, <1>6, <1>8, TrailsFrom
  <2>2. TrimRight(s) = SubSeq(s, 1, Len(s)) BY <1>5, <2>1 DEF n
  <2> QED BY <2>2, SubSeqFull
<1> QED BY <1>7, <1>8

LEMMA TrimSpaceType ==
  ASSUME NEW C, NEW s \in Seq(C)
  PROVE  /\ TrimSpace(s) \in Seq(C)
         /\ (s = <<>> \/ (s[1] # " " /\ s[Len(s)] # " ")) => TrimSpace(s) = s
<1>1. TrimLeft(s) \in Seq(C) BY TrimLeftType
<1>2. TrimRight(TrimLeft(s)) \in Seq(C) BY <1>1, TrimRightType
<1>3. ASSUME s = <<>> \/ (s[1] # " " /\ s[Len(s)] # " ") PROVE TrimSpace(s) = s
  <2>1. TrimLeft(s) = s BY <1>3, TrimLeftType
  <2>2. TrimRight(s) = s BY <1>3, TrimRightType
  <2> QED BY <2>1, <2>2 DEF TrimSpace
<1> QED BY <1>2, <1>3 DEF TrimSpace

\* The name in a line.
LEMMA NameInType ==
  ASSUME NEW raw \in String, Contains(Body(raw), "=")
  PROVE  NameIn(raw) \in String
<1> DEFINE C == Characters
           s == TrimSpace(raw)
           b == Body(raw)
           i == First(b, "=")
<1>1. s \in Seq(C)
  <2> HIDE DEF C
  <2> QED BY TrimSpaceType DEF String, C
<1>2. b \in Seq(C)
  <2>1. CASE HasPrefix(s, <<"export", " ">>)
    <3>1. 1 \in 0 .. Len(s)
      <4>1. Len(<<"export", " ">>) = 2 OBVIOUS
      <4>2. 2 <= Len(s) BY <2>1, <4>1 DEF HasPrefix
      <4>3. Len(s) \in Nat BY <1>1
      <4> HIDE DEF s
      <4> QED BY <4>2, <4>3
    <3> HIDE DEF C, s
    <3>2. After(s, 1) \in Seq(C) BY <1>1, <3>1, Rests
    <3>3. TrimLeft(After(s, 1)) \in Seq(C) BY <3>2, TrimLeftType
    <3> QED BY <2>1, <3>3 DEF Body, stripExport, s
  <2>2. CASE ~HasPrefix(s, <<"export", " ">>) BY <1>1, <2>2 DEF Body, stripExport
  <2> QED BY <2>1, <2>2
<1> HIDE DEF b, C
<1>3. Len(b) \in Nat BY <1>2
<1>4. i \in 1 .. Len(b)
  <2> DEFINE D == {k \in Nat : k \in 1 .. Len(b) /\ b[k] = "="}
  <2>1. D # {} /\ D \subseteq Nat BY <1>3 DEF Contains, b
  <2>2. PICK k \in D : \A j \in D : k <= j
    <3> HIDE DEF D
    <3> QED BY <2>1, LeastElement
  <2>3. k \in 1 .. Len(b) /\ b[k] = "=" OBVIOUS
  <2>4. \A j \in 1 .. k - 1 : b[j] # "="
    <3> TAKE j \in 1 .. k - 1
    <3>1. j \in Nat /\ j \in 1 .. Len(b) /\ ~(k <= j) BY <1>3, <2>3
    <3>2. j \notin D BY <2>2, <3>1
    <3> QED BY <3>1, <3>2
  <2> QED BY <2>3, <2>4 DEF First
<1>5. SubSeq(b, 1, i - 1) \in Seq(C)
  <2> HIDE DEF i
  <2> QED BY <1>2, <1>3, <1>4
<1>6. NameIn(raw) = TrimSpace(SubSeq(b, 1, i - 1)) BY DEF NameIn, CutAt, b
<1> QED BY <1>5, <1>6, TrimSpaceType DEF String, C

\* How a character is written between double quotes.
Code(c) == CASE c = "LF" -> <<"\\", "n">>
             [] c \in {"\\", "\""} -> <<"\\", c>>
             [] OTHER -> <<c>>

LEMMA CodeType == \A c \in Glyphs : Code(c) \in Seq(Glyphs)
<1> TAKE c \in Glyphs
<1>1. "\\" \in Glyphs /\ "n" \in Glyphs BY DEF Glyphs
<1> HIDE DEF Glyphs
<1>2. \A x, y \in Glyphs : <<x, y>> \in Seq(Glyphs) /\ <<y>> \in Seq(Glyphs) OBVIOUS
<1>3. CASE c = "LF"
  <2>1. Code(c) = <<"\\", "n">> BY <1>3 DEF Code
  <2> QED BY <1>1, <1>2, <2>1
<1>4. CASE c \in {"\\", "\""}
  <2>1. Code(c) = <<"\\", c>> BY <1>4 DEF Code
  <2> QED BY <1>1, <1>2, <2>1
<1>5. CASE c \notin {"LF", "\\", "\""}
  <2>1. Code(c) = <<c>> BY <1>5 DEF Code
  <2> QED BY <1>2, <2>1
<1> QED BY <1>3, <1>4, <1>5

LEMMA EscapedEquation ==
  /\ escaped[<<>>] = <<>>
  /\ \A text \in String \ {<<>>} : escaped[text] = Code(text[1]) \o escaped[Tail(text)]
  /\ \A text \in String : escaped[text] \in Seq(Glyphs)
<1> DEFINE V == Seq(Glyphs)
           first == <<>>
           step == [t \in String \ {<<>>} |-> [v \in V |-> [w \in V |-> Code(t[1]) \o v]]]
           Esc(f, t) == IF t = <<>> THEN <<>>
                        ELSE (CASE t[1] = "LF" -> <<"\\", "n">>
                                [] t[1] \in {"\\", "\""} -> <<"\\", t[1]>>
                                [] OTHER -> <<t[1]>>) \o f[Tail(t)]
<1>1. first \in V OBVIOUS
<1>2. ASSUME NEW t \in String \ {<<>>}, NEW v \in V PROVE Code(t[1]) \o v \in V
  <2>1. t[1] \in Glyphs BY HeadAndRest DEF String, Glyphs
  <2>2. Code(t[1]) \in V BY <2>1, CodeType
  <2> HIDE DEF Code
  <2> QED BY <2>2, ConcatProperties
<1> HIDE DEF V
<1>3. step \in [String \ {<<>>} -> [V -> [V -> V]]] BY <1>2
<1>4. \A t \in String \ {<<>>}, v \in V, w \in V : step[t][v][w] = Code(t[1]) \o v OBVIOUS
<1> HIDE DEF step, first
<1>5. PICK f : f \in RecursiveOnSeq(Characters, V, first, step)
  BY <1>1, <1>3, SequenceRecursion DEF String
<1>6. f \in [String -> V] BY <1>5 DEF RecursiveOnSeq, String
<1>7. ASSUME NEW g, NEW t \in String
      PROVE  Esc(g, t) = IF t = <<>> THEN <<>> ELSE Code(t[1]) \o g[Tail(t)]
  BY DEF Code
<1> HIDE DEF Esc
<1>8. ASSUME NEW t \in String PROVE f[t] = Esc(f, t)
  <2>1. CASE t = <<>> BY <1>5, <1>7, <2>1 DEF RecursiveOnSeq, first
  <2>2. CASE t # <<>>
    <3>1. f[t] = step[t][f[SubSeq(t, 2, Len(t))]][f[SubSeq(t, 3, Len(t))]]
      BY <1>5, <2>2 DEF RecursiveOnSeq, String
    <3>2. SubSeq(t, 2, Len(t)) = Tail(t) BY <2>2, TailIsSubSeq DEF String
    <3>3. Tail(t) \in String /\ SubSeq(t, 3, Len(t)) \in String
      <4>1. Len(t) \in Nat BY DEF String
      <4> HIDE DEF Characters
      <4>2. \A k \in {2, 3} : SubSeq(t, k, Len(t)) \in Seq(Characters) BY <4>1 DEF String
      <4> QED BY <3>2, <4>2 DEF String
    <3>4. f[Tail(t)] \in V /\ f[SubSeq(t, 3, Len(t))] \in V BY <1>6, <3>3
    <3>5. t \in String \ {<<>>} BY <2>2
    <3>6. step[t][f[Tail(t)]][f[SubSeq(t, 3, Len(t))]] = Code(t[1]) \o f[Tail(t)]
      BY <1>4, <3>4, <3>5
    <3>7. f[t] = Code(t[1]) \o f[Tail(t)] BY <3>1, <3>2, <3>6
    <3> QED BY <1>7, <2>2, <3>7
  <2> QED BY <2>1, <2>2
<1>9. f = [t \in String |-> Esc(f, t)] BY <1>6, <1>8
<1>10. escaped = CHOOSE g : g = [t \in String |-> Esc(g, t)] BY DEF escaped, Esc
<1>11. escaped = [t \in String |-> Esc(escaped, t)] BY <1>9, <1>10, Zenon
<1>12. \A t \in String : escaped[t] = Esc(escaped, t) BY <1>11
<1>13. <<>> \in String BY DEF String
<1>14. escaped[<<>>] = <<>> BY <1>7, <1>12, <1>13
<1>15. \A t \in String \ {<<>>} : escaped[t] = Code(t[1]) \o escaped[Tail(t)]
  <2> TAKE t \in String \ {<<>>}
  <2>1. t \in String /\ t # <<>> OBVIOUS
  <2>2. escaped[t] = Esc(escaped, t) BY <1>12, <2>1
  <2>3. Esc(escaped, t) = Code(t[1]) \o escaped[Tail(t)] BY <1>7, <2>1
  <2> QED BY <2>2, <2>3
<1> DEFINE S == {t \in String : escaped[t] \in V}
<1>16. ASSUME NEW t \in Seq(Characters), \A u \in Seq(Characters) : Len(u) < Len(t) => u \in S
       PROVE  t \in S
  <2>0. t \in String BY DEF String
  <2>1. CASE t = <<>> BY <1>1, <1>14, <2>0, <2>1 DEF first
  <2>2. CASE t # <<>>
    <3>1. Tail(t) \in Seq(Characters) /\ Len(Tail(t)) < Len(t)
      <4> HIDE DEF Characters
      <4>1. Len(t) \in Nat \ {0} /\ Tail(t) \in Seq(Characters) /\ Len(Tail(t)) = Len(t) - 1
        BY <2>2, HeadAndRest
      <4> QED BY <4>1
    <3>2. escaped[Tail(t)] \in V BY <1>16, <3>1
    <3> QED BY <1>2, <1>15, <2>0, <2>2, <3>2
  <2> QED BY <2>1, <2>2
<1> HIDE DEF S
<1>17. \A t \in Seq(Characters) : t \in S BY <1>16, ShorterInSet
<1>18. \A t \in String : escaped[t] \in Seq(Glyphs) BY <1>17 DEF S, String, V
<1> QED BY <1>14, <1>15, <1>18

\* What doubleQuoted does with the characters of one code.
LEMMA CodeRead ==
  ASSUME NEW c \in Glyphs, NEW w \in Seq(Glyphs), Code(c) \o w \in String
  PROVE  w \in String /\ unescaped[Code(c) \o w] = Prepend(c, unescaped[w])
<1> DEFINE G == Glyphs
           v == Code(c) \o w
           e == Code(c)
<1>1. "\\" \in G /\ "n" \in G BY DEF Glyphs
<1>2. Code(c) \in Seq(G) BY CodeType
<1>3. ASSUME NEW x \in G, NEW y \in G, e = <<x, y>>
      PROVE  /\ v # <<>> /\ Len(v) > 1 /\ v[1] = x /\ v[2] = y /\ After(v, 2) = w
             /\ 2 \in 0 .. Len(v)
  <2> HIDE DEF G
  <2>1. e \in Seq(G) /\ Len(e) = 2 /\ e[1] = x /\ e[2] = y BY <1>3
  <2>2. Len(w) \in Nat /\ w \in Seq(G) BY DEF G
  <2> HIDE DEF e
  <2>3. /\ e \o w \in Seq(G) /\ Len(e \o w) = Len(e) + Len(w)
        /\ \A i \in 1 .. Len(e) + Len(w) : (e \o w)[i] = IF i <= Len(e) THEN e[i] ELSE w[i - Len(e)]
    BY <2>1, <2>2, ConcatProperties
  <2>4. After(e \o w, Len(e)) = w BY <2>1, <2>2, RestOfPrefixed
  <2>5. v = e \o w BY DEF e
  <2> HIDE DEF v
  <2>6. Len(v) = 2 + Len(w) /\ After(v, 2) = w BY <2>1, <2>3, <2>4, <2>5
  <2>7. v[1] = e[1] /\ v[2] = e[2]
    <3>1. 1 \in 1 .. Len(e) + Len(w) /\ 2 \in 1 .. Len(e) + Len(w) /\ 1 <= Len(e) /\ 2 <= Len(e)
      BY <2>1, <2>2
    <3> QED BY <2>3, <2>5, <3>1
  <2>8. v # <<>> /\ Len(v) > 1 /\ 2 \in 0 .. Len(v)
    <3>1. Len(<<>>) = 0 OBVIOUS
    <3> QED BY <2>2, <2>6, <3>1
  <2> QED BY <2>1, <2>6, <2>7, <2>8
<1>4. ASSUME e = <<c>>
      PROVE  v # <<>> /\ v[1] = c /\ After(v, 1) = w /\ 1 \in 0 .. Len(v)
  <2>1. v = <<c>> \o w BY <1>4
  <2> HIDE DEF e, v, G
  <2>2. /\ <<c>> \o w # <<>> /\ (<<c>> \o w)[1] = c /\ After(<<c>> \o w, 1) = w
        /\ Len(<<c>> \o w) = Len(w) + 1
    BY Prefixed DEF G
  <2>3. 1 \in 0 .. Len(v)
    <3>1. Len(w) \in Nat /\ Len(v) = Len(w) + 1 BY <2>1, <2>2
    <3> QED BY <3>1
  <2> QED BY <2>1, <2>2, <2>3
<1>5. v \in String /\ v \in Seq(Characters) BY DEF String
<1>6. \A k \in 0 .. Len(v) : After(v, k) \in String
  <2> HIDE DEF v, Characters
  <2> QED BY <1>5, Rests DEF String
<1>7. /\ unescaped[v] =
           CASE v = <<>> -> Bad
             [] v # <<>> /\ v[1] = "\"" -> IfBlank(After(v, 1), <<>>)
             [] v # <<>> /\ v[1] = "\\" -> IF Len(v) > 1 /\ v[2] \in DOMAIN Escaped
                                           THEN Prepend(Escaped[v[2]], unescaped[After(v, 2)])
                                           ELSE Bad
             [] OTHER -> Prepend(v[1], unescaped[After(v, 1)])
  BY <1>5, UnescapedEquation
<1> HIDE DEF v
<1>8. CASE c = "LF"
  <2>1. e = <<"\\", "n">> BY <1>8 DEF Code
  <2>2. /\ v # <<>> /\ Len(v) > 1 /\ v[1] = "\\" /\ v[2] = "n" /\ After(v, 2) = w
        /\ 2 \in 0 .. Len(v)
    <3> HIDE DEF e, G
    <3> QED BY <1>1, <1>3, <2>1
  <2>3. v[2] \in DOMAIN Escaped /\ Escaped[v[2]] = c BY <1>8, <2>2 DEF Escaped
  <2>4. unescaped[v] = Prepend(Escaped[v[2]], unescaped[After(v, 2)])
    <3> HIDE DEF e, G
    <3> QED BY <1>7, <2>2, <2>3
  <2>5. w \in String BY <1>6, <2>2
  <2> QED BY <2>2, <2>3, <2>4, <2>5 DEF v
<1>9. CASE c \in {"\\", "\""}
  <2>1. e = <<"\\", c>> BY <1>9 DEF Code
  <2>2. /\ v # <<>> /\ Len(v) > 1 /\ v[1] = "\\" /\ v[2] = c /\ After(v, 2) = w
        /\ 2 \in 0 .. Len(v)
    <3> HIDE DEF e, G
    <3>1. c \in G BY DEF G
    <3> QED BY <1>1, <1>3, <2>1, <3>1
  <2>3. v[2] \in DOMAIN Escaped /\ Escaped[v[2]] = c BY <1>9, <2>2 DEF Escaped
  <2>4. unescaped[v] = Prepend(Escaped[v[2]], unescaped[After(v, 2)])
    <3> HIDE DEF e, G
    <3> QED BY <1>7, <2>2, <2>3
  <2>5. w \in String BY <1>6, <2>2
  <2> QED BY <2>2, <2>3, <2>4, <2>5 DEF v
<1>10. CASE c \notin {"LF", "\\", "\""}
  <2>1. e = <<c>> BY <1>10 DEF Code
  <2>2. v # <<>> /\ v[1] = c /\ After(v, 1) = w /\ 1 \in 0 .. Len(v)
    <3> HIDE DEF e, G
    <3> QED BY <1>4, <2>1
  <2>3. unescaped[v] = Prepend(v[1], unescaped[After(v, 1)])
    <3>1. v[1] # "\"" /\ v[1] # "\\" BY <1>10, <2>2
    <3> HIDE DEF e, G
    <3> QED BY <1>7, <2>2, <3>1
  <2>4. w \in String BY <1>6, <2>2
  <2> QED BY <2>2, <2>3, <2>4 DEF v
<1> QED BY <1>8, <1>9, <1>10

LEMMA TrimNothing ==
  ASSUME NEW C, NEW s \in Seq(C), s = <<>>
  PROVE  TrimSpace(s) = s
<1>1. TrimLeft(s) = s BY TrimLeftType
<1>2. TrimRight(s) = s BY TrimRightType
<1> QED BY <1>1, <1>2 DEF TrimSpace

\* What was escaped and closed with a quote is read back.
LEMMA EscapedReadBack ==
  \A text \in String : escaped[text] \o <<"\"">> \in String
                         => unescaped[escaped[text] \o <<"\"">>] = Good(text)
<1> DEFINE q == <<"\"">>
           S == {t \in String : escaped[t] \o q \in String => unescaped[escaped[t] \o q] = Good(t)}
<1>1. q \in Seq(Glyphs) /\ \A u \in Seq(Glyphs) : u \o q \in Seq(Glyphs)
  <2>1. "\"" \in Glyphs BY DEF Glyphs
  <2> HIDE DEF Glyphs
  <2>2. q \in Seq(Glyphs)
    <3>1. \A x \in Glyphs : <<x>> \in Seq(Glyphs) OBVIOUS
    <3> QED BY <2>1, <3>1
  <2> HIDE DEF q
  <2> QED BY <2>2, ConcatProperties
<1>0. q # <<>> /\ q[1] = "\"" /\ After(q, 1) = <<>>
  <2>1. \A x : <<x>> # <<>> /\ <<x>>[1] = x /\ After(<<x>>, 1) = <<>> BY DEF After
  <2> QED BY <2>1
<1>3. TrimSpace(<<>>) = <<>>
  <2> DEFINE none == <<>>
  <2>1. none \in Seq({}) OBVIOUS
  <2> HIDE DEF none
  <2>2. none = <<>> => TrimSpace(none) = none BY <2>1, TrimNothing
  <2> QED BY <2>2 DEF none
<1> HIDE DEF q
<1>2. ASSUME NEW t \in Seq(Characters), \A u \in Seq(Characters) : Len(u) < Len(t) => u \in S
      PROVE  t \in S
  <2> SUFFICES ASSUME escaped[t] \o q \in String PROVE unescaped[escaped[t] \o q] = Good(t)
    BY DEF String
  <2>0. t \in String BY DEF String
  <2>1. CASE t = <<>>
    <3>1. escaped[t] \o q = q
      <4>1. \A u \in Seq(Glyphs) : <<>> \o u = u BY ConcatEmptySeq
      <4> QED BY <1>1, <2>1, <4>1, EscapedEquation
    <3>3. unescaped[q] = IfBlank(After(q, 1), <<>>)
      <4>1. q \in String BY <3>1
      <4> QED BY <1>0, <4>1, UnescapedEquation
    <3>5. unescaped[q] = Good(<<>>) BY <1>0, <1>3, <3>3 DEF IfBlank
    <3> QED BY <2>1, <3>1, <3>5
  <2>2. CASE t # <<>>
    <3> DEFINE r == Tail(t)
               w == escaped[r] \o q
    <3>1. /\ t[1] \in Characters /\ r \in Seq(Characters) /\ Len(r) < Len(t)
          /\ t = <<t[1]>> \o r
      <4> HIDE DEF Characters
      <4>1. /\ Len(t) \in Nat \ {0} /\ r \in Seq(Characters) /\ Len(r) = Len(t) - 1
            /\ t[1] \in Characters /\ t = <<t[1]>> \o r
        BY <2>2, HeadAndRest
      <4>2. \A k, n \in Nat : n = k - 1 => n < k OBVIOUS
      <4>3. Len(r) \in Nat BY <4>1
      <4> HIDE DEF r
      <4> QED BY <4>1, <4>2, <4>3
    <3>2. t[1] \in Glyphs BY <3>1 DEF Glyphs
    <3>3. escaped[r] \in Seq(Glyphs) /\ Code(t[1]) \in Seq(Glyphs)
      BY <3>1, <3>2, CodeType, EscapedEquation DEF String
    <3>4. escaped[t] \o q = Code(t[1]) \o w
      <4>1. escaped[t] = Code(t[1]) \o escaped[r] BY <2>0, <2>2, EscapedEquation
      <4> DEFINE e == Code(t[1])
                 x == escaped[r]
      <4> HIDE DEF r, e, x
      <4>2. (e \o x) \o q = e \o (x \o q)
        <5>1. e \in Seq(Glyphs) /\ x \in Seq(Glyphs) /\ q \in Seq(Glyphs) BY <1>1, <3>3 DEF e, x
        <5> HIDE DEF Glyphs
        <5> HIDE DEF q, w
        <5> QED BY <5>1, Associative
      <4> QED BY <4>1, <4>2 DEF e, x, w
    <3>5. w \in Seq(Glyphs) BY <1>1, <3>3
    <3> HIDE DEF w
    <3>6. w \in String /\ unescaped[Code(t[1]) \o w] = Prepend(t[1], unescaped[w])
      BY <3>2, <3>4, <3>5, CodeRead
    <3>7. unescaped[w] = Good(r)
      <4>1. r \in S BY <1>2, <3>1
      <4> HIDE DEF r
      <4> QED BY <3>6, <4>1 DEF w
    <3>8. Prepend(t[1], Good(r)) = Good(t)
      <4> HIDE DEF r
      <4> QED BY <3>1 DEF Prepend, Good
    <3> QED BY <3>4, <3>6, <3>7, <3>8
  <2> QED BY <2>1, <2>2
<1> HIDE DEF S
<1>4. \A t \in Seq(Characters) : t \in S BY <1>2, ShorterInSet
<1> QED BY <1>4 DEF S, String, q

\* Joining segments adds underscores and nothing else.
HasUnderscore(C) == "_" \in C

LEMMA JoinedOver ==
  ASSUME NEW C, HasUnderscore(C)
  PROVE  \A path \in Seq(String \cap Seq(C)) : Joined[path] \in Seq(C)
<1> DEFINE D == String \cap Seq(C)
           S == {path \in Seq(D) : Joined[path] \in Seq(C)}
           us == <<"_", "_">>
<1>1. us \in Seq(C)
  <2>1. \A x \in C : <<x, x>> \in Seq(C) OBVIOUS
  <2> QED BY <2>1 DEF HasUnderscore
<1>2. \A path \in Seq(D) : path \in Seq(String)
  <2>1. D \subseteq String OBVIOUS
  <2> HIDE DEF D
  <2> QED BY <2>1, SeqMonotonic
<1>3. \A s \in D : s \in Seq(C) OBVIOUS
<1>4. <<>> \in Seq(C) OBVIOUS
<1> HIDE DEF D, us
<1>5. ASSUME NEW path \in Seq(D), \A t \in Seq(D) : Len(t) < Len(path) => t \in S PROVE path \in S
  <2>1. CASE path = <<>> BY <1>4, <2>1, JoinedEquation
  <2>2. CASE path # <<>>
    <3>1. path[1] \in D /\ Tail(path) \in Seq(D) /\ Len(Tail(path)) = Len(path) - 1
           /\ Len(path) \in Nat \ {0}
      BY <2>2, TailOfPath
    <3>2. path[1] \in Seq(C) /\ Joined[Tail(path)] \in Seq(C)
      <4>1. Len(Tail(path)) < Len(path) BY <3>1
      <4>2. Tail(path) \in S BY <1>5, <3>1, <4>1
      <4> QED BY <1>3, <3>1, <4>2
    <3>3. (path[1] \o us) \o Joined[Tail(path)] \in Seq(C)
      <4>1. path[1] \o us \in Seq(C) BY <1>1, <3>2, ConcatProperties
      <4> QED BY <3>2, <4>1, ConcatProperties
    <3>4. Joined[path] = IF Len(path) = 1 THEN path[1] ELSE (path[1] \o us) \o Joined[Tail(path)]
      BY <1>2, <2>2, JoinedEquation DEF us
    <3>5. Joined[path] \in Seq(C) BY <3>2, <3>3, <3>4
    <3> QED BY <3>5
  <2> QED BY <2>1, <2>2
<1> HIDE DEF S
<1>6. \A path \in Seq(D) : path \in S BY <1>5, ShorterInSet
<1> QED BY <1>6 DEF S, D

\* The spelling of a path is in lower case already.
LEMMA SpelledInLowerCase ==
  ASSUME NEW path, Spelled(path), Joined[path] \in String
  PROVE  lowerASCII(Joined[path]) = Joined[path]
<1> DEFINE C == (Characters \cup {"_"}) \ DOMAIN Fold
           D == String \cap Seq(C)
           s == Joined[path]
<1>1. HasUnderscore(C) BY AlphabetAssumption DEF HasUnderscore
<1>2. path \in Seq(String) /\ Len(path) \in Nat
  <2>1. path \in Seq(String) BY DEF Spelled
  <2> HIDE DEF String
  <2> QED BY <2>1
<1>3. \A i \in 1 .. Len(path) : path[i] \in String
  <2> HIDE DEF String
  <2> QED BY <1>2, ElementOfSeq
<1>4. ASSUME NEW i \in 1 .. Len(path) PROVE path[i] \in D
  <2>1. path[i] \in Seq(Characters) BY <1>3 DEF String
  <2>2. \A k \in 1 .. Len(path[i]) : path[i][k] \in Characters
    <3> HIDE DEF Characters
    <3> QED BY <2>1, ElementOfSeq
  <2>3. \A k \in 1 .. Len(path[i]) : path[i][k] \in C BY <2>2 DEF Spelled
  <2>4. Len(path[i]) \in Nat BY <2>1
  <2>5. path[i] \in Seq(C)
    <3> HIDE DEF C, Characters
    <3> QED BY <2>1, <2>3, <2>4, IsASeq
  <2> QED BY <1>3, <2>5
<1> HIDE DEF D
<1>5. path \in Seq(D) BY <1>2, <1>4, IsASeq
<1>6. s \in Seq(C)
  <2> HIDE DEF C
  <2> QED BY <1>1, <1>5, JoinedOver DEF D
<1>7. \A i \in 1 .. Len(s) : lower(s[i]) = s[i]
  <2> TAKE i \in 1 .. Len(s)
  <2>1. s[i] \in C
    <3> HIDE DEF C, s
    <3> QED BY <1>6, ElementOfSeq
  <2> QED BY <2>1 DEF lower
<1> HIDE DEF C, s
<1>8. Len(s) \in Nat /\ s = [i \in 1 .. Len(s) |-> s[i]] BY <1>6
<1> QED BY <1>7, <1>8 DEF lowerASCII, s

\* A name, a character and a value, one after the other.
Concatenates(line, name, e, value) == line = name \o <<e>> \o value

LEMMA Layout ==
  ASSUME NEW C, NEW name \in Seq(C), NEW e \in C, NEW value \in Seq(C), Len(value) # 0,
         NEW line, Concatenates(line, name, e, value)
  PROVE  /\ line \in Seq(C) /\ Len(line) = Len(name) + 1 + Len(value)
         /\ Len(name) \in Nat /\ Len(value) \in Nat \ {0}
         /\ \A i \in 1 .. Len(name) : line[i] = name[i]
         /\ line[Len(name) + 1] = e
         /\ SubSeq(line, 1, Len(name)) = name /\ After(line, Len(name) + 1) = value
         /\ line[Len(line)] = value[Len(value)]
<1> DEFINE n == Len(name)
           d == <<e>>
           h == name \o d
           raw == h \o value
<1>1. d \in Seq(C) /\ Len(d) = 1 /\ d[1] = e OBVIOUS
<1>2. n \in Nat /\ Len(value) \in Nat \ {0} OBVIOUS
<1> HIDE DEF d
<1>3. /\ h \in Seq(C) /\ Len(h) = n + 1
      /\ \A i \in 1 .. n + 1 : h[i] = IF i <= n THEN name[i] ELSE d[i - n]
  <2>1. /\ h \in Seq(C) /\ Len(h) = Len(name) + Len(d)
        /\ \A i \in 1 .. Len(name) + Len(d) : h[i] = IF i <= Len(name) THEN name[i] ELSE d[i - Len(name)]
    BY <1>1, ConcatProperties
  <2> HIDE DEF h
  <2> QED BY <1>1, <1>2, <2>1
<1> HIDE DEF n, h
<1>4. /\ raw \in Seq(C) /\ Len(raw) = Len(h) + Len(value)
      /\ \A i \in 1 .. Len(h) + Len(value) :
           raw[i] = IF i <= Len(h) THEN h[i] ELSE value[i - Len(h)]
  BY <1>3, ConcatProperties
<1>5. After(raw, Len(h)) = value /\ SubSeq(raw, 1, Len(h)) = h BY <1>3, RestOfPrefixed
<1>6. SubSeq(h, 1, n) = name BY <1>1, RestOfPrefixed DEF n, h
<1>a. line = raw BY DEF h, d, Concatenates
<1> HIDE DEF raw
<1>7. Len(raw) = n + 1 + Len(value) BY <1>2, <1>3, <1>4
<1>8. \A i \in 1 .. n + 1 : raw[i] = h[i] BY <1>2, <1>3, <1>4
<1>9. \A i \in 1 .. n : raw[i] = name[i] BY <1>2, <1>3, <1>8
<1>10. raw[n + 1] = e BY <1>1, <1>2, <1>3, <1>8
<1>11. After(raw, n + 1) = value BY <1>3, <1>5
<1>12. raw[Len(raw)] = value[Len(value)] BY <1>2, <1>3, <1>4, <1>7
<1>13. SubSeq(raw, 1, n) = name
  <2>1. /\ SubSeq(raw, 1, n) \in Seq(C) /\ Len(SubSeq(raw, 1, n)) = n
        /\ \A i \in 1 .. n : SubSeq(raw, 1, n)[i] = raw[i]
    BY <1>2, <1>4, <1>7
  <2>2. \A i \in 1 .. n : SubSeq(raw, 1, n)[i] = name[i] BY <1>9, <2>1
  <2> QED BY <2>1, <2>2, SeqEqual DEF n
<1> QED BY <1>2, <1>4, <1>7, <1>9, <1>10, <1>11, <1>12, <1>13, <1>a DEF n

\* A text between two equal characters.
LEMMA Between ==
  ASSUME NEW C, NEW q \in C, NEW s \in Seq(C)
  PROVE  LET v == <<q>> \o s \o <<q>>
         IN /\ v \in Seq(C) /\ v # <<>> /\ v[1] = q /\ v[Len(v)] = q
            /\ 1 \in 0 .. Len(v) /\ After(v, 1) = s \o <<q>>
<1> DEFINE d == <<q>>
           r == s \o d
           v == (d \o s) \o d
<1>1. d \in Seq(C) /\ Len(d) = 1 /\ d[1] = q /\ Len(s) \in Nat OBVIOUS
<1> HIDE DEF d
<1>2. /\ r \in Seq(C) /\ Len(r) = Len(s) + 1
      /\ \A i \in 1 .. Len(s) + 1 : r[i] = IF i <= Len(s) THEN s[i] ELSE d[i - Len(s)]
  BY <1>1, ConcatProperties
<1>3. v = d \o r BY <1>1, Associative
<1>a. v = <<q>> \o s \o <<q>> /\ r = s \o <<q>> BY DEF d
<1> HIDE DEF r, v
<1>4. /\ d \o r \in Seq(C) /\ d \o r # <<>> /\ Len(d \o r) = Len(r) + 1
      /\ (d \o r)[1] = q /\ After(d \o r, 1) = r
      /\ \A i \in 1 .. Len(r) : (d \o r)[i + 1] = r[i]
  BY <1>2, Prefixed DEF d
<1>5. Len(r) \in Nat /\ r[Len(s) + 1] = q BY <1>1, <1>2
<1>6. v[Len(v)] = q BY <1>1, <1>2, <1>3, <1>4, <1>5
<1>7. 1 \in 0 .. Len(v) BY <1>3, <1>4, <1>5
<1> QED BY <1>3, <1>4, <1>6, <1>7, <1>a

\* Where a line is split that has one "=" after its name.
SplitsAt(raw, name, value) ==
  /\ raw \in String /\ name \in Seq(Glyphs) /\ value \in Seq(Glyphs)
  /\ Len(name) \in Nat /\ Len(raw) \in Nat /\ Len(raw) > Len(name) + 1
  /\ \A i \in 1 .. Len(name) : raw[i] = name[i]
  /\ raw[Len(name) + 1] = "=" /\ SubSeq(raw, 1, Len(name)) = name
  /\ After(raw, Len(name) + 1) = value
  /\ raw[Len(raw)] = "\"" /\ value[1] = "\"" /\ value # <<>>

LEMMA LineSplits ==
  ASSUME NEW raw \in String, NEW name \in Seq(Glyphs), NEW t \in String,
         Concatenates(raw, name, "=", Quoted(t))
  PROVE  SplitsAt(raw, name, Quoted(t)) /\ After(Quoted(t), 1) = escaped[t] \o <<"\"">>
<1> DEFINE G == Glyphs \cup {"="}
           v == Quoted(t)
           q == "\""
           e == "="
           x == escaped[t]
<1>1. q \in G /\ e \in G /\ q \in Glyphs BY DEF Glyphs
<1>2. name \in Seq(G) /\ x \in Seq(G) /\ x \in Seq(Glyphs)
  <2>1. Glyphs \subseteq G /\ x \in Seq(Glyphs) BY EscapedEquation
  <2> HIDE DEF G, Glyphs, x
  <2> QED BY <2>1, SeqMonotonic
<1>3. v = <<q>> \o x \o <<q>> BY DEF Quoted
<1> HIDE DEF v, q, e, x, G
<1>4. /\ v \in Seq(Glyphs) /\ v # <<>> /\ v[1] = q /\ v[Len(v)] = q
      /\ 1 \in 0 .. Len(v) /\ After(v, 1) = x \o <<q>>
  <2>1. q \in Glyphs /\ x \in Seq(Glyphs) BY <1>1, <1>2
  <2> DEFINE w == <<q>> \o x \o <<q>>
  <2>2. /\ w \in Seq(Glyphs) /\ w # <<>> /\ w[1] = q /\ w[Len(w)] = q
        /\ 1 \in 0 .. Len(w) /\ After(w, 1) = x \o <<q>>
    BY <2>1, Between
  <2>3. v = w BY <1>3
  <2> QED BY <2>2, <2>3
<1>5. v \in Seq(G)
  <2>1. Glyphs \subseteq G BY DEF G
  <2> QED BY <1>4, <2>1, SeqMonotonic
<1>6. Concatenates(raw, name, e, v) BY DEF v, e
<1>11. Len(v) # 0 BY <1>4
<1>7. /\ raw \in Seq(G) /\ Len(raw) = Len(name) + 1 + Len(v) /\ Len(name) \in Nat
      /\ Len(v) \in Nat \ {0}
      /\ \A i \in 1 .. Len(name) : raw[i] = name[i]
      /\ raw[Len(name) + 1] = e /\ SubSeq(raw, 1, Len(name)) = name
      /\ After(raw, Len(name) + 1) = v /\ raw[Len(raw)] = v[Len(v)]
  BY <1>1, <1>2, <1>4, <1>5, <1>6, <1>11, Layout
<1>8. Len(raw) \in Nat /\ Len(raw) > Len(name) + 1 BY <1>7
<1>9. SplitsAt(raw, name, v)
  <2>1. q = "\"" /\ e = "=" BY DEF q, e
  <2> QED BY <1>4, <1>7, <1>8, <2>1 DEF SplitsAt
<1>10. After(v, 1) = escaped[t] \o <<"\"">> BY <1>4 DEF x, q
<1> QED BY <1>9, <1>10 DEF v

\* What parseDotEnv makes of NAME="...": the name and the text between the
\* quotes, or no pair when the name is empty.
LEMMA BodyOfSplit ==
  ASSUME NEW raw, NEW name, NEW value, SplitsAt(raw, name, value), checkName(name)
  PROVE  IsText(raw) /\ Body(raw) = raw
<1>1. /\ raw \in Seq(Characters) /\ Len(raw) \in Nat /\ Len(name) \in Nat
      /\ Len(raw) > Len(name) + 1
  BY DEF SplitsAt, String
<1>2. raw[1] # " " /\ raw[1] # "#" /\ raw[2] # " "
  <2>1. \A i \in 1 .. Len(name) : raw[i] # " " /\ raw[i] # "#"
    BY DEF SplitsAt, checkName, Contains
  <2>2. raw[Len(name) + 1] # " " /\ raw[Len(name) + 1] # "#" BY DEF SplitsAt
  <2>3. raw[Len(raw)] # " " BY DEF SplitsAt
  <2>4. CASE Len(name) = 0
    <3>1. Len(name) + 1 = 1 BY <2>4
    <3>2. raw[1] # " " /\ raw[1] # "#" BY <2>2, <3>1
    <3>3. raw[2] # " "
      <4>1. After(raw, 1) = value /\ value[1] = "\"" /\ value \in Seq(Glyphs) /\ value # <<>>
        BY <3>1 DEF SplitsAt
      <4>2. 1 \in 0 .. Len(raw) /\ 1 \in 1 .. Len(raw) - 1 BY <1>1
      <4>3. After(raw, 1)[1] = raw[1 + 1]
        <5> HIDE DEF Characters
        <5> QED BY <1>1, <4>2, Rests
      <4>4. 1 + 1 = 2 OBVIOUS
      <4>5. raw[2] = "\"" BY <4>1, <4>3, <4>4
      <4> QED BY <4>5
    <3> QED BY <3>2, <3>3
  <2>5. CASE Len(name) # 0
    <3>1. 1 \in 1 .. Len(name) /\ (2 \in 1 .. Len(name) \/ 2 = Len(name) + 1) BY <1>1, <2>5
    <3> QED BY <2>1, <2>2, <3>1
  <2> QED BY <2>4, <2>5
<1>3. raw # <<>> BY <1>1
<1>4. TrimSpace(raw) = raw
  <2>1. raw[Len(raw)] # " " BY DEF SplitsAt
  <2> HIDE DEF Characters
  <2> QED BY <1>1, <1>2, <2>1, TrimSpaceType
<1>5. ASSUME HasPrefix(raw, <<"#">>) PROVE FALSE
  <2>1. SubSeq(raw, 1, 1) = <<"#">>
    <3>1. Len(<<"#">>) = 1 OBVIOUS
    <3> QED BY <1>5, <3>1 DEF HasPrefix
  <2>2. <<"#">>[1] = "#" OBVIOUS
  <2>3. SubSeq(raw, 1, 1)[1] = raw[1]
    <3> HIDE DEF Characters
    <3> QED BY <1>1
  <2>4. raw[1] = "#" BY <2>1, <2>2, <2>3
  <2> QED BY <1>2, <2>4
<1>6. IsText(raw) BY <1>3, <1>4, <1>5 DEF IsText
<1>7. ASSUME HasPrefix(raw, <<"export", " ">>) PROVE FALSE
  <2>1. SubSeq(raw, 1, 2) = <<"export", " ">> /\ 2 <= Len(raw)
    <3>1. Len(<<"export", " ">>) = 2 OBVIOUS
    <3> QED BY <1>7, <3>1 DEF HasPrefix
  <2>2. <<"export", " ">>[2] = " " OBVIOUS
  <2>3. SubSeq(raw, 1, 2)[2] = raw[2]
    <3>1. 2 <= Len(raw) BY <2>1
    <3> HIDE DEF Characters
    <3> QED BY <1>1, <3>1
  <2>4. raw[2] = " " BY <2>1, <2>2, <2>3
  <2> QED BY <1>2, <2>4
<1>8. Body(raw) = raw BY <1>4, <1>7 DEF Body, stripExport
<1> QED BY <1>6, <1>8

\* The first "=" ends the name.
LEMMA FirstOfSplit ==
  ASSUME NEW raw, NEW name, NEW value, SplitsAt(raw, name, value), ~Contains(name, "=")
  PROVE  Contains(raw, "=") /\ First(raw, "=") = Len(name) + 1
<1> DEFINE n == Len(name)
           D == {i \in 1 .. Len(raw) : raw[i] = "="}
<1>1. n \in Nat /\ Len(raw) \in Nat /\ Len(raw) > n + 1 BY DEF SplitsAt
<1>2. n + 1 \in 1 .. Len(raw) /\ \A i \in 1 .. n : i \in 1 .. Len(raw)
  <2> HIDE DEF n
  <2> QED BY <1>1
<1>3. n + 1 \in D /\ \A i \in 1 .. n : i \notin D
  <2>1. raw[n + 1] = "=" BY DEF SplitsAt
  <2>2. \A i \in 1 .. n : raw[i] # "=" BY DEF SplitsAt, Contains
  <2> HIDE DEF n
  <2> QED BY <1>2, <2>1, <2>2
<1>4. Contains(raw, "=")
  <2> HIDE DEF n
  <2> QED BY <1>3 DEF Contains
<1>5. \A i \in 1 .. Len(raw) : (raw[i] = "=" /\ \A j \in 1 .. i - 1 : raw[j] # "=") <=> i = n + 1
  <2>1. \A i \in 1 .. Len(raw) : (i \in D /\ \A j \in 1 .. i - 1 : j \notin D) <=> i = n + 1
    <3> HIDE DEF n, D
    <3> QED BY <1>1, <1>2, <1>3
  <2>2. \A i \in 1 .. Len(raw) : i \in D <=> raw[i] = "=" OBVIOUS
  <2>3. \A i \in 1 .. Len(raw) : \A j \in 1 .. i - 1 : j \in 1 .. Len(raw)
    <3> HIDE DEF n, D
    <3> QED BY <1>1
  <2> HIDE DEF n, D
  <2> QED BY <2>1, <2>2, <2>3
<1>6. First(raw, "=") = n + 1
  <2> HIDE DEF n, D
  <2> QED BY <1>2, <1>5 DEF First
<1> QED BY <1>4, <1>6

LEMMA QuotedLine ==
  ASSUME NEW raw \in String, NEW name \in Seq(Glyphs), NEW t \in String,
         checkName(name), ~Contains(name, "="), Concatenates(raw, name, "=", Quoted(t))
  PROVE  /\ IsText(raw) /\ (name = <<>> => ~IsPair(raw))
         /\ name # <<>> => IsPair(raw) /\ NameIn(raw) = name /\ ValueIn(raw) = Good(t)
<1> DEFINE v == Quoted(t)
           n == Len(name)
<1>1. SplitsAt(raw, name, v) /\ After(v, 1) = escaped[t] \o <<"\"">> BY LineSplits
<1> HIDE DEF v
<1>2. IsText(raw) /\ Body(raw) = raw BY <1>1, BodyOfSplit
<1>3. Contains(raw, "=") /\ First(raw, "=") = n + 1 BY <1>1, FirstOfSplit
<1>4. n \in Nat /\ Len(raw) \in Nat /\ Len(raw) > n + 1 BY <1>1 DEF SplitsAt
<1>5. CutAt(raw, n + 1).name = name /\ CutAt(raw, n + 1).value = v
  <2>1. (n + 1) - 1 = n BY <1>4
  <2>2. SubSeq(raw, 1, n) = name /\ After(raw, n + 1) = v BY <1>1 DEF SplitsAt
  <2> HIDE DEF n
  <2> QED BY <2>1, <2>2 DEF CutAt
<1> HIDE DEF n
<1>6. NameIn(raw) = TrimSpace(name) /\ ValueIn(raw) = dotEnvValue(TrimLeft(v))
  BY <1>2, <1>3, <1>5 DEF NameIn, ValueIn
<1>7. TrimSpace(name) = name
  <2>1. name # <<>> => name[1] # " " /\ name[Len(name)] # " "
    <3>1. name # <<>> => 1 \in 1 .. Len(name) /\ Len(name) \in 1 .. Len(name)
      <4> HIDE DEF Glyphs
      <4>1. name # <<>> => Len(name) \in Nat \ {0} BY EmptySeq
      <4> QED BY <4>1
    <3> QED BY <3>1 DEF checkName, Contains
  <2>2. name # <<>> => TrimSpace(name) = name BY <2>1, TrimSpaceType
  <2>3. name = <<>> => TrimSpace(name) = name BY TrimNothing
  <2> QED BY <2>2, <2>3
<1>8. TrimLeft(v) = v
  <2>1. v \in Seq(Glyphs) /\ v[1] # " " BY <1>1 DEF SplitsAt
  <2> QED BY <2>1, TrimLeftType
<1>9. dotEnvValue(v) = unescaped[After(v, 1)]
  <2>1. v \in Seq(Glyphs) /\ v[1] = "\"" /\ 1 <= Len(v)
    <3>1. v \in Seq(Glyphs) /\ v[1] = "\"" /\ v # <<>> BY <1>1 DEF SplitsAt
    <3>2. Len(v) \in Nat \ {0}
      <4> HIDE DEF Glyphs
      <4> QED BY <3>1, EmptySeq
    <3>3. 1 <= Len(v) BY <3>2
    <3> QED BY <3>1, <3>3
  <2>2. SubSeq(v, 1, 1) = <<v[1]>>
    <3> HIDE DEF Glyphs
    <3> QED BY <2>1, FirstAlone
  <2>3. ~HasPrefix(v, <<"'">>) /\ HasPrefix(v, <<"\"">>)
    <3>1. Len(<<"'">>) = 1 /\ Len(<<"\"">>) = 1 /\ <<"'">> # <<"\"">> OBVIOUS
    <3>2. SubSeq(v, 1, 1) = <<"\"">> BY <2>1, <2>2
    <3> QED BY <2>1, <3>1, <3>2 DEF HasPrefix
  <2> QED BY <2>3 DEF dotEnvValue, doubleQuoted
<1>10. unescaped[After(v, 1)] = Good(t)
  <2>1. raw \in Seq(Characters) BY DEF String
  <2>2. v = After(raw, n + 1) /\ n + 1 \in 0 .. Len(raw)
    <3>1. n + 1 \in 0 .. Len(raw) BY <1>4
    <3> QED BY <1>1, <3>1 DEF SplitsAt, n
  <2>3. v \in Seq(Characters)
    <3> HIDE DEF Characters
    <3> QED BY <2>1, <2>2, Rests
  <2>4. 1 \in 0 .. Len(v)
    <3>1. v \in Seq(Glyphs) /\ v # <<>> BY <1>1 DEF SplitsAt
    <3> HIDE DEF Glyphs
    <3>2. Len(v) \in Nat \ {0} BY <3>1, EmptySeq
    <3> QED BY <3>2
  <2>5. After(v, 1) \in String
    <3> HIDE DEF Characters
    <3> QED BY <2>3, <2>4, Rests DEF String
  <2> QED BY <1>1, <2>5, EscapedReadBack
<1> QED BY <1>2, <1>3, <1>6, <1>7, <1>8, <1>9, <1>10 DEF IsPair
=============================================================================
