----------------------------- MODULE MCEnvMount ------------------------------
(***************************************************************************)
(* Small environments and .env files for EnvMount, for the prefix P.       *)
(***************************************************************************)
EXTENDS EnvMount

a == <<"a">>
b == <<"b">>
c == <<"c">>
sep == <<"_", "_">>
P == <<"P">>
eq == <<"=">>

UpTo(S, size) == UNION {[1 .. k -> S] : k \in 0 .. size}

MCFold == [u \in {"A", "B", "P"} |-> CASE u = "A" -> "a" [] u = "B" -> "b" [] u = "P" -> "p"]
MCOrder == <<"NUL", " ", "\"", "#", "'", "1", "2", "=", "A", "B", "P", "Q", "\\",
             "_", "a", "b", "c", "n", "p", "x", "export", "LF", "?">>

\* Names for one path in two cases, a parent and its child, segments that
\* differ only in where they are cut, empty segments, a name that is too deep.
MountedNames ==
  {P \o a, P \o <<"A">>, P \o a \o sep \o b, P \o <<"A">> \o sep \o <<"B">>,
   P \o a \o b, P \o a \o <<"_">> \o sep \o b, P \o a \o sep \o b \o sep \o c,
   P, P \o a \o sep \o sep \o b, P \o a \o sep \o b \o sep \o c \o sep \o a}

Setting(name, value) == name \o eq \o <<value>>

PlainVariables ==
  {Setting(name, "1") : name \in MountedNames}
  \cup {Setting(P \o a, "2"), Setting(P \o a, "?"), Setting(P \o <<"?">>, "1"),
        Setting(<<"Q", "?">>, "1"), Setting(<<"Q">> \o a, "1"), Setting(<<"p">> \o a, "2"), P \o a}

Environs == UpTo(PlainVariables, 3)

\* The same with a name that holds a NUL.
NULVariables ==
  {Setting(P \o a, "1"), Setting(P \o a \o <<"NUL">> \o b, "1"),
   Setting(P \o a \o sep \o b, "2"), Setting(P \o a \o sep \o b \o sep \o c, "2")}
NULEnvirons == UpTo(NULVariables, 3)

MCTexts == UpTo({"a", "\"", "\\", "n", "LF", "#", " "}, 2)

Lines ==
  {P \o a \o eq \o Quoted(text) : text \in MCTexts}
  \cup {P \o <<"A">> \o sep \o <<"B">> \o eq \o <<"'", "x", "#", "'">>,
        P \o a \o sep \o b \o <<" ">> \o eq \o <<" ", "x", " ">>,
        <<"export", " ">> \o P \o a \o eq \o <<"x">>,
        <<"#">> \o P \o a, <<" ">>, P \o a, eq \o <<"1">>,
        P \o <<" ">> \o a \o eq \o <<"1">>, <<"Q", "#">> \o a \o eq \o <<"1">>,
        P \o a \o eq \o <<"1", " ", "#">>, <<"Q">> \o a \o eq \o <<"1", " ", "#">>,
        P \o a \o eq \o <<"'", "x">>, P \o a \o eq \o <<"\"", "x", "\"", "x">>,
        P \o a \o eq \o <<"\"", "\\", "x", "\"">>, <<"Q">> \o a \o eq \o <<"\"">>,
        P \o eq \o <<"1">>, P \o a \o sep \o b \o sep \o c \o sep \o a \o eq,
        <<"export">> \o eq \o <<"1">>, P \o a \o eq \o <<"?">>, <<"Q">> \o a \o eq \o <<"?">>}

Call_(origin, prefix, text) == [origin |-> origin, prefix |-> prefix, text |-> text]

MCInputs ==
  {Call_("environ", P, environ) : environ \in Environs}
  \cup {Call_("environ", <<>>, <<>>)}
  \cup {Call_("file", prefix, file) : prefix \in {<<>>, P}, file \in UpTo(Lines, 2)}
NULInputs == {Call_("environ", P, environ) : environ \in NULEnvirons}

MCProbes == {<<a>>, <<a, b>>, <<a \o b>>, <<a, b, c>>, <<a, <<"_">> \o b>>, <<a \o <<"NUL">> \o b>>}
=============================================================================
