------------------------------- MODULE MCUnits -------------------------------
(* Eight-bit words and five-bit periods: units below, near and beyond them. *)
EXTENDS Units, TLC

MCDurationUnit == "" :> 10 @@ "ns" :> 1 @@ "ms" :> 10 @@ "m" :> 60 @@ "d" :> 127
MCByteUnit == "" :> 1 @@ "kB" :> 10 @@ "K" :> 16 @@ "m" :> 32 @@ "E" :> 64 @@ "Z" :> 128 @@ "YB" :> 300
MCPeriodUnit == "" :> "days" @@ "d" :> "days" @@ "w" :> "weeks" @@ "m" :> "months" @@ "y" :> "years"

\* Every integer of the word and its neighbours; decimals around the powers of
\* ten and of two, from 10^-6 to 10^4 of them.
Integers8 == [integer : {TRUE}, negative : BOOLEAN, digits : 0..140, scale : {0}]
Decimals == [integer : {FALSE}, negative : BOOLEAN, scale : -6..4,
             digits : {0, 1, 2, 5, 7, 9, 10, 11, 21, 42, 43, 99, 100, 127, 128, 129}]
Names == DOMAIN MCDurationUnit \cup DOMAIN MCByteUnit \cup DOMAIN MCPeriodUnit \cup {"KB"}
MCValues == [num : Integers8 \cup Decimals \cup {NoNumber}, unit : Names]
=============================================================================
