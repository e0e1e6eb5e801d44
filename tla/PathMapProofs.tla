--------------------------- MODULE PathMapProofs ----------------------------
(***************************************************************************)
(* pathmap.Build for any entries of any caller.  What its scan holds back  *)
(* is proved for any joinKey; that this is what it should hold back follows *)
(* where joinKey tells paths apart, which it does if no segment holds NUL. *)
(***************************************************************************)
EXTENDS PathMap, SequenceTheorems, Induction, TLAPS

----------------------------------------------------------------------------
(* The inductive invariant.                                                *)

Sequential == entries \in Seq({entries[k] : k \in 1 .. Len(entries)})

Covered(k) == \A q \in Parents(entries[k].path) : joinKey(q) \in scopes

\* What is known while Build has seen the entries before `at`.
Scanning ==
  /\ pc = "collect" => at = 1 /\ scopes = {}
  /\ pc = "scan" => \A k \in 1 .. Len(entries) : k < at => Covered(k)
  /\ pc \in {"insert", "done"} => \A k \in 1 .. Len(entries) : Covered(k)
  /\ scopes \subseteq {joinKey(q) : q \in AllParents}

IsLast(k, p) ==
  /\ entries[k].path = p /\ entries[k].value = leaves[p]
  /\ \A j \in 1 .. Len(entries) : k < j /\ j < at => entries[j].path # p

Inserting ==
  /\ pc \in {"collect", "scan"} => DOMAIN leaves = {}
  /\ pc \in {"insert", "done"} =>
       /\ \A p \in DOMAIN leaves :
            /\ ~IsScope(p)
            /\ \E k \in 1 .. Len(entries) : k < at /\ IsLast(k, p)
       /\ \A k \in 1 .. Len(entries) :
            k < at /\ ~IsScope(entries[k].path) => entries[k].path \in DOMAIN leaves
  /\ pc = "done" => at > Len(entries)

MapInv ==
  /\ pc \in {"collect", "scan", "insert", "done", "failed"}
  /\ at \in Nat \ {0}
  /\ Sequential
  /\ Scanning
  /\ Inserting
  /\ NoClash

LEMMA MapInvInit == MapInit => MapInv
<1> SUFFICES ASSUME MapInit PROVE MapInv OBVIOUS
<1> USE DEF MapInit
<1>1. Sequential
  <2>1. entries = <<>> OBVIOUS
  <2> QED BY <2>1 DEF Sequential
<1>2. Scanning BY DEF Scanning
<1>3. DOMAIN leaves = {} OBVIOUS
<1>4. Inserting BY <1>3 DEF Inserting
<1> QED BY <1>1, <1>2, <1>4 DEF MapInv, NoClash

LEMMA AppendSequential ==
  ASSUME Sequential, NEW e, entries' = Append(entries, e)
  PROVE /\ Sequential'
        /\ entries' # entries
        /\ entries' = Append(entries, entries'[Len(entries) + 1])
<1> DEFINE S == {entries[k] : k \in 1 .. Len(entries)}
<1>1. entries \in Seq(S) BY DEF Sequential
<1> HIDE DEF S
<1>2. entries' \in Seq(S \cup {e}) BY <1>1
<1>3. /\ Len(entries) \in Nat /\ Len(entries') = Len(entries) + 1
      /\ entries'[Len(entries) + 1] = e
  BY <1>1
<1>4. entries' \in Seq({entries'[k] : k \in 1 .. Len(entries')})
  <2>1. DOMAIN entries' = 1 .. Len(entries') BY <1>2
  <2> QED BY <1>2, <2>1
<1>5. entries' # entries BY <1>3
<1>6. entries' = Append(entries, entries'[Len(entries) + 1])
  <2> HIDE DEF S
  <2> QED BY <1>3
<1> QED BY <1>4, <1>5, <1>6 DEF Sequential

\* One more entry: only the collected sequence grows.
LEMMA CollectKeeps == MapInv /\ Collect => MapInv'
<1> SUFFICES ASSUME MapInv, Collect PROVE MapInv' OBVIOUS
<1>1. /\ pc = "collect" /\ entries' = Append(entries, entries'[Len(entries) + 1])
      /\ UNCHANGED <<pc, at, scopes, objects, leaves, fault>>
  BY DEF Collect
<1>2. Sequential' BY <1>1, AppendSequential DEF MapInv
<1>3. Scanning' BY <1>1 DEF MapInv, Scanning
<1>4. Inserting' BY <1>1 DEF MapInv, Inserting
<1> QED BY <1>1, <1>2, <1>3, <1>4 DEF MapInv, NoClash

\* The scan covers the entry it is at.
LEMMA ScanKeeps == MapInv /\ Scan => MapInv'
<1> SUFFICES ASSUME MapInv, Scan PROVE MapInv' OBVIOUS
<1>1. /\ pc = "scan" /\ pc' = "scan" /\ at' = at + 1 /\ at \in Nat \ {0}
      /\ at <= Len(entries)
      /\ scopes' = scopes \cup {joinKey(p) : p \in Parents(entries[at].path)}
      /\ UNCHANGED <<entries, objects, leaves, fault>>
  BY DEF Scan, MapInv
<1>2. Len(entries) \in Nat BY DEF MapInv, Sequential
<1>3. \A k \in 1 .. Len(entries) : k < at' => Covered(k)'
  <2> SUFFICES ASSUME NEW k \in 1 .. Len(entries), k < at' PROVE Covered(k)' OBVIOUS
  <2>1. CASE k < at BY <1>1, <2>1 DEF MapInv, Scanning, Covered
  <2>2. CASE k = at BY <1>1, <2>2 DEF Covered
  <2> QED BY <1>1, <1>2, <2>1, <2>2
<1>4. scopes' \subseteq {joinKey(q) : q \in AllParents'}
  <2>1. AllParents' = AllParents BY <1>1 DEF AllParents, Paths
  <2>2. Parents(entries[at].path) \subseteq AllParents
    BY <1>1, <1>2 DEF AllParents, Paths
  <2> QED BY <1>1, <2>1, <2>2 DEF MapInv, Scanning
<1>5. Scanning' BY <1>1, <1>3, <1>4 DEF Scanning
<1>6. Inserting' BY <1>1 DEF MapInv, Inserting
<1>7. Sequential' /\ NoClash' BY <1>1 DEF MapInv, Sequential, NoClash
<1> QED BY <1>1, <1>5, <1>6, <1>7 DEF MapInv

\* An entry that is held back leaves root as it is.
LEMMA SkipKeeps == MapInv /\ Skip => MapInv'
<1> SUFFICES ASSUME MapInv, Skip PROVE MapInv' OBVIOUS
<1>1. /\ pc = "insert" /\ at' = at + 1 /\ at \in Nat \ {0} /\ at <= Len(entries)
      /\ IsScope(entries[at].path)
      /\ UNCHANGED <<pc, entries, scopes, objects, leaves, fault>>
  BY DEF Skip, MapInv
<1>2. Len(entries) \in Nat BY DEF MapInv, Sequential
<1>3. \A p : IsScope(p)' <=> IsScope(p) BY <1>1 DEF IsScope
<1>4. ASSUME NEW p \in DOMAIN leaves
      PROVE ~IsScope(p) /\ \E k \in 1 .. Len(entries) : k < at' /\ IsLast(k, p)'
  <2>1. ~IsScope(p) BY <1>1 DEF MapInv, Inserting
  <2>2. PICK k \in 1 .. Len(entries) : k < at /\ IsLast(k, p)
    BY <1>1 DEF MapInv, Inserting
  <2>3. entries[at].path # p BY <1>1, <2>1
  <2>4. \A j \in 1 .. Len(entries) : k < j /\ j < at' => entries[j].path # p
    BY <1>1, <1>2, <2>2, <2>3 DEF IsLast
  <2>5. IsLast(k, p)' BY <1>1, <2>2, <2>4 DEF IsLast
  <2> QED BY <1>1, <1>2, <2>1, <2>2, <2>5
<1>5. ASSUME NEW k \in 1 .. Len(entries), k < at', ~IsScope(entries[k].path)
      PROVE entries[k].path \in DOMAIN leaves
  <2>1. k # at BY <1>1, <1>5
  <2> QED BY <1>1, <1>2, <1>5, <2>1 DEF MapInv, Inserting
<1>6. Inserting' BY <1>1, <1>3, <1>4, <1>5 DEF Inserting
<1>7. Scanning' BY <1>1 DEF MapInv, Scanning, Covered, AllParents, Paths
<1> QED BY <1>1, <1>6, <1>7 DEF MapInv, Sequential, NoClash

\* What lies below an inserted path was never inserted: its path is a scope.
LEMMA InsertKeeps == MapInv /\ Insert => MapInv'
<1> SUFFICES ASSUME MapInv, Insert PROVE MapInv' OBVIOUS
<1> DEFINE path == entries[at].path
           value == entries[at].value
<1>1. /\ pc = "insert" /\ at' = at + 1 /\ at \in Nat \ {0} /\ at <= Len(entries)
      /\ ~IsScope(path)
      /\ UNCHANGED <<pc, entries, scopes, fault>>
  BY DEF Insert, MapInv
<1>2. Len(entries) \in Nat BY DEF MapInv, Sequential
<1>3. leaves' = [p \in {q \in DOMAIN leaves : ~Under(path, q)} \cup {path} |->
                   IF p = path THEN value ELSE leaves[p]]
  BY DEF Insert, Write
<1>4. \A p : IsScope(p)' <=> IsScope(p) BY <1>1 DEF IsScope
<1>5. ASSUME NEW q \in DOMAIN leaves PROVE path \notin Parents(q)
  <2>1. PICK k \in 1 .. Len(entries) : entries[k].path = q
    BY <1>1 DEF MapInv, Inserting, IsLast
  <2>2. Covered(k) BY <1>1 DEF MapInv, Scanning
  <2> QED BY <1>1, <2>1, <2>2 DEF Covered, IsScope
<1>6. DOMAIN leaves' = DOMAIN leaves \cup {path}
  BY <1>3, <1>5 DEF Under
<1>7. ASSUME NEW p \in DOMAIN leaves'
      PROVE ~IsScope(p) /\ \E k \in 1 .. Len(entries) : k < at' /\ IsLast(k, p)'
  <2>1. CASE p = path
    <3>1. leaves'[p] = value BY <1>3, <1>6, <2>1
    <3>2. PICK k \in 1 .. Len(entries) : k = at BY <1>1, <1>2
    <3>3. IsLast(k, p)' BY <1>1, <1>2, <2>1, <3>1, <3>2 DEF IsLast
    <3>4. ~IsScope(p) BY <1>1, <2>1
    <3> QED BY <1>1, <1>2, <3>2, <3>3, <3>4
  <2>2. CASE p # path
    <3>1. p \in DOMAIN leaves BY <1>6, <2>2
    <3>2. ~IsScope(p) BY <1>1, <3>1 DEF MapInv, Inserting
    <3>3. PICK k \in 1 .. Len(entries) : k < at /\ IsLast(k, p)
      BY <1>1, <3>1 DEF MapInv, Inserting
    <3>4. leaves'[p] = leaves[p] BY <1>3, <1>6, <2>2
    <3>5. \A j \in 1 .. Len(entries) : k < j /\ j < at' => entries[j].path # p
      BY <1>1, <1>2, <2>2, <3>3 DEF IsLast
    <3>6. IsLast(k, p)' BY <1>1, <3>3, <3>4, <3>5 DEF IsLast
    <3> QED BY <1>1, <1>2, <3>2, <3>3, <3>6
  <2> QED BY <2>1, <2>2
<1>8. ASSUME NEW k \in 1 .. Len(entries), k < at', ~IsScope(entries[k].path)
      PROVE entries[k].path \in DOMAIN leaves'
  <2>1. CASE k = at BY <1>6, <2>1
  <2>2. CASE k < at BY <1>1, <1>6, <1>8, <2>2 DEF MapInv, Inserting
  <2> QED BY <1>1, <1>2, <1>8, <2>1, <2>2
<1>9. Inserting' BY <1>1, <1>4, <1>7, <1>8 DEF Inserting
<1>10. Scanning' BY <1>1 DEF MapInv, Scanning, Covered, AllParents, Paths
<1> QED BY <1>1, <1>9, <1>10 DEF MapInv, Sequential, NoClash

\* insert never meets a value on its way: every parent is covered, and no
\* covered path has a value.
LEMMA ClashImpossible == MapInv => ~Clash
<1> SUFFICES ASSUME MapInv, Clash PROVE FALSE OBVIOUS
<1>1. pc = "insert" /\ at \in 1 .. Len(entries)
  BY DEF Clash, MapInv, Sequential
<1>2. PICK q \in Parents(entries[at].path) : q \in DOMAIN leaves
  BY DEF Clash
<1>3. joinKey(q) \in scopes BY <1>1, <1>2 DEF MapInv, Scanning, Covered
<1>4. ~IsScope(q) BY <1>1, <1>2 DEF MapInv, Inserting
<1> QED BY <1>3, <1>4 DEF IsScope

LEMMA MapInvNext == MapInv /\ [MapNext]_mapVars => MapInv'
<1> SUFFICES ASSUME MapInv, [MapNext]_mapVars PROVE MapInv' OBVIOUS
<1> USE DEF MapInv, Sequential, Scanning, Inserting, Covered, IsLast, IsScope,
            AllParents, Paths, NoClash
<1>1. CASE Collect BY <1>1, CollectKeeps
<1>2. CASE Call BY <1>2 DEF Call
<1>3. CASE GiveUp BY <1>3 DEF GiveUp, Fail
<1>4. CASE Scan BY <1>4, ScanKeeps
<1>5. CASE ScanRefuses BY <1>5 DEF ScanRefuses, Fail
<1>6. CASE ScanEnds
  <2>1. /\ pc = "scan" /\ at > Len(entries) /\ pc' = "insert" /\ at' = 1
        /\ UNCHANGED <<entries, scopes, objects, leaves, fault>>
    BY <1>6 DEF ScanEnds
  <2>2. \A k \in 1 .. Len(entries) : Covered(k) BY <2>1
  <2> QED BY <2>1, <2>2
<1>7. CASE Skip BY <1>7, SkipKeeps
<1>8. CASE Insert BY <1>8, InsertKeeps
<1>9. CASE Clash BY <1>9, ClashImpossible
<1>10. CASE InsertEnds BY <1>10 DEF InsertEnds
<1>11. CASE UNCHANGED mapVars BY <1>11 DEF mapVars
<1> QED BY <1>1, <1>2, <1>3, <1>4, <1>5, <1>6, <1>7, <1>8, <1>9, <1>10, <1>11
        DEF MapNext, Build

----------------------------------------------------------------------------

LEMMA MapInvariant == MapSpec => []MapInv
<1> QED BY MapInvInit, MapInvNext, PTL DEF MapSpec

\* insert's "both a value and an object" is unreachable, as its comment says,
\* whatever the adapter collects.
THEOREM InsertNeverClashes == MapSpec => []NoClash
<1>1. MapInv => NoClash BY DEF MapInv
<1> QED BY <1>1, MapInvariant, PTL

\* Build keeps the last value of every path that is not held back, in any
\* order of the entries, and no insertion undoes another.
THEOREM LastEntryWins == MapSpec => []LastWins
<1>1. ASSUME MapInv, pc = "done"
      PROVE /\ DOMAIN leaves = {p \in Paths : ~IsScope(p)}
            /\ \A p \in DOMAIN leaves : \E k \in 1 .. Len(entries) :
                 /\ entries[k].path = p /\ entries[k].value = leaves[p]
                 /\ \A j \in k + 1 .. Len(entries) : entries[j].path # p
  <2>1. Len(entries) \in Nat /\ at \in Nat /\ at > Len(entries)
    BY <1>1 DEF MapInv, Sequential, Inserting
  <2>2. \A p \in DOMAIN leaves : ~IsScope(p) /\ \E k \in 1 .. Len(entries) : IsLast(k, p)
    BY <1>1 DEF MapInv, Inserting
  <2>3. \A k \in 1 .. Len(entries) :
          ~IsScope(entries[k].path) => entries[k].path \in DOMAIN leaves
    BY <1>1, <2>1 DEF MapInv, Inserting
  <2>4. \A p \in DOMAIN leaves : p \in Paths BY <2>2 DEF Paths, IsLast
  <2>5. \A p \in Paths : ~IsScope(p) => p \in DOMAIN leaves BY <2>3 DEF Paths
  <2>6. ASSUME NEW p \in DOMAIN leaves
        PROVE \E k \in 1 .. Len(entries) :
                /\ entries[k].path = p /\ entries[k].value = leaves[p]
                /\ \A j \in k + 1 .. Len(entries) : entries[j].path # p
    <3>1. PICK k \in 1 .. Len(entries) : IsLast(k, p) BY <2>2
    <3>2. \A j \in k + 1 .. Len(entries) : entries[j].path # p
      BY <2>1, <3>1 DEF IsLast
    <3> QED BY <3>1, <3>2 DEF IsLast
  <2> QED BY <2>2, <2>4, <2>5, <2>6
<1>2. MapInv => LastWins BY <1>1 DEF LastWins
<1> QED BY <1>2, MapInvariant, PTL

\* Objects win wherever joinKey keeps the paths of the input apart.
THEOREM ObjectsWinByKey == MapSpec => []ValuesAreLeaves
<1>1. ASSUME MapInv, LastWins, pc = "done", KeysDistinct
      PROVE DOMAIN leaves = Paths \ AllParents
  <2>1. scopes \subseteq {joinKey(q) : q \in AllParents}
    BY <1>1 DEF MapInv, Scanning
  <2>2. \A q \in AllParents : joinKey(q) \in scopes
    <3>1. \A k \in 1 .. Len(entries) : Covered(k) BY <1>1 DEF MapInv, Scanning
    <3> QED BY <3>1 DEF Covered, AllParents, Paths
  <2>3. \A p \in Paths : IsScope(p) <=> p \in AllParents
    BY <1>1, <2>1, <2>2 DEF IsScope, KeysDistinct
  <2> QED BY <1>1, <2>3 DEF LastWins
<1>2. MapInv /\ LastWins => ValuesAreLeaves BY <1>1 DEF ValuesAreLeaves
<1> QED BY <1>2, MapInvariant, LastEntryWins, PTL

----------------------------------------------------------------------------
(* What joinKey tells apart.                                               *)

\* The texts over C that do not hold the character joinKey writes.
Text(C) == Seq(C \ {NUL})

\* The keys of the first segments of a path.
IsJoin(join, path, C) ==
  /\ join \in [0 .. Len(path) -> Seq(C \cup {NUL})]
  /\ path # <<>> => join[1] = path[1]
  /\ \A n \in 2 .. Len(path) : join[n] = (join[n - 1] \o <<NUL>>) \o path[n]

LEMMA JoinKeyIsJoin ==
  ASSUME NEW C, NEW path \in Seq(Text(C))
  PROVE  \E join : IsJoin(join, path, C) /\ joinKey(path) = join[Len(path)]
<1> DEFINE V == Seq(C \cup {NUL})
           m == Len(path)
           Body(j, n) == CASE n = 0 -> <<>>
                           [] n = 1 -> path[1]
                           [] OTHER -> j[n - 1] \o <<NUL>> \o path[n]
           join == CHOOSE j : j = [n \in 0 .. m |-> Body(j, n)]
           Next(n, v) == IF n = 1 THEN path[1] ELSE v \o <<NUL>> \o path[n]
           step == [n \in 1 .. m |-> [v \in V |-> Next(n, v)]]
<1>1. m \in Nat /\ \A n \in 1 .. m : path[n] \in V
  BY DEF Text
<1>2. <<>> \in V /\ <<NUL>> \in V OBVIOUS
<1>3. ASSUME NEW n \in 1 .. m, NEW v \in V PROVE Next(n, v) \in V
  <2>1. path[n] \in V /\ path[1] \in V BY <1>1
  <2>2. (v \o <<NUL>>) \o path[n] \in V BY <1>2, <2>1
  <2> HIDE DEF V
  <2> QED BY <2>1, <2>2
<1>4. \A n \in 1 .. m : step[n] \in [V -> V]
  <2> HIDE DEF Next, V
  <2> QED BY <1>3
<1>5. PICK f : f \in [0 .. m -> V] /\ f[0] = <<>> /\ \A n \in 1 .. m : f[n] = step[n][f[n - 1]]
  <2> DEFINE first == <<>>
  <2>1. first \in V /\ m \in Nat BY <1>1, <1>2
  <2> HIDE DEF V, step, m, first
  <2>2. PICK f : f \in Iterates(V, first, step, m) BY <1>4, <2>1, BoundedRecursion
  <2> QED BY <2>2 DEF Iterates, first
<1>6. ASSUME NEW n \in 1 .. m PROVE f[n - 1] \in V /\ f[n] = Next(n, f[n - 1])
  <2>1. n - 1 \in 0 .. m BY <1>1
  <2> HIDE DEF V, Next
  <2>2. f[n - 1] \in V BY <1>5, <2>1
  <2>3. step[n][f[n - 1]] = Next(n, f[n - 1]) BY <2>2
  <2> QED BY <1>5, <2>2, <2>3
<1>7. f = [n \in 0 .. m |-> Body(f, n)]
  <2>1. ASSUME NEW n \in 0 .. m PROVE f[n] = Body(f, n)
    <3>1. CASE n = 0
      <4>1. Body(f, 0) = <<>> OBVIOUS
      <4> HIDE DEF Body
      <4> QED BY <3>1, <4>1, <1>5
    <3>2. CASE n # 0
      <4>1. n \in 1 .. m BY <1>1, <3>2
      <4>2. f[n] = Next(n, f[n - 1]) BY <1>6, <4>1
      <4> QED BY <3>2, <4>2
    <3> QED BY <3>1, <3>2
  <2> HIDE DEF Body, V, step
  <2> QED BY <2>1, <1>5
<1>8. join = [n \in 0 .. m |-> Body(join, n)]
  <2> HIDE DEF Body
  <2> QED BY <1>7, Zenon
<1>9. joinKey(path) = join[m] BY DEF joinKey
<1> HIDE DEF join
<1>10. \A n \in 0 .. m : join[n] = Body(join, n) BY <1>8
<1>11. /\ join[0] = <<>>
       /\ 1 \in 1 .. m => join[1] = path[1]
       /\ \A n \in 2 .. m : join[n] = join[n - 1] \o <<NUL>> \o path[n]
  <2>1. 0 \in 0 .. m /\ (1 \in 1 .. m => 1 \in 0 .. m) BY <1>1
  <2>2. Body(join, 0) = <<>> /\ Body(join, 1) = path[1] OBVIOUS
  <2>3. ASSUME NEW n \in 2 .. m PROVE n \in 0 .. m /\ Body(join, n) = join[n - 1] \o <<NUL>> \o path[n]
    <3>1. n # 0 /\ n # 1 /\ n \in 0 .. m BY <1>1
    <3> HIDE DEF m
    <3> QED BY <3>1
  <2> HIDE DEF Body, V, m
  <2> QED BY <1>10, <2>1, <2>2, <2>3
<1> DEFINE S == {n \in Nat : n <= m => join[n] \in V}
<1>12. \A n \in Nat : n \in S
  <2>1. 0 \in S BY <1>2, <1>11
  <2>2. ASSUME NEW n \in Nat, n \in S, n + 1 <= m PROVE join[n + 1] \in V
    <3>1. CASE n = 0 BY <3>1, <1>1, <1>11, <2>2
    <3>2. CASE n # 0
      <4>1. join[n + 1] = join[n] \o <<NUL>> \o path[n + 1]
        <5>1. n + 1 \in 2 .. m /\ (n + 1) - 1 = n BY <3>2, <2>2, <1>1
        <5> QED BY <1>11, <5>1
      <4>2. join[n] \in V /\ path[n + 1] \in V BY <1>1, <2>2
      <4> QED BY <1>2, <4>1, <4>2
    <3> QED BY <3>1, <3>2
  <2> HIDE DEF V
  <2>3. \A n \in Nat : n \in S => n + 1 \in S BY <2>2
  <2> HIDE DEF S
  <2> QED BY <2>1, <2>3, NatInSet
<1>13. join \in [0 .. m -> V]
  <2> HIDE DEF Body, V
  <2> QED BY <1>8, <1>12
<1>14. IsJoin(join, path, C)
  <2>1. path # <<>> => 1 \in 1 .. m BY <1>1
  <2> QED BY <1>11, <1>13, <2>1 DEF IsJoin
<1> QED BY <1>9, <1>14

\* Where the last NUL is: nothing after it is one.
LEMMA LaterCut ==
  ASSUME NEW C, NEW a \in Seq(C \cup {NUL}), NEW b \in Seq(C \cup {NUL}),
         NEW s \in Text(C), NEW t \in Text(C),
         (a \o <<NUL>>) \o s = (b \o <<NUL>>) \o t
  PROVE  ~(Len(a) < Len(b))
<1> SUFFICES ASSUME Len(a) < Len(b) PROVE FALSE OBVIOUS
<1> DEFINE l == (a \o <<NUL>>) \o s
           r == (b \o <<NUL>>) \o t
           n == Len(b) + 1
<1>1. Len(a) \in Nat /\ Len(b) \in Nat /\ Len(s) \in Nat /\ Len(t) \in Nat BY DEF Text
<1>2. /\ Len(l) = Len(a) + 1 + Len(s)
      /\ Len(r) = Len(b) + 1 + Len(t)
  BY DEF Text
<1>3. r[n] = NUL BY <1>1 DEF Text
<1>4. n - (Len(a) + 1) \in 1 .. Len(s) BY <1>1, <1>2
<1>5. l[n] = s[n - (Len(a) + 1)]
  <2>1. a \o <<NUL>> \in Seq(C \cup {NUL}) /\ Len(a \o <<NUL>>) = Len(a) + 1
        /\ s \in Seq(C \cup {NUL})
    BY <1>1 DEF Text
  <2>2. n \in 1 .. Len(l) /\ n > Len(a) + 1 BY <1>1, <1>2, <1>4
  <2> QED BY <2>1, <2>2, <1>1, <1>2
<1>6. s[n - (Len(a) + 1)] \in C \ {NUL} BY <1>4 DEF Text
<1> QED BY <1>3, <1>5, <1>6

LEMMA LastCut ==
  ASSUME NEW C, NEW a \in Seq(C \cup {NUL}), NEW b \in Seq(C \cup {NUL}),
         NEW s \in Text(C), NEW t \in Text(C),
         (a \o <<NUL>>) \o s = (b \o <<NUL>>) \o t
  PROVE  a = b /\ s = t
<1> DEFINE l == (a \o <<NUL>>) \o s
           r == (b \o <<NUL>>) \o t
<1>1. Len(a) \in Nat /\ Len(b) \in Nat /\ Len(s) \in Nat /\ Len(t) \in Nat BY DEF Text
<1>2. Len(a) = Len(b)
  <2>1. ~(Len(a) < Len(b)) BY LaterCut
  <2>2. (b \o <<NUL>>) \o t = (a \o <<NUL>>) \o s OBVIOUS
  <2>3. ~(Len(b) < Len(a)) BY <2>2, LaterCut
  <2> QED BY <1>1, <2>1, <2>3
<1>3. Len(l) = Len(a) + 1 + Len(s) /\ Len(r) = Len(b) + 1 + Len(t) BY DEF Text
<1>4. Len(s) = Len(t) BY <1>1, <1>2, <1>3
<1>5. \A i \in 1 .. Len(a) : l[i] = a[i] /\ r[i] = b[i]
  BY <1>1, <1>2 DEF Text
<1>6. \A i \in 1 .. Len(s) : l[Len(a) + 1 + i] = s[i] /\ r[Len(b) + 1 + i] = t[i]
  BY <1>1, <1>2, <1>4 DEF Text
<1>7. \A i \in 1 .. Len(a) : a[i] = b[i] BY <1>5
<1>8. \A i \in 1 .. Len(s) : s[i] = t[i] BY <1>2, <1>6
<1> HIDE DEF l, r
<1>9. a = b BY <1>2, <1>7
<1>10. s = t
  <2>1. s \in Seq(C \ {NUL}) /\ t \in Seq(C \ {NUL}) BY DEF Text
  <2> QED BY <2>1, <1>4, <1>8, SeqEqual
<1> QED BY <1>9, <1>10

LEMMA HasCut ==
  ASSUME NEW C, NEW a \in Seq(C \cup {NUL}), NEW s \in Text(C)
  PROVE  (a \o <<NUL>>) \o s \notin Text(C)
<1> DEFINE l == (a \o <<NUL>>) \o s
<1>1. Len(a) + 1 \in 1 .. Len(l) /\ l[Len(a) + 1] = NUL BY DEF Text
<1> QED BY <1>1 DEF Text

\* How the n-th key ends.
EndsIn(join, path, n, C) ==
  /\ path[n] \in Text(C)
  /\ n = 1 => join[n] = path[n]
  /\ n # 1 => /\ n - 1 \in 1 .. Len(path)
              /\ join[n - 1] \in Seq(C \cup {NUL})
              /\ join[n] = (join[n - 1] \o <<NUL>>) \o path[n]

LEMMA JoinStep ==
  ASSUME NEW C, NEW path \in Seq(Text(C)), NEW join, IsJoin(join, path, C),
         NEW n \in 1 .. Len(path)
  PROVE  EndsIn(join, path, n, C)
<1>1. path[n] \in Text(C) OBVIOUS
<1>2. n = 1 => join[n] = path[n] BY DEF IsJoin
<1>3. ASSUME n # 1
      PROVE  /\ n - 1 \in 1 .. Len(path)
             /\ join[n - 1] \in Seq(C \cup {NUL})
             /\ join[n] = (join[n - 1] \o <<NUL>>) \o path[n]
  <2>1. n - 1 \in 1 .. Len(path) /\ n - 1 \in 0 .. Len(path) /\ n \in 2 .. Len(path)
    BY <1>3
  <2>2. join[n - 1] \in Seq(C \cup {NUL}) BY <2>1 DEF IsJoin
  <2> QED BY <2>1, <2>2 DEF IsJoin
<1> QED BY <1>1, <1>2, <1>3 DEF EndsIn

\* Equal keys end in the same segment and go on alike before it.
LEMMA EqualKeys ==
  ASSUME NEW C, NEW p \in Seq(Text(C)), NEW q \in Seq(Text(C)),
         NEW j, IsJoin(j, p, C), NEW k, IsJoin(k, q, C),
         NEW n \in 1 .. Len(p), NEW m \in 1 .. Len(q), j[n] = k[m]
  PROVE  /\ p[n] = q[m] /\ (n = 1 <=> m = 1)
         /\ n # 1 => j[n - 1] = k[m - 1]
<1>0. EndsIn(j, p, n, C) /\ EndsIn(k, q, m, C) BY JoinStep
<1>1. /\ p[n] \in Text(C)
      /\ n = 1 => j[n] = p[n]
      /\ n # 1 => /\ j[n - 1] \in Seq(C \cup {NUL})
                  /\ j[n] = (j[n - 1] \o <<NUL>>) \o p[n]
  BY <1>0 DEF EndsIn
<1>2. /\ q[m] \in Text(C)
      /\ m = 1 => k[m] = q[m]
      /\ m # 1 => /\ k[m - 1] \in Seq(C \cup {NUL})
                  /\ k[m] = (k[m - 1] \o <<NUL>>) \o q[m]
  BY <1>0 DEF EndsIn
<1> DEFINE a == j[n - 1]
           b == k[m - 1]
           s == p[n]
           t == q[m]
<1>3. ASSUME n # 1, m # 1 PROVE a = b /\ s = t
  <2>1. /\ a \in Seq(C \cup {NUL}) /\ b \in Seq(C \cup {NUL})
        /\ s \in Text(C) /\ t \in Text(C)
        /\ (a \o <<NUL>>) \o s = (b \o <<NUL>>) \o t
    BY <1>1, <1>2, <1>3
  <2> HIDE DEF a, b, s, t
  <2> QED BY <2>1, LastCut
<1>4. ~(n = 1 /\ m # 1)
  <2>1. b \in Seq(C \cup {NUL}) /\ m # 1 /\ n = 1 => (b \o <<NUL>>) \o t = s BY <1>1, <1>2
  <2>2. m # 1 => b \in Seq(C \cup {NUL}) BY <1>2
  <2>3. s \in Text(C) /\ t \in Text(C) BY <1>1, <1>2
  <2> HIDE DEF b, s, t
  <2>4. m # 1 => (b \o <<NUL>>) \o t \notin Text(C) BY <2>2, <2>3, HasCut
  <2> QED BY <2>1, <2>2, <2>3, <2>4
<1>5. ~(n # 1 /\ m = 1)
  <2>1. a \in Seq(C \cup {NUL}) /\ n # 1 /\ m = 1 => (a \o <<NUL>>) \o s = t BY <1>1, <1>2
  <2>2. n # 1 => a \in Seq(C \cup {NUL}) BY <1>1
  <2>3. s \in Text(C) /\ t \in Text(C) BY <1>1, <1>2
  <2> HIDE DEF a, s, t
  <2>4. n # 1 => (a \o <<NUL>>) \o s \notin Text(C) BY <2>2, <2>3, HasCut
  <2> QED BY <2>1, <2>2, <2>3, <2>4
<1>6. n = 1 /\ m = 1 => p[n] = q[m] BY <1>1, <1>2
<1> QED BY <1>3, <1>4, <1>5, <1>6

\* joinKey tells nonempty paths apart whose segments hold no NUL.
THEOREM JoinKeyInjective ==
  ASSUME NEW C, NEW p \in Seq(Text(C)), NEW q \in Seq(Text(C)),
         p # <<>>, q # <<>>, joinKey(p) = joinKey(q)
  PROVE  p = q
<1>1. PICK j : IsJoin(j, p, C) /\ joinKey(p) = j[Len(p)] BY JoinKeyIsJoin
<1>2. PICK k : IsJoin(k, q, C) /\ joinKey(q) = k[Len(q)] BY JoinKeyIsJoin
<1> DEFINE S == {n \in Nat : \A m \in 1 .. Len(q) :
                   n \in 1 .. Len(p) /\ j[n] = k[m]
                     => n = m /\ \A i \in 1 .. n : p[i] = q[i]}
<1>3. Len(p) \in Nat \ {0} /\ Len(q) \in Nat \ {0} OBVIOUS
<1>4. 0 \in S OBVIOUS
<1>5. ASSUME NEW n \in Nat, n \in S PROVE n + 1 \in S
  <2> DEFINE l == n + 1
  <2> SUFFICES ASSUME NEW m \in 1 .. Len(q), l \in 1 .. Len(p), j[l] = k[m]
               PROVE  l = m /\ \A i \in 1 .. l : p[i] = q[i]
    OBVIOUS
  <2>0. l \in Nat /\ l - 1 = n OBVIOUS
  <2>1. /\ p[l] = q[m] /\ (l = 1 <=> m = 1)
        /\ l # 1 => j[l - 1] = k[m - 1]
    <3> HIDE DEF l
    <3> QED BY <1>1, <1>2, EqualKeys
  <2>2. CASE l = 1 BY <2>1, <2>2
  <2>3. CASE l # 1
    <3>1. j[n] = k[m - 1] /\ m # 1 BY <2>0, <2>1, <2>3
    <3>2. m - 1 \in 1 .. Len(q) /\ n \in 1 .. Len(p) BY <1>3, <2>3, <3>1
    <3>3. n = m - 1 /\ \A i \in 1 .. n : p[i] = q[i] BY <1>5, <3>1, <3>2
    <3>4. \A i \in 1 .. l : i \in 1 .. n \/ i = l OBVIOUS
    <3>5. l = m BY <3>3
    <3> HIDE DEF l
    <3> QED BY <2>1, <3>3, <3>4, <3>5
  <2> QED BY <2>2, <2>3
<1>6. Len(p) \in S
  <2> HIDE DEF S
  <2>1. \A n \in Nat : n \in S BY <1>4, <1>5, NatInSet
  <2> QED BY <1>3, <2>1
<1>7. j[Len(p)] = k[Len(q)] BY <1>1, <1>2
<1>8. Len(p) = Len(q) /\ \A i \in 1 .. Len(p) : p[i] = q[i] BY <1>3, <1>6, <1>7
<1> QED BY <1>8, SeqEqual

----------------------------------------------------------------------------
(* Objects win.                                                            *)

\* Every segment the caller collected is a text over C without NUL.
NulFree(C) == \A p \in Paths : p \in Seq(Text(C))

\* The entries Build has looked at are well formed, and the objects are the
\* parents of the entries it has inserted.
ObjectsFollow(C) ==
  /\ pc = "scan" => \A k \in 1 .. Len(entries) : k < at => WellFormed(entries[k].path)
  /\ pc \in {"insert", "done"} => \A k \in 1 .. Len(entries) : WellFormed(entries[k].path)
  /\ pc \in {"collect", "scan"} => objects = {}
  /\ pc \in {"insert", "done"} /\ NulFree(C) =>
       /\ objects \subseteq AllParents
       /\ \A k \in 1 .. Len(entries) :
            k < at /\ ~IsScope(entries[k].path) => Parents(entries[k].path) \subseteq objects

LEMMA ParentIsShorter ==
  ASSUME NEW T, NEW path \in Seq(T), NEW p \in Parents(path)
  PROVE  p \in Seq(T) /\ p # <<>> /\ Len(p) < Len(path)
<1>1. PICK n \in 1 .. Len(path) - 1 : p = SubSeq(path, 1, n) BY DEF Parents
<1>2. Len(path) \in Nat OBVIOUS
<1>3. p \in Seq(T) /\ Len(p) = n BY <1>1, <1>2
<1> QED BY <1>1, <1>2, <1>3

LEMMA ParentsTransitive ==
  ASSUME NEW T, NEW path \in Seq(T), NEW p \in Parents(path), NEW q \in Parents(p)
  PROVE  q \in Parents(path)
<1>1. PICK n \in 1 .. Len(path) - 1 : p = SubSeq(path, 1, n) BY DEF Parents
<1>2. Len(path) \in Nat OBVIOUS
<1>3. p \in Seq(T) /\ Len(p) = n BY <1>1, <1>2
<1>4. PICK m \in 1 .. n - 1 : q = SubSeq(p, 1, m) BY <1>3 DEF Parents
<1>5. SubSeq(p, 1, m) = SubSeq(path, 1, m)
  <2>1. m \in 1 .. Len(path) - 1 BY <1>2, <1>4
  <2>2. \A i \in 1 .. m : p[i] = path[i] BY <1>1, <1>2, <1>4
  <2>3. /\ SubSeq(p, 1, m) = [i \in 1 .. m |-> p[i]]
        /\ SubSeq(path, 1, m) = [i \in 1 .. m |-> path[i]]
    BY <1>2, <1>3, <1>4, <2>1
  <2> QED BY <2>2, <2>3
<1> QED BY <1>2, <1>4, <1>5 DEF Parents

\* Well-formed paths without NUL have keys of their own.
LEMMA KeysApart ==
  ASSUME NEW C, NulFree(C), \A p \in Paths : p # <<>>
  PROVE  KeysDistinct
<1>1. ASSUME NEW p \in Paths \cup AllParents PROVE p \in Seq(Text(C)) /\ p # <<>>
  <2>1. CASE p \in Paths BY <2>1 DEF NulFree
  <2>2. CASE p \in AllParents
    <3>1. PICK r \in Paths : p \in Parents(r) BY <2>2 DEF AllParents
    <3>2. r \in Seq(Text(C)) BY DEF NulFree
    <3> QED BY <3>1, <3>2, ParentIsShorter
  <2> QED BY <2>1, <2>2
<1> QED BY <1>1, JoinKeyInjective DEF KeysDistinct

LEMMA ObjectsFollowInit == ASSUME NEW C, MapInit PROVE ObjectsFollow(C)
<1> QED BY DEF MapInit, ObjectsFollow

\* Insert takes no object away: what lies under its path is a parent, or has it
\* for a parent, and the scan would have held the path back.
LEMMA InsertFollows ==
  ASSUME NEW C, MapInv, ObjectsFollow(C), Insert
  PROVE  ObjectsFollow(C)'
<1> DEFINE path == entries[at].path
<1>1. /\ pc = "insert" /\ at' = at + 1 /\ at \in 1 .. Len(entries)
      /\ ~IsScope(path)
      /\ UNCHANGED <<pc, entries, scopes, fault>>
      /\ Len(entries) \in Nat
  BY DEF Insert, MapInv, Sequential
<1>2. \A q \in AllParents : IsScope(q)
  <2>1. \A k \in 1 .. Len(entries) : Covered(k) BY <1>1 DEF MapInv, Scanning
  <2> QED BY <2>1 DEF Covered, IsScope, AllParents, Paths
<1>3. (NulFree(C)' <=> NulFree(C)) /\ AllParents' = AllParents /\ Paths' = Paths
  BY <1>1 DEF NulFree, AllParents, Paths
<1>4. ASSUME NulFree(C) PROVE objects' = objects \cup Parents(path)
  <2>1. objects' = (objects \cup Parents(path)) \ {p \in objects : Under(path, p)}
    BY DEF Insert, Write
  <2>2. ASSUME NEW p \in objects PROVE ~Under(path, p)
    <3>1. p \in AllParents BY <1>1, <1>4 DEF ObjectsFollow
    <3>2. PICK r \in Paths : p \in Parents(r) BY <3>1 DEF AllParents
    <3>3. r \in Seq(Text(C)) BY <1>4 DEF NulFree
    <3>4. \A q \in Parents(p) : q \in AllParents
      BY <3>2, <3>3, ParentsTransitive DEF AllParents
    <3> QED BY <1>1, <1>2, <3>1, <3>4 DEF Under
  <2>3. ASSUME NEW p \in Parents(path) PROVE ~Under(path, p) \/ p \notin objects
    BY <2>2
  <2> QED BY <2>1, <2>2
<1>5. path \in Paths BY <1>1 DEF Paths
<1>6. ASSUME NulFree(C) PROVE objects' \subseteq AllParents
  <2>1. Parents(path) \subseteq AllParents BY <1>5 DEF AllParents
  <2> QED BY <1>1, <1>4, <1>6, <2>1 DEF ObjectsFollow
<1>7. ASSUME NulFree(C), NEW k \in 1 .. Len(entries), k < at', ~IsScope(entries[k].path)
      PROVE Parents(entries[k].path) \subseteq objects'
  <2>1. CASE k = at BY <1>4, <1>7, <2>1
  <2>2. CASE k < at BY <1>1, <1>4, <1>7, <2>2 DEF ObjectsFollow
  <2> QED BY <1>1, <1>7, <2>1, <2>2
<1>8. \A p : IsScope(p)' <=> IsScope(p) BY <1>1 DEF IsScope
<1> QED BY <1>1, <1>3, <1>6, <1>7, <1>8 DEF ObjectsFollow

LEMMA ObjectsFollowNext ==
  ASSUME NEW C, MapInv, ObjectsFollow(C), [MapNext]_mapVars
  PROVE  ObjectsFollow(C)'
<1> USE DEF ObjectsFollow, NulFree, AllParents, Paths, IsScope
<1>0. at \in Nat \ {0} /\ Len(entries) \in Nat BY DEF MapInv, Sequential
<1>1. CASE Collect
  <2>1. pc = "collect" /\ pc' = "collect" /\ objects' = objects BY <1>1 DEF Collect
  <2> QED BY <2>1
<1>2. CASE Call
  <2>1. pc = "collect" /\ pc' = "scan" /\ UNCHANGED <<at, objects, entries>>
    BY <1>2 DEF Call
  <2>2. at = 1 BY <2>1 DEF MapInv, Scanning
  <2> QED BY <2>1, <2>2
<1>3. CASE GiveUp BY <1>3 DEF GiveUp, Fail
<1>4. CASE Scan
  <2>1. /\ pc = "scan" /\ pc' = "scan" /\ at' = at + 1 /\ WellFormed(entries[at].path)
        /\ UNCHANGED <<entries, objects>>
    BY <1>4 DEF Scan
  <2>2. \A k \in 1 .. Len(entries) : k < at' => k < at \/ k = at BY <1>0, <2>1
  <2> QED BY <2>1, <2>2
<1>5. CASE ScanRefuses BY <1>5 DEF ScanRefuses, Fail
<1>6. CASE ScanEnds
  <2>1. /\ pc = "scan" /\ pc' = "insert" /\ at > Len(entries) /\ at' = 1
        /\ UNCHANGED <<entries, scopes, objects>>
    BY <1>6 DEF ScanEnds
  <2>2. \A k \in 1 .. Len(entries) : k < at /\ ~(k < at') BY <1>0, <2>1
  <2> QED BY <2>1, <2>2
<1>7. CASE Skip
  <2>1. /\ pc = "insert" /\ pc' = "insert" /\ at' = at + 1 /\ IsScope(entries[at].path)
        /\ UNCHANGED <<entries, scopes, objects>>
    BY <1>7 DEF Skip
  <2>2. \A k \in 1 .. Len(entries) : k < at' => k < at \/ k = at BY <1>0, <2>1
  <2> QED BY <2>1, <2>2
<1>8. CASE Insert BY <1>8, InsertFollows
<1>9. CASE Clash BY <1>9, ClashImpossible
<1>10. CASE InsertEnds
  <2>1. /\ pc = "insert" /\ pc' = "done"
        /\ UNCHANGED <<at, entries, scopes, objects>>
    BY <1>10 DEF InsertEnds
  <2> QED BY <2>1
<1>11. CASE UNCHANGED mapVars BY <1>11 DEF mapVars
<1> QED BY <1>1, <1>2, <1>3, <1>4, <1>5, <1>6, <1>7, <1>8, <1>9, <1>10, <1>11
        DEF MapNext, Build

\* The paths of finitely many entries have a bound on their lengths.
LEMMA PathsBounded ==
  ASSUME NEW C, Sequential, NulFree(C)
  PROVE  \E bound \in Nat : \A p \in Paths : Len(p) <= bound
<1> DEFINE m == Len(entries)
           long(k) == Len(entries[k].path)
           Bounded(n) == \E bound \in Nat : \A k \in 1 .. n : long(k) <= bound
           S == {n \in Nat : n <= m => Bounded(n)}
<1>1. m \in Nat BY DEF Sequential
<1>2. \A k \in 1 .. m : long(k) \in Nat
  BY DEF NulFree, Paths
<1> HIDE DEF m, long
<1>3. 0 \in S OBVIOUS
<1>4. ASSUME NEW n \in Nat, Bounded(n), n + 1 <= m PROVE Bounded(n + 1)
  <2>1. PICK b \in Nat : \A k \in 1 .. n : long(k) <= b BY <1>4
  <2>2. long(n + 1) \in Nat BY <1>1, <1>2, <1>4
  <2>3. \A k \in 1 .. n + 1 : k \in 1 .. n \/ k = n + 1 OBVIOUS
  <2>4. \A k \in 1 .. n + 1 : long(k) \in Nat BY <1>1, <1>2, <1>4
  <2>5. \A k \in 1 .. n + 1 : long(k) <= b + long(n + 1)
    BY <2>1, <2>2, <2>3, <2>4
  <2>6. b + long(n + 1) \in Nat BY <2>2
  <2> QED BY <2>5, <2>6
<1> HIDE DEF Bounded
<1>5. \A n \in Nat : n \in S => n + 1 \in S BY <1>1, <1>4
<1> HIDE DEF S
<1>6. m \in S BY <1>1, <1>3, <1>5, NatInSet
<1>7. PICK bound \in Nat : \A k \in 1 .. m : long(k) <= bound BY <1>1, <1>6 DEF S, Bounded
<1> QED BY <1>7 DEF Paths, m, long

\* At the end every parent is an object: the longest path through it was
\* inserted, for nothing passes through that one.
LEMMA ParentsAreObjects ==
  ASSUME NEW C, MapInv, ObjectsFollow(C), NulFree(C), KeysDistinct, pc = "done"
  PROVE  AllParents \subseteq objects
<1> SUFFICES ASSUME NEW q \in AllParents PROVE q \in objects OBVIOUS
<1> DEFINE Through == {p \in Paths : q \in Parents(p)}
           S == {Len(p) : p \in Through}
<1>1. \A p \in Paths : p \in Seq(Text(C)) /\ Len(p) \in Nat BY DEF NulFree
<1>2. PICK bound \in Nat : \A p \in Paths : Len(p) <= bound
  BY PathsBounded DEF MapInv
<1>3. S \subseteq Nat /\ S # {} /\ \A n \in S : n <= bound BY <1>1, <1>2 DEF AllParents
<1>4. PICK n \in S : \A m \in S : m <= n
  <2> HIDE DEF S
  <2> QED BY <1>3, GreatestElement
<1>5. PICK p \in Through : n = Len(p) OBVIOUS
<1>6. ~IsScope(p)
  <2> SUFFICES ASSUME IsScope(p) PROVE FALSE OBVIOUS
  <2>1. PICK r \in AllParents : joinKey(p) = joinKey(r)
    BY DEF IsScope, MapInv, Scanning
  <2>2. p = r BY <2>1 DEF KeysDistinct
  <2>3. PICK s \in Paths : p \in Parents(s) BY <2>2 DEF AllParents
  <2>4. q \in Parents(s) /\ Len(p) < Len(s)
    BY <1>1, <2>3, ParentIsShorter, ParentsTransitive
  <2>5. Len(s) \in S BY <2>4
  <2> QED BY <1>1, <1>4, <1>5, <2>4, <2>5
<1>7. PICK k \in 1 .. Len(entries) : entries[k].path = p BY DEF Paths
<1>8. k < at BY DEF MapInv, Sequential, Inserting
<1> QED BY <1>6, <1>7, <1>8 DEF ObjectsFollow

\* The objects are the parents, and no parent has a value, as soon as the keys
\* tell the paths apart.
LEMMA ObjectsAreParents ==
  ASSUME NEW C, MapInv, ObjectsFollow(C), ValuesAreLeaves, NulFree(C)
  PROVE  ObjectsWin
<1>1. ASSUME pc = "done" PROVE DOMAIN leaves = Paths \ AllParents /\ objects = AllParents
  <2>1. \A p \in Paths : p # <<>> BY <1>1 DEF ObjectsFollow, WellFormed, Paths
  <2>2. KeysDistinct BY <2>1, KeysApart
  <2>3. AllParents \subseteq objects BY <1>1, <2>2, ParentsAreObjects
  <2>4. objects \subseteq AllParents BY <1>1 DEF ObjectsFollow
  <2> QED BY <1>1, <2>2, <2>3, <2>4 DEF ValuesAreLeaves
<1> QED BY <1>1 DEF ObjectsWin

\* Objects win (rule F2.5 at Build) for any entries whose segments hold no NUL,
\* the character joinKey writes between them: the values are at the paths no
\* other path passes through, the objects are exactly the parents.
THEOREM ObjectsWinWithoutNul ==
  ASSUME NEW CONSTANT C
  PROVE  MapSpec => [](NulFree(C) => ObjectsWin)
<1>1. MapInv /\ ObjectsFollow(C) /\ ValuesAreLeaves => (NulFree(C) => ObjectsWin)
  BY ObjectsAreParents
<1>2. MapInit => ObjectsFollow(C) BY ObjectsFollowInit
<1>3. MapInv /\ ObjectsFollow(C) /\ [MapNext]_mapVars => ObjectsFollow(C)'
  BY ObjectsFollowNext
<1> QED BY <1>1, <1>2, <1>3, MapInvariant, ObjectsWinByKey, PTL DEF MapSpec
=============================================================================
