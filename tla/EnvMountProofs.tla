--------------------------- MODULE EnvMountProofs ---------------------------
(***************************************************************************)
(* The environment adapter is a caller of pathmap.Build, for any input,    *)
(* alphabet and limit, so that what is proved of Build holds of it.  What  *)
(* it reads and refuses follows: a .env file is refused for its own lines  *)
(* only and a quoted value survives; an environment is mounted whole, and  *)
(* its outcome does not depend on the order of its variables.              *)
(***************************************************************************)
EXTENDS EnvTextProofs, PathMapProofs

\* Reading the input either hands one more entry over, or gives up with an
\* error of its own, or calls Build, or is not visible to Build.
LEMMA ReadStep ==
  ASSUME Sequential, Read
  PROVE (Collect \/ Call \/ GiveUp \/ UNCHANGED mapVars) /\ Sequential'
<1> USE DEF At, Refuse, Fail
<1>1. CASE UNCHANGED mapVars BY <1>1 DEF mapVars, Sequential
<1>2. CASE GiveUp BY <1>2 DEF GiveUp, Sequential
<1>3. CASE Call BY <1>3 DEF Call, Sequential
<1>4. CASE Load \/ Parse \/ InputEnds BY <1>1, <1>4 DEF Load, Parse, InputEnds, GoOn
<1>5. CASE Ignore \/ NoVariable \/ NotSelected
  BY <1>1, <1>5 DEF Ignore, NoVariable, NotSelected, PassOver
<1>6. CASE ReadLine \/ ReadVariable BY <1>1, <1>6 DEF ReadLine, ReadVariable, TakePair
<1>7. CASE LoadWithoutPrefix \/ ParseInvalid
  BY <1>2, <1>7 DEF LoadWithoutPrefix, ParseInvalid, GiveUp
<1>8. CASE RefuseLine \/ RefuseName \/ RefuseValue
  BY <1>2, <1>8 DEF RefuseLine, RefuseName, RefuseValue, ReadsLine, GiveUp
<1>9. CASE Undecodable \/ TooDeep \/ Collision
  BY <1>2, <1>9 DEF Undecodable, TooDeep, Collision, Mounts, RefusePair, GiveUp
<1>10. CASE MountPair
  <2>1. PICK e : entries' = Append(entries, e) BY <1>10 DEF MountPair, Mount
  <2>2. pc = "collect" /\ UNCHANGED <<pc, at, scopes, objects, leaves, fault>>
    BY <1>10 DEF MountPair, Mount, Mounts
  <2> QED BY <2>1, <2>2, AppendSequential DEF Collect
<1>11. CASE CallBuild BY <1>3, <1>11 DEF CallBuild
<1> QED BY <1>4, <1>5, <1>6, <1>7, <1>8, <1>9, <1>10, <1>11 DEF Read

LEMMA EnvStep ==
  ASSUME Sequential, [Next]_vars
  PROVE [MapNext]_mapVars /\ Sequential'
<1>1. CASE Read BY <1>1, ReadStep DEF MapNext
<1>2. CASE Build
  <2>1. UNCHANGED entries
    BY <1>2 DEF Build, Scan, ScanRefuses, ScanEnds, Skip, Insert, Clash, InsertEnds, Fail
  <2> QED BY <1>2, <2>1 DEF MapNext, Sequential
<1>3. CASE UNCHANGED vars BY <1>3 DEF vars, mapVars, Sequential
<1> QED BY <1>1, <1>2, <1>3 DEF Next

\* The adapter implements a caller of Build.
THEOREM AdapterCallsBuild == Spec => BuildsPathMap
<1>1. Init => MapInit /\ Sequential
  <2>1. ASSUME Init PROVE Sequential
    <3>1. entries = <<>> BY <2>1 DEF Init, MapInit
    <3> QED BY <3>1 DEF Sequential
  <2> QED BY <2>1 DEF Init
<1>2. Sequential /\ [Next]_vars => [MapNext]_mapVars /\ Sequential' BY EnvStep
<1> QED BY <1>1, <1>2, PTL DEF Spec, BuildsPathMap, MapSpec

\* So no environment and no .env file reaches insert's error, and a mounted
\* value is the last one of its path.
THEOREM EnvironNeverClashes == Spec => [](NoClash /\ LastWins)
<1>1. Spec => MapSpec BY AdapterCallsBuild DEF BuildsPathMap
<1> QED BY <1>1, InsertNeverClashes, LastEntryWins, PTL

----------------------------------------------------------------------------
(* What a .env file becomes.  What is said of the lines and the pairs is   *)
(* said of them as values: neither changes while it is used.               *)

Valids(text) == \A k \in 1 .. Len(text) : Valid(text[k])
MountedFor(prefix, raw) == IsPair(raw) /\ HasPrefix(NameIn(raw), prefix)
PathIn(prefix, name) == toPath[After(name, Len(prefix))]

\* A line that parseDotEnv takes.
Takes(prefix, raw) ==
  IsText(raw) => /\ IsPair(raw)
                 /\ MountedFor(prefix, raw) => checkName(NameIn(raw)) /\ ValueIn(raw).ok

\* Readable, of the prefix alone.
Accepts(prefix, raw) ==
  /\ Takes(prefix, raw)
  /\ MountedFor(prefix, raw) => /\ WellFormed(PathIn(prefix, NameIn(raw)))
                                /\ Len(PathIn(prefix, NameIn(raw))) <= MaxPathSegments

\* The pairs are the mounted lines up to one, in their order: f leads from a
\* pair to its line.
Enumerates(f, text, prefix, ps, last) ==
  /\ f \in [1 .. Len(ps) -> 1 .. last]
  /\ \A i, j \in 1 .. Len(ps) : i < j => f[i] < f[j]
  /\ \A j \in 1 .. Len(ps) : /\ MountedFor(prefix, text[f[j]])
                             /\ ps[j].name = NameIn(text[f[j]])
                             /\ ps[j].value = ValueIn(text[f[j]]).text
  /\ \A k \in 1 .. last : MountedFor(prefix, text[k]) => \E j \in 1 .. Len(ps) : f[j] = k

\* All lines up to one were taken, and their pairs are collected.
LinesRead(text, prefix, ps, last) ==
  /\ Valids(text)
  /\ \A k \in 1 .. last : Takes(prefix, text[k])
  /\ \E f : Enumerates(f, text, prefix, ps, last)

\* The first pairs are the entries.
PairsMounted(prefix, ps, es, last) ==
  /\ Len(es) = last
  /\ \A j \in 1 .. last : /\ es[j].path = PathIn(prefix, ps[j].name)
                          /\ es[j].value = ps[j].value
                          /\ Len(es[j].path) <= MaxPathSegments

Formed(es, last) == \A k \in 1 .. last : WellFormed(es[k].path)
Rejects(prefix, text) ==
  \E k \in 1 .. Len(text) : ~(Valid(text[k]) /\ Accepts(prefix, text[k]))

IsSeq(s) == s \in Seq({s[k] : k \in 1 .. Len(s)})

LEMMA Appended ==
  ASSUME NEW s, IsSeq(s), NEW e
  PROVE  /\ IsSeq(Append(s, e)) /\ Len(s) \in Nat /\ Len(Append(s, e)) = Len(s) + 1
         /\ \A k \in 1 .. Len(s) : Append(s, e)[k] = s[k]
         /\ Append(s, e)[Len(s) + 1] = e
<1> DEFINE S == {s[k] : k \in 1 .. Len(s)}
           t == Append(s, e)
<1>1. s \in Seq(S) BY DEF IsSeq
<1> HIDE DEF S
<1>2. /\ Len(s) \in Nat /\ Len(t) = Len(s) + 1 /\ t \in Seq(S \cup {e})
      /\ \A k \in 1 .. Len(s) : t[k] = s[k]
      /\ t[Len(s) + 1] = e
  BY <1>1
<1> HIDE DEF t
<1>3. t \in Seq({t[k] : k \in 1 .. Len(t)})
  <2>1. t \in [1 .. Len(t) -> S \cup {e}] /\ Len(t) \in Nat BY <1>2
  <2>2. t \in [1 .. Len(t) -> {t[k] : k \in 1 .. Len(t)}] BY <2>1
  <2> QED BY <2>1, <2>2
<1> QED BY <1>2, <1>3 DEF IsSeq, t

\* Another line that sets nothing.
LEMMA OneMoreIgnored ==
  ASSUME NEW text, NEW prefix, NEW ps, NEW n \in Nat, LinesRead(text, prefix, ps, n),
         Takes(prefix, text[n + 1]), ~MountedFor(prefix, text[n + 1])
  PROVE  LinesRead(text, prefix, ps, n + 1)
<1>1. \A k \in 1 .. n + 1 : k \in 1 .. n \/ k = n + 1 OBVIOUS
<1>2. PICK f : Enumerates(f, text, prefix, ps, n) BY DEF LinesRead
<1>3. Enumerates(f, text, prefix, ps, n + 1)
  <2>1. f \in [1 .. Len(ps) -> 1 .. n + 1] BY <1>2 DEF Enumerates
  <2> QED BY <1>1, <1>2, <2>1 DEF Enumerates
<1>4. \A k \in 1 .. n + 1 : Takes(prefix, text[k]) BY <1>1 DEF LinesRead
<1> QED BY <1>3, <1>4 DEF LinesRead

\* Another line whose pair is collected.
LEMMA OneMoreTaken ==
  ASSUME NEW text, NEW prefix, NEW ps, IsSeq(ps), NEW n \in Nat,
         LinesRead(text, prefix, ps, n),
         Takes(prefix, text[n + 1]), MountedFor(prefix, text[n + 1]), NEW e,
         e.name = NameIn(text[n + 1]), e.value = ValueIn(text[n + 1]).text
  PROVE  LinesRead(text, prefix, Append(ps, e), n + 1)
<1> DEFINE t == Append(ps, e)
           m == Len(ps)
<1>1. \A k \in 1 .. n + 1 : k \in 1 .. n \/ k = n + 1 OBVIOUS
<1>2. PICK f : Enumerates(f, text, prefix, ps, n) BY DEF LinesRead
<1>3. /\ m \in Nat /\ Len(t) = m + 1 /\ t[m + 1] = e
      /\ \A k \in 1 .. m : t[k] = ps[k]
  BY Appended
<1> HIDE DEF t
<1> DEFINE g == [j \in 1 .. m + 1 |-> IF j = m + 1 THEN n + 1 ELSE f[j]]
<1>4. /\ g[m + 1] = n + 1 /\ g \in [1 .. m + 1 -> 1 .. n + 1]
      /\ \A j \in 1 .. m : g[j] = f[j] /\ f[j] \in 1 .. n
  <2>1. f \in [1 .. m -> 1 .. n] BY <1>2 DEF Enumerates
  <2>2. \A j \in 1 .. m : f[j] \in 1 .. n /\ j # m + 1 BY <1>3, <2>1
  <2> HIDE DEF m
  <2> QED BY <1>3, <2>2
<1> HIDE DEF g
<1>5. \A j \in 1 .. m + 1 : j \in 1 .. m \/ j = m + 1 BY <1>3
<1>6. \A i, j \in 1 .. m + 1 : i < j => g[i] < g[j]
  <2> SUFFICES ASSUME NEW i \in 1 .. m + 1, NEW j \in 1 .. m + 1, i < j PROVE g[i] < g[j]
    OBVIOUS
  <2>1. i \in 1 .. m BY <1>3
  <2>2. g[i] = f[i] /\ f[i] \in 1 .. n BY <1>4, <2>1
  <2>3. CASE j = m + 1 BY <1>4, <2>2, <2>3
  <2>4. CASE j \in 1 .. m BY <1>2, <1>4, <2>1, <2>4 DEF Enumerates
  <2> QED BY <1>5, <2>3, <2>4
<1>7. \A j \in 1 .. m + 1 : /\ MountedFor(prefix, text[g[j]])
                            /\ t[j].name = NameIn(text[g[j]])
                            /\ t[j].value = ValueIn(text[g[j]]).text
  <2> TAKE j \in 1 .. m + 1
  <2>1. CASE j = m + 1 BY <1>3, <1>4, <2>1
  <2>2. CASE j \in 1 .. m BY <1>2, <1>3, <1>4, <2>2 DEF Enumerates
  <2> QED BY <1>5, <2>1, <2>2
<1>8. \A k \in 1 .. n + 1 : MountedFor(prefix, text[k]) => \E j \in 1 .. m + 1 : g[j] = k
  <2> SUFFICES ASSUME NEW k \in 1 .. n + 1, MountedFor(prefix, text[k])
               PROVE \E j \in 1 .. m + 1 : g[j] = k
    OBVIOUS
  <2>1. m + 1 \in 1 .. m + 1 BY <1>3
  <2>2. CASE k = n + 1 BY <1>4, <2>1, <2>2
  <2>3. CASE k \in 1 .. n
    <3>1. PICK j \in 1 .. m : f[j] = k BY <1>2, <2>3 DEF Enumerates
    <3> QED BY <1>3, <1>4, <3>1
  <2> QED BY <1>1, <2>2, <2>3
<1>9. Enumerates(g, text, prefix, t, n + 1) BY <1>3, <1>4, <1>6, <1>7, <1>8 DEF Enumerates
<1>10. \A k \in 1 .. n + 1 : Takes(prefix, text[k]) BY <1>1 DEF LinesRead
<1>11. LinesRead(text, prefix, t, n + 1) BY <1>9, <1>10 DEF LinesRead
<1> QED BY <1>11 DEF t

\* A pair that cannot be an entry is a line that is refused.
LEMMA PairIsLine ==
  ASSUME NEW text, NEW prefix, NEW ps, LinesRead(text, prefix, ps, Len(text)),
         NEW j \in 1 .. Len(ps),
         ~WellFormed(PathIn(prefix, ps[j].name))
           \/ ~(Len(PathIn(prefix, ps[j].name)) <= MaxPathSegments)
  PROVE  Rejects(prefix, text)
<1>1. PICK f : Enumerates(f, text, prefix, ps, Len(text)) BY DEF LinesRead
<1>2. /\ f[j] \in 1 .. Len(text) /\ MountedFor(prefix, text[f[j]])
      /\ ps[j].name = NameIn(text[f[j]])
  BY <1>1 DEF Enumerates
<1>3. ~Accepts(prefix, text[f[j]]) BY <1>2 DEF Accepts
<1> QED BY <1>2, <1>3 DEF Rejects

\* When all pairs are well-formed entries, no line is refused.
LEMMA AllAccepted ==
  ASSUME NEW text, NEW prefix, NEW ps, NEW es, LinesRead(text, prefix, ps, Len(text)),
         PairsMounted(prefix, ps, es, Len(ps)), Formed(es, Len(es))
  PROVE  ~Rejects(prefix, text)
<1>1. PICK f : Enumerates(f, text, prefix, ps, Len(text)) BY DEF LinesRead
<1> SUFFICES ASSUME NEW k \in 1 .. Len(text) PROVE Valid(text[k]) /\ Accepts(prefix, text[k])
  BY DEF Rejects
<1>2. Valid(text[k]) /\ Takes(prefix, text[k]) BY DEF LinesRead, Valids
<1>3. ASSUME MountedFor(prefix, text[k])
      PROVE  /\ WellFormed(PathIn(prefix, NameIn(text[k])))
             /\ Len(PathIn(prefix, NameIn(text[k]))) <= MaxPathSegments
  <2>1. PICK j \in 1 .. Len(ps) : f[j] = k BY <1>1, <1>3 DEF Enumerates
  <2>2. ps[j].name = NameIn(text[k]) BY <1>1, <2>1 DEF Enumerates
  <2>3. /\ es[j].path = PathIn(prefix, ps[j].name) /\ Len(es[j].path) <= MaxPathSegments
        /\ Len(es) = Len(ps)
    BY DEF PairsMounted
  <2>4. WellFormed(es[j].path) BY <2>3 DEF Formed
  <2> QED BY <2>2, <2>3, <2>4
<1> QED BY <1>2, <1>3 DEF Accepts

\* Where an adapter that was given a file can be.
FileInv ==
  /\ next \in Nat \ {0} /\ IsSeq(pairs)
  /\ pc = "collect" => stage \in {"start", "lines", "mount"}
  /\ pc = "collect" /\ stage = "start" => next = 1 /\ pairs = <<>> /\ entries = <<>>
  /\ pc = "collect" /\ stage = "lines" =>
       /\ entries = <<>> /\ next <= Len(input.text) + 1
       /\ LinesRead(input.text, input.prefix, pairs, next - 1)
  /\ pc = "collect" /\ stage = "mount" =>
       /\ LinesRead(input.text, input.prefix, pairs, Len(input.text))
       /\ next <= Len(pairs) + 1
       /\ PairsMounted(input.prefix, pairs, entries, next - 1)
  /\ pc \in {"scan", "insert", "done"} =>
       /\ LinesRead(input.text, input.prefix, pairs, Len(input.text))
       /\ PairsMounted(input.prefix, pairs, entries, Len(pairs))
  /\ pc = "scan" => at <= Len(entries) + 1 /\ Formed(entries, at - 1)
  /\ pc \in {"insert", "done"} => Formed(entries, Len(entries))
  /\ pc = "failed" => Rejects(input.prefix, input.text)

FromInputs == input \in Inputs /\ (input.origin = "file" => FileInv)

LEMMA FileInvInit == Init => FromInputs
<1> SUFFICES ASSUME Init, input.origin = "file" PROVE FileInv BY DEF Init, FromInputs
<1> USE DEF Init, MapInit
<1>1. IsSeq(pairs)
  <2>1. pairs = <<>> OBVIOUS
  <2> QED BY <2>1 DEF IsSeq
<1> QED BY <1>1 DEF FileInv

\* The line that is read next.
LEMMA TextOfLine ==
  ASSUME input \in Inputs, FileInv, ReadsLine
  PROVE  /\ Len(input.text) \in Nat /\ next \in 1 .. Len(input.text) /\ next - 1 \in Nat
         /\ pc = "collect" /\ stage = "lines" /\ entries = <<>> /\ IsSeq(pairs)
         /\ Line = input.text[(next - 1) + 1]
         /\ LinesRead(input.text, input.prefix, pairs, next - 1)
<1>1. Len(input.text) \in Nat BY InputsAssumption
<1>2. next \in Nat \ {0} BY DEF FileInv
<1>3. (next - 1) + 1 = next BY <1>2
<1> QED BY <1>1, <1>2, <1>3 DEF ReadsLine, At, FileInv, Line

LEMMA LineRefused ==
  ASSUME input \in Inputs, FileInv, RefuseLine \/ RefuseName \/ RefuseValue
  PROVE  FileInv'
<1>1. ReadsLine /\ pc' = "failed" /\ UNCHANGED envVars
  BY DEF RefuseLine, RefuseName, RefuseValue, Refuse, Fail
<1>2. next \in 1 .. Len(input.text) /\ Line = input.text[next] BY <1>1, TextOfLine
<1>3. ~Accepts(input.prefix, Line)
  BY DEF RefuseLine, RefuseName, RefuseValue, Accepts, Takes, MountedFor, IsMounted, IsPair
<1>4. Rejects(input.prefix, input.text) BY <1>2, <1>3 DEF Rejects
<1> QED BY <1>1, <1>4 DEF FileInv, envVars

LEMMA LineIgnored ==
  ASSUME input \in Inputs, FileInv, Ignore
  PROVE  FileInv'
<1>1. ReadsLine /\ next' = next + 1 /\ UNCHANGED <<pc, entries, input, stage, pairs>>
  BY DEF Ignore, PassOver, mapVars
<1> DEFINE n == next - 1
<1>2. /\ Len(input.text) \in Nat /\ next \in 1 .. Len(input.text) /\ n \in Nat
      /\ pc = "collect" /\ stage = "lines" /\ entries = <<>>
      /\ Line = input.text[n + 1] /\ LinesRead(input.text, input.prefix, pairs, n)
  BY <1>1, TextOfLine
<1>3. Takes(input.prefix, Line) /\ ~MountedFor(input.prefix, Line)
  BY DEF Ignore, Takes, MountedFor, IsMounted, IsPair
<1>4. n + 1 = next /\ next' - 1 = next BY <1>1, <1>2
<1> HIDE DEF n
<1>5. LinesRead(input.text, input.prefix, pairs, n + 1) BY <1>2, <1>3, OneMoreIgnored
<1>6. LinesRead(input'.text, input'.prefix, pairs', next' - 1) BY <1>1, <1>4, <1>5
<1> QED BY <1>1, <1>2, <1>6 DEF FileInv

LEMMA LineCollected ==
  ASSUME input \in Inputs, FileInv, ReadLine
  PROVE  FileInv'
<1> DEFINE n == next - 1
           e == [name |-> NameIn(Line), value |-> ValueIn(Line).text]
<1>1. /\ ReadsLine /\ next' = next + 1 /\ pairs' = Append(pairs, e)
      /\ UNCHANGED <<pc, entries, input, stage>>
  BY DEF ReadLine, TakePair, mapVars
<1>2. /\ Len(input.text) \in Nat /\ next \in 1 .. Len(input.text) /\ n \in Nat
      /\ pc = "collect" /\ stage = "lines" /\ entries = <<>> /\ IsSeq(pairs)
      /\ Line = input.text[n + 1] /\ LinesRead(input.text, input.prefix, pairs, n)
  BY <1>1, TextOfLine
<1>3. Takes(input.prefix, Line) /\ MountedFor(input.prefix, Line)
  BY DEF ReadLine, Takes, MountedFor, IsMounted
<1>4. n + 1 = next /\ next' - 1 = next BY <1>1, <1>2
<1>5. e.name = NameIn(Line) /\ e.value = ValueIn(Line).text OBVIOUS
<1> HIDE DEF n, e
<1>6. LinesRead(input.text, input.prefix, Append(pairs, e), n + 1)
  BY <1>2, <1>3, <1>5, OneMoreTaken
<1>7. LinesRead(input'.text, input'.prefix, pairs', next' - 1) BY <1>1, <1>4, <1>6
<1>8. IsSeq(pairs') BY <1>1, <1>2, Appended
<1> QED BY <1>1, <1>2, <1>7, <1>8 DEF FileInv

\* Before the first line and after the last.
LEMMA FileOpened ==
  ASSUME input \in Inputs, input.origin = "file", FileInv,
         Load \/ LoadWithoutPrefix \/ Parse \/ ParseInvalid \/ InputEnds
  PROVE  FileInv'
<1>1. Len(input.text) \in Nat BY InputsAssumption
<1>2. CASE Parse
  <2>1. /\ next' = 1 /\ stage' = "lines" /\ pairs = <<>> /\ entries = <<>> /\ pc = "collect"
        /\ UNCHANGED <<pc, entries, input, pairs>>
    BY <1>2 DEF Parse, At, GoOn, mapVars, FileInv
  <2>2. LinesRead(input.text, input.prefix, pairs, 0)
    <3>1. Enumerates([j \in {} |-> 0], input.text, input.prefix, pairs, 0)
      <4>1. Len(pairs) = 0 BY <2>1
      <4>2. [j \in {} |-> 0] \in [1 .. 0 -> 1 .. 0] OBVIOUS
      <4>3. 1 .. 0 = {} OBVIOUS
      <4> QED BY <4>1, <4>2, <4>3 DEF Enumerates
    <3>2. Valids(input.text) BY <1>2 DEF Parse, Valids
    <3> QED BY <3>1, <3>2 DEF LinesRead
  <2>3. LinesRead(input'.text, input'.prefix, pairs', next' - 1)
    <3>1. next' - 1 = 0 BY <2>1
    <3> QED BY <2>1, <2>2, <3>1
  <2> QED BY <1>1, <2>1, <2>3 DEF FileInv
<1>3. CASE ParseInvalid
  <2>1. pc' = "failed" /\ UNCHANGED envVars BY <1>3 DEF ParseInvalid, Refuse, Fail
  <2>2. Rejects(input.prefix, input.text) BY <1>3 DEF ParseInvalid, Rejects
  <2> QED BY <2>1, <2>2 DEF FileInv, envVars
<1>4. CASE InputEnds
  <2>1. /\ next' = 1 /\ stage' = "mount" /\ pc = "collect" /\ stage = "lines"
        /\ UNCHANGED <<pc, entries, input, pairs>> /\ next > Len(input.text)
    BY <1>4 DEF InputEnds, At, GoOn, mapVars, FileInv
  <2>2. /\ next \in Nat /\ next <= Len(input.text) + 1 /\ entries = <<>> /\ IsSeq(pairs)
        /\ LinesRead(input.text, input.prefix, pairs, next - 1)
    BY <2>1 DEF FileInv
  <2>3. next - 1 = Len(input.text) BY <1>1, <2>1, <2>2
  <2>4. LinesRead(input'.text, input'.prefix, pairs', Len(input'.text)) BY <2>1, <2>2, <2>3
  <2>5. PairsMounted(input'.prefix, pairs', entries', next' - 1)
    <3>1. entries' = <<>> /\ next' - 1 = 0 BY <2>1, <2>2
    <3>2. Len(<<>>) = 0 /\ 1 .. 0 = {} OBVIOUS
    <3> QED BY <3>1, <3>2 DEF PairsMounted
  <2>6. Len(pairs') \in Nat BY <2>1, <2>2 DEF IsSeq
  <2> QED BY <2>1, <2>2, <2>4, <2>5, <2>6 DEF FileInv
<1> QED BY <1>2, <1>3, <1>4 DEF Load, LoadWithoutPrefix

\* The pair that is mounted next, and where it is mounted.
LEMMA PairToMount ==
  ASSUME FileInv, Mounts
  PROVE  /\ Len(pairs) \in Nat /\ next \in 1 .. Len(pairs) /\ next - 1 \in Nat
         /\ pc = "collect" /\ stage = "mount"
         /\ toPath[Rest] = PathIn(input.prefix, pairs[next].name)
         /\ LinesRead(input.text, input.prefix, pairs, Len(input.text))
         /\ PairsMounted(input.prefix, pairs, entries, next - 1)
<1>1. next \in Nat \ {0} BY DEF FileInv
<1>2. Len(pairs) \in Nat BY DEF FileInv, IsSeq
<1> QED BY <1>1, <1>2 DEF Mounts, At, FileInv, Rest, PathIn

LEMMA PairMounted ==
  ASSUME input.origin = "file", FileInv, Sequential,
         NotSelected \/ Undecodable \/ TooDeep \/ Collision \/ MountPair
  PROVE  FileInv'
<1>1. Mounts BY DEF NotSelected, Undecodable, TooDeep, Collision, MountPair
<1> DEFINE n == next - 1
<1>2. /\ Len(pairs) \in Nat /\ next \in 1 .. Len(pairs) /\ n \in Nat
      /\ pc = "collect" /\ stage = "mount"
      /\ toPath[Rest] = PathIn(input.prefix, pairs[next].name)
      /\ LinesRead(input.text, input.prefix, pairs, Len(input.text))
      /\ PairsMounted(input.prefix, pairs, entries, n)
  BY <1>1, PairToMount
<1>3. Selected
  <2>1. PICK f : Enumerates(f, input.text, input.prefix, pairs, Len(input.text))
    BY <1>2 DEF LinesRead
  <2>2. MountedFor(input.prefix, input.text[f[next]])
          /\ pairs[next].name = NameIn(input.text[f[next]])
    BY <1>2, <2>1 DEF Enumerates
  <2> QED BY <2>2 DEF Selected, MountedFor
<1>4. Decodes /\ ~Taken(toPath[Rest]) BY DEF Decodes, Taken
<1>5. CASE TooDeep
  <2>1. pc' = "failed" /\ UNCHANGED envVars BY <1>5 DEF TooDeep, RefusePair, Refuse, Fail
  <2>2. ~(Len(PathIn(input.prefix, pairs[next].name)) <= MaxPathSegments)
    BY <1>2, <1>5 DEF TooDeep, Fits
  <2>3. Rejects(input.prefix, input.text) BY <1>2, <2>2, PairIsLine
  <2> QED BY <2>1, <2>3 DEF FileInv, envVars
<1>6. CASE MountPair
  <2> DEFINE e == [path |-> toPath[Rest], value |-> pairs[next].value,
                   source |-> pairs[next].name]
  <2>1. /\ entries' = Append(entries, e) /\ next' = next + 1
        /\ UNCHANGED <<pc, input, stage, pairs>>
    BY <1>6 DEF MountPair, Mount
  <2>2. IsSeq(entries) BY DEF Sequential, IsSeq
  <2>3. /\ Len(Append(entries, e)) = n + 1 /\ Len(entries) = n
        /\ \A k \in 1 .. n : Append(entries, e)[k] = entries[k]
        /\ Append(entries, e)[n + 1] = e
    BY <1>2, <2>2, Appended DEF PairsMounted
  <2>4. n + 1 = next /\ next' - 1 = next BY <1>2, <2>1
  <2>5. Len(toPath[Rest]) <= MaxPathSegments BY <1>6 DEF MountPair, Fits
  <2>6. PairsMounted(input.prefix, pairs, Append(entries, e), n + 1)
    <3>1. \A j \in 1 .. n + 1 : j \in 1 .. n \/ j = n + 1 BY <1>2
    <3>2. /\ e.path = PathIn(input.prefix, pairs[n + 1].name)
          /\ e.value = pairs[n + 1].value /\ Len(e.path) <= MaxPathSegments
      BY <1>2, <2>4, <2>5
    <3> HIDE DEF e, n
    <3> QED BY <1>2, <2>3, <3>1, <3>2 DEF PairsMounted
  <2> HIDE DEF e, n
  <2>7. PairsMounted(input'.prefix, pairs', entries', next' - 1) BY <2>1, <2>4, <2>6
  <2>8. LinesRead(input'.text, input'.prefix, pairs', Len(input'.text)) BY <1>2, <2>1
  <2>9. IsSeq(pairs') BY <2>1 DEF FileInv
  <2> QED BY <1>2, <2>1, <2>7, <2>8, <2>9 DEF FileInv
<1> QED BY <1>3, <1>4, <1>5, <1>6 DEF NotSelected, Undecodable, Collision

LEMMA BuildCalled ==
  ASSUME FileInv, MapInv, CallBuild
  PROVE  FileInv'
<1>1. /\ pc = "collect" /\ stage = "mount" /\ next > Len(pairs) /\ pc' = "scan"
      /\ UNCHANGED <<at, entries, input, next, pairs>>
  BY DEF CallBuild, At, Call
<1>2. /\ next \in Nat /\ Len(pairs) \in Nat /\ next <= Len(pairs) + 1
      /\ LinesRead(input.text, input.prefix, pairs, Len(input.text))
      /\ PairsMounted(input.prefix, pairs, entries, next - 1)
  BY <1>1 DEF FileInv, IsSeq
<1>3. next - 1 = Len(pairs) BY <1>1, <1>2
<1>4. PairsMounted(input'.prefix, pairs', entries', Len(pairs')) BY <1>1, <1>2, <1>3
<1>5. LinesRead(input'.text, input'.prefix, pairs', Len(input'.text)) BY <1>1, <1>2
<1>6. at' <= Len(entries') + 1 /\ Formed(entries', at' - 1)
  <2>1. at' = 1 /\ at' - 1 = 0 /\ Len(entries') \in Nat /\ 1 .. 0 = {}
    BY <1>1 DEF MapInv, Sequential, Scanning
  <2> QED BY <2>1 DEF Formed
<1> QED BY <1>1, <1>4, <1>5, <1>6 DEF FileInv

LEMMA BuildStep ==
  ASSUME FileInv, MapInv, Build, UNCHANGED envVars
  PROVE  FileInv'
<1>1. UNCHANGED <<entries, input, next, pairs, stage>>
  BY DEF envVars, Build, Scan, ScanRefuses, ScanEnds, Skip, Insert, Clash, InsertEnds, Fail
<1>2. /\ pc \in {"scan", "insert"} /\ at \in Nat \ {0} /\ Len(entries) \in Nat
      /\ LinesRead(input.text, input.prefix, pairs, Len(input.text))
      /\ PairsMounted(input.prefix, pairs, entries, Len(pairs))
  BY DEF Build, Scan, ScanRefuses, ScanEnds, Skip, Insert, Clash, InsertEnds, FileInv,
         MapInv, Sequential
<1>3. /\ LinesRead(input'.text, input'.prefix, pairs', Len(input'.text))
      /\ PairsMounted(input'.prefix, pairs', entries', Len(pairs'))
      /\ next' \in Nat \ {0} /\ IsSeq(pairs')
  BY <1>1, <1>2 DEF FileInv
<1>4. CASE Scan
  <2>1. /\ pc = "scan" /\ at <= Len(entries) /\ WellFormed(entries[at].path)
        /\ at' = at + 1 /\ pc' = "scan" /\ Formed(entries, at - 1)
    BY <1>4 DEF Scan, FileInv
  <2>2. at' - 1 = at /\ at' <= Len(entries) + 1 BY <1>2, <2>1
  <2>3. Formed(entries, at)
    <3>1. \A k \in 1 .. at : k \in 1 .. at - 1 \/ k = at BY <1>2
    <3> QED BY <2>1, <3>1 DEF Formed
  <2>4. at' <= Len(entries') + 1 /\ Formed(entries', at' - 1) BY <1>1, <2>2, <2>3
  <2> QED BY <1>3, <2>1, <2>4 DEF FileInv
<1>5. CASE ScanRefuses
  <2>1. /\ pc' = "failed" /\ at <= Len(entries) /\ ~WellFormed(entries[at].path)
    BY <1>5 DEF ScanRefuses, Fail
  <2>2. at \in 1 .. Len(pairs) /\ entries[at].path = PathIn(input.prefix, pairs[at].name)
    <3>1. Len(entries) = Len(pairs) BY <1>2 DEF PairsMounted
    <3>2. at \in 1 .. Len(pairs) BY <1>2, <2>1, <3>1
    <3> QED BY <1>2, <3>2 DEF PairsMounted
  <2>3. Rejects(input.prefix, input.text) BY <1>2, <2>1, <2>2, PairIsLine
  <2>4. Rejects(input'.prefix, input'.text) BY <1>1, <2>3
  <2> QED BY <1>3, <2>1, <2>4 DEF FileInv
<1>6. CASE ScanEnds
  <2>1. /\ pc = "scan" /\ at > Len(entries) /\ pc' = "insert"
        /\ Formed(entries, at - 1) /\ at <= Len(entries) + 1
    BY <1>6 DEF ScanEnds, FileInv
  <2>2. at - 1 = Len(entries) BY <1>2, <2>1
  <2>3. Formed(entries', Len(entries')) BY <1>1, <2>1, <2>2
  <2> QED BY <1>3, <2>1, <2>3 DEF FileInv
<1>7. CASE Skip \/ Insert \/ InsertEnds
  <2>1. pc = "insert" /\ pc' \in {"insert", "done"} BY <1>7 DEF Skip, Insert, InsertEnds
  <2>2. Formed(entries', Len(entries')) BY <1>1, <2>1 DEF FileInv
  <2> QED BY <1>3, <2>1, <2>2 DEF FileInv
<1>8. ~Clash BY ClashImpossible
<1> QED BY <1>4, <1>5, <1>6, <1>7, <1>8 DEF Build

LEMMA FromInputsNext == FromInputs /\ MapInv /\ [Next]_vars => FromInputs'
<1> SUFFICES ASSUME FromInputs, MapInv, [Next]_vars PROVE FromInputs' OBVIOUS
<1>1. input' = input
  BY DEF Next, Read, Load, LoadWithoutPrefix, Parse, ParseInvalid, NoVariable, ReadVariable,
         TakePair, Ignore, RefuseLine,
         RefuseName, RefuseValue, ReadLine, InputEnds, NotSelected, Undecodable, TooDeep,
         Collision, MountPair, CallBuild, Refuse, RefusePair, GoOn, PassOver, Mount, vars, envVars
<1> SUFFICES ASSUME input.origin = "file" PROVE FileInv' BY <1>1 DEF FromInputs
<1>2. input \in Inputs /\ FileInv BY DEF FromInputs
<1>3. Sequential BY DEF MapInv
<1>7. ~NoVariable /\ ~ReadVariable
  BY <1>2 DEF NoVariable, ReadVariable, ReadsVariable, At, FileInv
<1>4. CASE Read
  BY <1>2, <1>3, <1>4, <1>7, FileOpened, LineIgnored, LineRefused, LineCollected, PairMounted,
     BuildCalled DEF Read
<1>5. CASE Build /\ UNCHANGED envVars BY <1>2, <1>5, BuildStep
<1>6. CASE UNCHANGED vars
  <2>1. UNCHANGED <<pc, at, entries, input, next, pairs, stage>>
    BY <1>6 DEF vars, mapVars, envVars
  <2> QED BY <1>2, <2>1 DEF FileInv
<1> QED BY <1>4, <1>5, <1>6 DEF Next

LEMMA FromInputsAlways == Spec => []FromInputs
<1>1. Spec => []MapInv
  <2>1. Spec => MapSpec BY AdapterCallsBuild DEF BuildsPathMap
  <2> QED BY <2>1, MapInvariant, PTL
<1> QED BY <1>1, FileInvInit, FromInputsNext, PTL DEF Spec

\* A .env file fails only for a line that is no NAME=value at all, or for one
\* with the prefix: the names and values of another tool's namespace are never
\* looked at (rule F1.7), in a file of any length and for any limit.
THEOREM FilesFailForTheirOwnLines == Spec => []OnlyMountedLinesFail
<1>1. ASSUME FromInputs PROVE OnlyMountedLinesFail
  <2> SUFFICES ASSUME Ended, input.origin = "file"
               PROVE (pc = "done" <=> \A k \in 1 .. Len(input.text) :
                                        Valid(input.text[k]) /\ Readable(input.text[k]))
    BY DEF OnlyMountedLinesFail
  <2>1. FileInv BY <1>1 DEF FromInputs
  <2>2. ASSUME NEW raw PROVE Readable(raw) <=> Accepts(input.prefix, raw)
    BY DEF Readable, Accepts, Takes, MountedFor, PathIn, IsPair
  <2>3. Rejects(input.prefix, input.text)
          <=> \E k \in 1 .. Len(input.text) : ~(Valid(input.text[k]) /\ Readable(input.text[k]))
    BY <2>2 DEF Rejects
  <2>4. CASE pc = "done"
    <3>1. ~Rejects(input.prefix, input.text) BY <2>1, <2>4, AllAccepted DEF FileInv
    <3> QED BY <2>3, <2>4, <3>1
  <2>5. CASE pc = "failed"
    <3>1. Rejects(input.prefix, input.text) BY <2>1, <2>5 DEF FileInv
    <3> QED BY <2>3, <2>5, <3>1
  <2> QED BY <2>4, <2>5 DEF Ended
<1> QED BY <1>1, FromInputsAlways, PTL

----------------------------------------------------------------------------
(* What the environment becomes.                                           *)

\* f lists, in their order, the members of S among the first places.
Picks(f, n, last, S) ==
  /\ f \in [1 .. n -> 1 .. last]
  /\ \A i, j \in 1 .. n : i < j => f[i] < f[j]
  /\ \A j \in 1 .. n : f[j] \in S
  /\ \A k \in 1 .. last : k \in S => \E j \in 1 .. n : f[j] = k

PicksOneMore(g, f, n, last, S) ==
  /\ Picks(g, n + 1, last + 1, S)
  /\ g[n + 1] = last + 1 /\ \A j \in 1 .. n : g[j] = f[j]

LEMMA PicksNone ==
  ASSUME NEW S
  PROVE  \E f : Picks(f, 0, 0, S)
<1> DEFINE f == [j \in {} |-> 0]
<1>1. 1 .. 0 = {} /\ f \in [{} -> {}] OBVIOUS
<1> HIDE DEF f
<1>2. Picks(f, 0, 0, S) BY <1>1 DEF Picks
<1> QED BY <1>2

LEMMA PicksSkip ==
  ASSUME NEW f, NEW n \in Nat, NEW last \in Nat, NEW S, Picks(f, n, last, S), last + 1 \notin S
  PROVE  Picks(f, n, last + 1, S)
<1>1. f \in [1 .. n -> 1 .. last + 1] BY DEF Picks
<1>2. \A k \in 1 .. last + 1 : k \in 1 .. last \/ k = last + 1 OBVIOUS
<1> QED BY <1>1, <1>2 DEF Picks

LEMMA PicksTake ==
  ASSUME NEW f, NEW n \in Nat, NEW last \in Nat, NEW S, Picks(f, n, last, S), last + 1 \in S
  PROVE  \E g : PicksOneMore(g, f, n, last, S)
<1> DEFINE g == [j \in 1 .. n + 1 |-> IF j = n + 1 THEN last + 1 ELSE f[j]]
<1>1. f \in [1 .. n -> 1 .. last] BY DEF Picks
<1>2. g[n + 1] = last + 1 /\ \A j \in 1 .. n : g[j] = f[j] /\ f[j] \in 1 .. last BY <1>1
<1>3. \A k \in 1 .. last + 1 : k \in 1 .. last \/ k = last + 1 OBVIOUS
<1>4. \A j \in 1 .. n + 1 : j \in 1 .. n \/ j = n + 1 OBVIOUS
<1>5. g \in [1 .. n + 1 -> 1 .. last + 1] BY <1>1
<1> HIDE DEF g
<1>6. ASSUME NEW i \in 1 .. n + 1, NEW j \in 1 .. n + 1, i < j PROVE g[i] < g[j]
  <2>1. i \in 1 .. n BY <1>6
  <2>2. CASE j = n + 1 BY <1>2, <2>1, <2>2
  <2>3. CASE j \in 1 .. n BY <1>2, <1>6, <2>1, <2>3 DEF Picks
  <2> QED BY <1>4, <2>2, <2>3
<1>7. \A j \in 1 .. n + 1 : g[j] \in S BY <1>2, <1>4 DEF Picks
<1>8. ASSUME NEW k \in 1 .. last + 1, k \in S PROVE \E j \in 1 .. n + 1 : g[j] = k
  <2>1. CASE k = last + 1 BY <1>2, <2>1
  <2>2. CASE k \in 1 .. last
    <3>1. PICK j \in 1 .. n : f[j] = k BY <1>8, <2>2 DEF Picks
    <3>2. j \in 1 .. n + 1 OBVIOUS
    <3> QED BY <1>2, <3>1, <3>2
  <2> QED BY <1>3, <2>1, <2>2
<1>9. PicksOneMore(g, f, n, last, S) BY <1>2, <1>5, <1>6, <1>7, <1>8 DEF PicksOneMore, Picks
<1> QED BY <1>9

\* The order of the picks is that of their places.
LEMMA PicksOrder ==
  ASSUME NEW f, NEW n \in Nat, NEW last \in Nat, NEW S, Picks(f, n, last, S)
  PROVE  \A i, j \in 1 .. n : i < j <=> f[i] < f[j]
<1> TAKE i, j \in 1 .. n
<1>1. f[i] \in 1 .. last /\ f[j] \in 1 .. last BY DEF Picks
<1>2. i < j => f[i] < f[j] BY DEF Picks
<1>3. j < i => f[j] < f[i] BY DEF Picks
<1>4. i \in Nat /\ j \in Nat /\ f[i] \in Nat /\ f[j] \in Nat BY <1>1
<1>5. i = j => f[i] = f[j] OBVIOUS
<1> QED BY <1>2, <1>3, <1>4, <1>5

----------------------------------------------------------------------------
NameAt(text, i) == Cut(sorted(text)[i]).name
ValueAt(text, i) == Cut(sorted(text)[i]).value
WithSign(text) == {i \in Nat : Contains(sorted(text)[i], "=")}
WantedAt(text, prefix) == {i \in WithSign(text) : HasPrefix(NameAt(text, i), prefix)}
Chosen(prefix, ps) == {j \in Nat : HasPrefix(ps[j].name, prefix)}

\* f leads from a pair to the place of its variable.
Cuts(f, text, ps, last) ==
  /\ Picks(f, Len(ps), last, WithSign(text))
  /\ \A j \in 1 .. Len(ps) : ps[j].name = NameAt(text, f[j]) /\ ps[j].value = ValueAt(text, f[j])
VariablesRead(text, ps, last) == \E f : Cuts(f, text, ps, last)

IsEntry(e, prefix, name, value) ==
  /\ e.path = PathIn(prefix, name) /\ e.value = value /\ e.source = name
  /\ Valid(name) /\ Valid(value) /\ Len(e.path) <= MaxPathSegments

\* g leads from an entry to its pair.
Entered(g, prefix, ps, es, last) ==
  /\ Picks(g, Len(es), last, Chosen(prefix, ps))
  /\ \A m \in 1 .. Len(es) : IsEntry(es[m], prefix, ps[g[m]].name, ps[g[m]].value)
PairsEntered(prefix, ps, es, last) == \E g : Entered(g, prefix, ps, es, last)

Keys(es) == {pathKey[es[m].path] : m \in 1 .. Len(es)}
KeysOnce(es) ==
  \A m, n \in 1 .. Len(es) : pathKey[es[m].path] = pathKey[es[n].path] => m = n

LEMMA VariableSkipped ==
  ASSUME NEW text, NEW ps, IsSeq(ps), NEW n \in Nat, VariablesRead(text, ps, n),
         ~Contains(sorted(text)[n + 1], "=")
  PROVE  VariablesRead(text, ps, n + 1)
<1>1. PICK f : Cuts(f, text, ps, n) BY DEF VariablesRead
<1>2. Len(ps) \in Nat BY DEF IsSeq
<1>3. n + 1 \notin WithSign(text) BY DEF WithSign
<1>4. Picks(f, Len(ps), n + 1, WithSign(text)) BY <1>1, <1>2, <1>3, PicksSkip DEF Cuts
<1>5. Cuts(f, text, ps, n + 1) BY <1>1, <1>4 DEF Cuts
<1> QED BY <1>5 DEF VariablesRead

LEMMA VariableTaken ==
  ASSUME NEW text, NEW ps, IsSeq(ps), NEW n \in Nat, VariablesRead(text, ps, n),
         Contains(sorted(text)[n + 1], "="),
         NEW e, e.name = NameAt(text, n + 1), e.value = ValueAt(text, n + 1)
  PROVE  VariablesRead(text, Append(ps, e), n + 1)
<1> DEFINE t == Append(ps, e)
           m == Len(ps)
<1>1. PICK f : Cuts(f, text, ps, n) BY DEF VariablesRead
<1>2. /\ m \in Nat /\ Len(t) = m + 1 /\ t[m + 1] = e
      /\ \A k \in 1 .. m : t[k] = ps[k]
  BY Appended
<1> HIDE DEF t
<1>3. n + 1 \in WithSign(text) BY DEF WithSign
<1>4. PICK g : PicksOneMore(g, f, m, n, WithSign(text)) BY <1>1, <1>2, <1>3, PicksTake DEF Cuts
<1>5. Picks(g, Len(t), n + 1, WithSign(text)) BY <1>2, <1>4 DEF PicksOneMore
<1>6. ASSUME NEW j \in 1 .. Len(t)
      PROVE  t[j].name = NameAt(text, g[j]) /\ t[j].value = ValueAt(text, g[j])
  <2>1. j \in 1 .. m \/ j = m + 1 BY <1>2
  <2>2. CASE j = m + 1 BY <1>2, <1>4, <2>2 DEF PicksOneMore
  <2>3. CASE j \in 1 .. m BY <1>1, <1>2, <1>4, <2>3 DEF PicksOneMore, Cuts
  <2> QED BY <2>1, <2>2, <2>3
<1>7. Cuts(g, text, t, n + 1) BY <1>5, <1>6 DEF Cuts
<1>8. VariablesRead(text, t, n + 1) BY <1>7 DEF VariablesRead
<1> QED BY <1>8 DEF t

LEMMA PairSkipped ==
  ASSUME NEW prefix, NEW ps, NEW es, IsSeq(es), NEW n \in Nat, PairsEntered(prefix, ps, es, n),
         ~HasPrefix(ps[n + 1].name, prefix)
  PROVE  PairsEntered(prefix, ps, es, n + 1)
<1>1. PICK g : Entered(g, prefix, ps, es, n) BY DEF PairsEntered
<1>2. Len(es) \in Nat BY DEF IsSeq
<1>3. n + 1 \notin Chosen(prefix, ps) BY DEF Chosen
<1>4. Picks(g, Len(es), n + 1, Chosen(prefix, ps)) BY <1>1, <1>2, <1>3, PicksSkip DEF Entered
<1>5. Entered(g, prefix, ps, es, n + 1) BY <1>1, <1>4 DEF Entered
<1> QED BY <1>5 DEF PairsEntered

LEMMA PairEntered ==
  ASSUME NEW prefix, NEW ps, NEW es, IsSeq(es), NEW n \in Nat, PairsEntered(prefix, ps, es, n),
         HasPrefix(ps[n + 1].name, prefix),
         NEW e, IsEntry(e, prefix, ps[n + 1].name, ps[n + 1].value)
  PROVE  PairsEntered(prefix, ps, Append(es, e), n + 1)
<1> DEFINE t == Append(es, e)
           m == Len(es)
<1>1. PICK f : Entered(f, prefix, ps, es, n) BY DEF PairsEntered
<1>2. /\ m \in Nat /\ Len(t) = m + 1 /\ t[m + 1] = e
      /\ \A k \in 1 .. m : t[k] = es[k]
  BY Appended
<1> HIDE DEF t
<1>3. n + 1 \in Chosen(prefix, ps) BY DEF Chosen
<1>4. PICK g : PicksOneMore(g, f, m, n, Chosen(prefix, ps))
  BY <1>1, <1>2, <1>3, PicksTake DEF Entered
<1>5. Picks(g, Len(t), n + 1, Chosen(prefix, ps)) BY <1>2, <1>4 DEF PicksOneMore
<1>6. ASSUME NEW j \in 1 .. Len(t)
      PROVE  IsEntry(t[j], prefix, ps[g[j]].name, ps[g[j]].value)
  <2>1. j \in 1 .. m \/ j = m + 1 BY <1>2
  <2>2. CASE j = m + 1 BY <1>2, <1>4, <2>2 DEF PicksOneMore
  <2>3. CASE j \in 1 .. m BY <1>1, <1>2, <1>4, <2>3 DEF PicksOneMore, Entered
  <2> QED BY <2>1, <2>2, <2>3
<1>7. Entered(g, prefix, ps, t, n + 1) BY <1>5, <1>6 DEF Entered
<1>8. PairsEntered(prefix, ps, t, n + 1) BY <1>7 DEF PairsEntered
<1> QED BY <1>8 DEF t

LEMMA KeysGrow ==
  ASSUME NEW es, IsSeq(es), KeysOnce(es), NEW e, pathKey[e.path] \notin Keys(es)
  PROVE  KeysOnce(Append(es, e)) /\ Keys(Append(es, e)) = Keys(es) \cup {pathKey[e.path]}
<1> DEFINE t == Append(es, e)
           m == Len(es)
           key(f) == pathKey[f.path]
<1>1. /\ m \in Nat /\ Len(t) = m + 1 /\ t[m + 1] = e
      /\ \A k \in 1 .. m : t[k] = es[k]
  BY Appended
<1>2. \A k \in 1 .. m : key(es[k]) # key(e) BY DEF Keys
<1>3. \A j, k \in 1 .. m : key(es[j]) = key(es[k]) => j = k BY DEF KeysOnce
<1>4. Keys(t) = {key(t[k]) : k \in 1 .. Len(t)} /\ Keys(es) = {key(es[k]) : k \in 1 .. m}
  BY DEF Keys
<1> HIDE DEF t, key
<1>5. \A k \in 1 .. m + 1 : k \in 1 .. m \/ k = m + 1 BY <1>1
<1>6. \A k \in 1 .. m : k \in 1 .. m + 1 BY <1>1
<1>7. m + 1 \in 1 .. m + 1 BY <1>1
<1>8. \A j, k \in 1 .. Len(t) : key(t[j]) = key(t[k]) => j = k
  BY <1>1, <1>2, <1>3, <1>5
<1>9. Keys(t) = Keys(es) \cup {key(e)} BY <1>1, <1>4, <1>5, <1>6, <1>7
<1> QED BY <1>8, <1>9 DEF KeysOnce, key, t

LEMMA SortedType ==
  ASSUME NEW text \in Seq(String), NEW i \in 1 .. Len(text)
  PROVE  sorted(text)[i] \in String
<1> DEFINE o == OrderOf(text)
<1>1. Lists(o, text) /\ sorted(text)[i] = text[o[i]] BY SortedLists
<1>2. o[i] \in 1 .. Len(text) BY <1>1 DEF Lists
<1> HIDE DEF o
<1>3. text[o[i]] \in String
  <2> HIDE DEF String
  <2> QED BY <1>2, ElementOfSeq
<1> QED BY <1>1, <1>3

\* The path of a variable that is mounted.
LEMMA PathAt ==
  ASSUME NEW text \in Seq(String), NEW prefix \in String, NEW i \in 1 .. Len(text),
         i \in WantedAt(text, prefix)
  PROVE  /\ NameAt(text, i) \in String /\ ValueAt(text, i) \in String
         /\ After(NameAt(text, i), Len(prefix)) \in String
         /\ PathIn(prefix, NameAt(text, i)) \in Seq(String) \ {<<>>}
         /\ Len(PathIn(prefix, NameAt(text, i))) \in Nat
         /\ Valid(sorted(text)[i]) <=> Valid(NameAt(text, i)) /\ Valid(ValueAt(text, i))
<1> DEFINE name == NameAt(text, i)
<1>1. sorted(text)[i] \in String BY SortedType
<1>2. Contains(sorted(text)[i], "=") /\ HasPrefix(name, prefix) BY DEF WantedAt, WithSign
<1>3. /\ name \in String /\ ValueAt(text, i) \in String
      /\ Valid(sorted(text)[i]) <=> Valid(name) /\ Valid(ValueAt(text, i))
  BY <1>1, <1>2, CutParts DEF NameAt, ValueAt
<1> HIDE DEF name
<1>4. Len(prefix) \in 0 .. Len(name)
  <2>1. Len(prefix) \in Nat /\ Len(name) \in Nat BY <1>3 DEF String
  <2> QED BY <1>2, <2>1 DEF HasPrefix
<1>5. After(name, Len(prefix)) \in String
  <2> HIDE DEF Characters
  <2> QED BY <1>3, <1>4, Rests DEF String
<1> DEFINE rest == After(name, Len(prefix))
           path == toPath[rest]
<1>6. path \in Seq(String) \ {<<>>}
  <2>1. rest \in Seq(Characters) BY <1>5 DEF String
  <2> HIDE DEF rest
  <2>2. \A s \in Seq(Characters) : toPath[s] \in Seq(Seq(Characters)) \ {<<>>} BY LowerType, ToPathType
  <2> QED BY <2>1, <2>2 DEF String
<1>7. PathIn(prefix, name) = path BY DEF PathIn
<1> HIDE DEF path, rest
<1>8. Len(path) \in Nat BY <1>6
<1> QED BY <1>3, <1>5, <1>6, <1>7, <1>8 DEF name, rest

----------------------------------------------------------------------------
\* Load has to refuse the variable at a place, or finds a path it cannot nest.
SRefused(text, prefix, i) ==
  /\ i \in WantedAt(text, prefix)
  /\ \/ ~Valid(sorted(text)[i])
     \/ ~(Len(PathIn(prefix, NameAt(text, i))) <= MaxPathSegments)
     \/ \E j \in 1 .. i - 1 : /\ j \in WantedAt(text, prefix)
                              /\ PathIn(prefix, NameAt(text, j)) = PathIn(prefix, NameAt(text, i))
SHollow(text, prefix, i) ==
  i \in WantedAt(text, prefix) /\ ~WellFormed(PathIn(prefix, NameAt(text, i)))

Untroubled(text, prefix, last) == \A i \in 1 .. last : ~SRefused(text, prefix, i)
FirstRefused(text, prefix, i) ==
  i \in 1 .. Len(text) /\ SRefused(text, prefix, i) /\ Untroubled(text, prefix, i - 1)
FirstHollow(text, prefix, i) ==
  /\ i \in 1 .. Len(text) /\ Untroubled(text, prefix, Len(text))
  /\ SHollow(text, prefix, i) /\ \A j \in 1 .. i - 1 : ~SHollow(text, prefix, j)
Blamed(text, prefix, name) ==
  \E i \in 1 .. Len(text) : /\ FirstRefused(text, prefix, i) \/ FirstHollow(text, prefix, i)
                            /\ name = NameAt(text, i)

\* The entries are the mounted variables of the first places: h leads from an
\* entry to its place.
EntersFrom(h, text, prefix, es, top) ==
  /\ Picks(h, Len(es), top, WantedAt(text, prefix))
  /\ \A m \in 1 .. Len(es) : IsEntry(es[m], prefix, NameAt(text, h[m]), ValueAt(text, h[m]))
EnteredFrom(text, prefix, es, top) == \E h : EntersFrom(h, text, prefix, es, top)

LEMMA Composed ==
  ASSUME NEW text, NEW prefix, NEW ps, IsSeq(ps), NEW es, IsSeq(es), NEW all \in Nat,
         NEW last \in 0 .. Len(ps), NEW top \in 0 .. all,
         NEW f, Cuts(f, text, ps, all), PairsEntered(prefix, ps, es, last),
         \A j \in 1 .. Len(ps) : j <= last <=> f[j] <= top
  PROVE  EnteredFrom(text, prefix, es, top)
<1>1. PICK g : Entered(g, prefix, ps, es, last) BY DEF PairsEntered
<1>2. Len(ps) \in Nat /\ Len(es) \in Nat BY DEF IsSeq
<1>3. /\ g \in [1 .. Len(es) -> 1 .. last] /\ \A i, j \in 1 .. Len(es) : i < j => g[i] < g[j]
      /\ \A j \in 1 .. Len(es) : g[j] \in Chosen(prefix, ps)
      /\ \A k \in 1 .. last : k \in Chosen(prefix, ps) => \E j \in 1 .. Len(es) : g[j] = k
  BY <1>1 DEF Entered, Picks
<1>4. /\ f \in [1 .. Len(ps) -> 1 .. all] /\ \A i, j \in 1 .. Len(ps) : i < j => f[i] < f[j]
      /\ \A j \in 1 .. Len(ps) : f[j] \in WithSign(text)
      /\ \A k \in 1 .. all : k \in WithSign(text) => \E j \in 1 .. Len(ps) : f[j] = k
      /\ \A j \in 1 .. Len(ps) : ps[j].name = NameAt(text, f[j]) /\ ps[j].value = ValueAt(text, f[j])
  BY DEF Cuts, Picks
<1> DEFINE h == [m \in 1 .. Len(es) |-> f[g[m]]]
<1>5. \A m \in 1 .. Len(es) : /\ g[m] \in 1 .. Len(ps) /\ g[m] <= last
                              /\ h[m] = f[g[m]] /\ f[g[m]] \in 1 .. all
                              /\ f[g[m]] \in 1 .. top
  <2> TAKE m \in 1 .. Len(es)
  <2>1. g[m] \in 1 .. last BY <1>3
  <2>2. g[m] \in 1 .. Len(ps) /\ g[m] <= last BY <1>2, <2>1
  <2>3. f[g[m]] \in 1 .. all /\ f[g[m]] <= top BY <1>4, <2>2
  <2>4. f[g[m]] \in 1 .. top BY <2>3
  <2> QED BY <2>2, <2>3, <2>4
<1>6. h \in [1 .. Len(es) -> 1 .. top] BY <1>5
<1> HIDE DEF h
<1>7. \A i, j \in 1 .. Len(es) : i < j => h[i] < h[j] BY <1>3, <1>4, <1>5
<1>8. \A m \in 1 .. Len(es) : h[m] \in WantedAt(text, prefix)
  <2> TAKE m \in 1 .. Len(es)
  <2>1. g[m] \in Chosen(prefix, ps) BY <1>3
  <2>2. HasPrefix(ps[g[m]].name, prefix) BY <2>1 DEF Chosen
  <2>3. ps[g[m]].name = NameAt(text, h[m]) /\ h[m] \in WithSign(text) BY <1>4, <1>5
  <2>4. HasPrefix(NameAt(text, h[m]), prefix) BY <2>2, <2>3
  <2> QED BY <2>3, <2>4 DEF WantedAt
<1>9. ASSUME NEW k \in 1 .. top, k \in WantedAt(text, prefix)
      PROVE  \E m \in 1 .. Len(es) : h[m] = k
  <2>1. k \in 1 .. all /\ k \in WithSign(text) BY <1>9 DEF WantedAt
  <2>2. PICK j \in 1 .. Len(ps) : f[j] = k BY <1>4, <2>1
  <2>3. j \in 1 .. last BY <1>2, <2>2
  <2>4. j \in Chosen(prefix, ps) BY <1>2, <1>4, <1>9, <2>2 DEF WantedAt, Chosen
  <2>5. PICK m \in 1 .. Len(es) : g[m] = j BY <1>3, <2>3, <2>4
  <2> QED BY <1>5, <2>2, <2>5
<1>10. \A m \in 1 .. Len(es) : IsEntry(es[m], prefix, NameAt(text, h[m]), ValueAt(text, h[m]))
  <2> TAKE m \in 1 .. Len(es)
  <2>1. IsEntry(es[m], prefix, ps[g[m]].name, ps[g[m]].value) BY <1>1 DEF Entered
  <2> QED BY <1>4, <1>5, <2>1
<1>11. EntersFrom(h, text, prefix, es, top) BY <1>6, <1>7, <1>8, <1>9, <1>10 DEF EntersFrom, Picks
<1> QED BY <1>11 DEF EnteredFrom

\* No variable that is an entry had to be refused.
LEMMA NoneRefused ==
  ASSUME NEW text \in Seq(String), NEW prefix \in String, NEW es, IsSeq(es), KeysOnce(es),
         NEW top \in 0 .. Len(text), EnteredFrom(text, prefix, es, top)
  PROVE  Untroubled(text, prefix, top)
<1>1. PICK h : EntersFrom(h, text, prefix, es, top) BY DEF EnteredFrom
<1>2. Len(text) \in Nat OBVIOUS
<1> SUFFICES ASSUME NEW i \in 1 .. top, SRefused(text, prefix, i) PROVE FALSE BY DEF Untroubled
<1>3. i \in WantedAt(text, prefix) /\ i \in 1 .. Len(text) BY <1>2 DEF SRefused
<1>4. PICK m \in 1 .. Len(es) : h[m] = i BY <1>1, <1>3 DEF EntersFrom, Picks
<1>5. IsEntry(es[m], prefix, NameAt(text, i), ValueAt(text, i)) BY <1>1, <1>4 DEF EntersFrom
<1>6. Valid(sorted(text)[i]) BY <1>3, <1>5, PathAt DEF IsEntry
<1>7. PICK j \in 1 .. i - 1 :
        /\ j \in WantedAt(text, prefix)
        /\ PathIn(prefix, NameAt(text, j)) = PathIn(prefix, NameAt(text, i))
  BY <1>5, <1>6 DEF SRefused, IsEntry
<1>8. j \in 1 .. top /\ j # i BY <1>2
<1>9. PICK n \in 1 .. Len(es) : h[n] = j BY <1>1, <1>7, <1>8 DEF EntersFrom, Picks
<1>10. es[n].path = es[m].path BY <1>1, <1>5, <1>7, <1>9 DEF EntersFrom, IsEntry
<1>11. n = m BY <1>10 DEF KeysOnce
<1> QED BY <1>4, <1>8, <1>9, <1>11

\* All places, when all pairs are entered.
LEMMA AllEntered ==
  ASSUME NEW text \in Seq(String), NEW prefix, NEW ps, IsSeq(ps), NEW es, IsSeq(es),
         VariablesRead(text, ps, Len(text)), PairsEntered(prefix, ps, es, Len(ps))
  PROVE  EnteredFrom(text, prefix, es, Len(text))
<1>1. PICK f : Cuts(f, text, ps, Len(text)) BY DEF VariablesRead
<1>2. Len(text) \in Nat /\ Len(ps) \in Nat BY DEF IsSeq
<1>3. Len(text) \in 0 .. Len(text) /\ Len(ps) \in 0 .. Len(ps) BY <1>2
<1>4. \A j \in 1 .. Len(ps) : j <= Len(ps) <=> f[j] <= Len(text)
  <2> TAKE j \in 1 .. Len(ps)
  <2>1. f[j] \in 1 .. Len(text) BY <1>1 DEF Cuts, Picks
  <2> QED BY <1>2, <2>1
<1> QED BY <1>1, <1>2, <1>3, <1>4, Composed

\* The pair Load stops at is the first variable it had to refuse.
LEMMA PairBlamed ==
  ASSUME NEW text \in Seq(String), NEW prefix \in String, NEW ps, IsSeq(ps), NEW es, IsSeq(es),
         KeysOnce(es), VariablesRead(text, ps, Len(text)), NEW n \in 1 .. Len(ps),
         PairsEntered(prefix, ps, es, n - 1), HasPrefix(ps[n].name, prefix),
         \/ ~(Valid(ps[n].name) /\ Valid(ps[n].value))
         \/ ~(Len(PathIn(prefix, ps[n].name)) <= MaxPathSegments)
         \/ pathKey[PathIn(prefix, ps[n].name)] \in Keys(es)
  PROVE  Blamed(text, prefix, ps[n].name)
<1>1. PICK f : Cuts(f, text, ps, Len(text)) BY DEF VariablesRead
<1>2. Len(text) \in Nat /\ Len(ps) \in Nat /\ Len(es) \in Nat BY DEF IsSeq
<1> DEFINE i == f[n]
           top == i - 1
           path == PathIn(prefix, ps[n].name)
<1>3. /\ i \in 1 .. Len(text) /\ i \in WithSign(text)
      /\ ps[n].name = NameAt(text, i) /\ ps[n].value = ValueAt(text, i)
  BY <1>1 DEF Cuts, Picks
<1>4. i \in WantedAt(text, prefix) BY <1>3 DEF WantedAt
<1>5. \A j \in 1 .. Len(ps) : j <= n - 1 <=> f[j] <= top
  <2> TAKE j \in 1 .. Len(ps)
  <2>1. j < n <=> f[j] < f[n] BY <1>1, <1>2, PicksOrder DEF Cuts
  <2>2. f[j] \in 1 .. Len(text) BY <1>1 DEF Cuts, Picks
  <2> QED BY <1>2, <1>3, <2>1, <2>2
<1> HIDE DEF i
<1>6. top \in 0 .. Len(text) /\ n - 1 \in 0 .. Len(ps) BY <1>2, <1>3
<1>7. EnteredFrom(text, prefix, es, top) BY <1>1, <1>2, <1>5, <1>6, Composed
<1>8. Untroubled(text, prefix, top) BY <1>6, <1>7, NoneRefused
<1>9. /\ path \in Seq(String)
      /\ Valid(sorted(text)[i]) <=> Valid(ps[n].name) /\ Valid(ps[n].value)
  BY <1>3, <1>4, PathAt
<1>10. SRefused(text, prefix, i)
  <2>1. CASE ~(Valid(ps[n].name) /\ Valid(ps[n].value)) BY <1>4, <1>9, <2>1 DEF SRefused
  <2>2. CASE ~(Len(path) <= MaxPathSegments) BY <1>3, <1>4, <2>2 DEF SRefused
  <2>3. CASE pathKey[path] \in Keys(es)
    <3>1. PICK m \in 1 .. Len(es) : pathKey[path] = pathKey[es[m].path] BY <2>3 DEF Keys
    <3>2. PICK h : EntersFrom(h, text, prefix, es, top) BY <1>7 DEF EnteredFrom
    <3>3. /\ h[m] \in 1 .. top /\ h[m] \in WantedAt(text, prefix)
          /\ es[m].path = PathIn(prefix, NameAt(text, h[m]))
      BY <3>2 DEF EntersFrom, Picks, IsEntry
    <3>4. h[m] \in 1 .. Len(text) BY <1>2, <1>6, <3>3
    <3>5. es[m].path \in Seq(String) BY <3>3, <3>4, PathAt
    <3>6. path = es[m].path BY <1>9, <3>1, <3>5, PathKeyInjective
    <3> QED BY <1>3, <1>4, <3>3, <3>6 DEF SRefused
  <2> QED BY <2>1, <2>2, <2>3
<1>11. FirstRefused(text, prefix, i) BY <1>3, <1>8, <1>10 DEF FirstRefused
<1> QED BY <1>3, <1>11 DEF Blamed

\* The entry Build stops at is the first that has no path to nest.
LEMMA EntryBlamed ==
  ASSUME NEW text \in Seq(String), NEW prefix \in String, NEW ps, IsSeq(ps), NEW es, IsSeq(es),
         KeysOnce(es), VariablesRead(text, ps, Len(text)), PairsEntered(prefix, ps, es, Len(ps)),
         NEW k \in 1 .. Len(es), Formed(es, k - 1), ~WellFormed(es[k].path)
  PROVE  Blamed(text, prefix, es[k].source)
<1>1. EnteredFrom(text, prefix, es, Len(text)) BY AllEntered
<1>2. PICK h : EntersFrom(h, text, prefix, es, Len(text)) BY <1>1 DEF EnteredFrom
<1>3. Len(text) \in Nat /\ Len(es) \in Nat BY DEF IsSeq
<1>4. Untroubled(text, prefix, Len(text))
  <2>1. Len(text) \in 0 .. Len(text) BY <1>3
  <2> QED BY <1>1, <2>1, NoneRefused
<1>5. \A m \in 1 .. Len(es) :
        /\ h[m] \in 1 .. Len(text) /\ h[m] \in WantedAt(text, prefix)
        /\ es[m].path = PathIn(prefix, NameAt(text, h[m])) /\ es[m].source = NameAt(text, h[m])
  BY <1>2 DEF EntersFrom, Picks, IsEntry
<1>6. SHollow(text, prefix, h[k]) BY <1>5 DEF SHollow
<1>7. ASSUME NEW j \in 1 .. h[k] - 1, SHollow(text, prefix, j) PROVE FALSE
  <2>1. j \in 1 .. Len(text) /\ j < h[k] BY <1>3, <1>5
  <2>2. j \in WantedAt(text, prefix) BY <1>7 DEF SHollow
  <2>3. PICK m \in 1 .. Len(es) : h[m] = j BY <1>2, <2>1, <2>2 DEF EntersFrom, Picks
  <2>4. m < k <=> h[m] < h[k] BY <1>2, <1>3, PicksOrder DEF EntersFrom
  <2>5. m \in 1 .. k - 1 BY <1>3, <2>1, <2>3, <2>4
  <2>6. WellFormed(es[m].path) BY <2>5 DEF Formed
  <2> QED BY <1>5, <1>7, <2>3, <2>6 DEF SHollow
<1>8. FirstHollow(text, prefix, h[k]) BY <1>4, <1>5, <1>6, <1>7 DEF FirstHollow
<1> QED BY <1>5, <1>8 DEF Blamed

----------------------------------------------------------------------------
\* Where an adapter that was given an environment can be.
EnvironInv ==
  /\ next \in Nat \ {0} /\ IsSeq(pairs)
  /\ pc = "collect" => stage \in {"start", "variables", "mount"}
  /\ pc = "collect" /\ stage = "start" =>
       next = 1 /\ pairs = <<>> /\ entries = <<>> /\ DOMAIN seen = {}
  /\ pc = "collect" /\ stage = "variables" =>
       /\ entries = <<>> /\ DOMAIN seen = {} /\ next <= Len(input.text) + 1
       /\ VariablesRead(input.text, pairs, next - 1)
  /\ pc = "collect" /\ stage = "mount" =>
       /\ VariablesRead(input.text, pairs, Len(input.text))
       /\ next <= Len(pairs) + 1
       /\ PairsEntered(input.prefix, pairs, entries, next - 1)
       /\ KeysOnce(entries) /\ DOMAIN seen = Keys(entries)
  /\ pc \in {"scan", "insert", "done"} =>
       /\ VariablesRead(input.text, pairs, Len(input.text))
       /\ PairsEntered(input.prefix, pairs, entries, Len(pairs))
       /\ KeysOnce(entries)
  /\ pc = "scan" => at <= Len(entries) + 1 /\ Formed(entries, at - 1)
  /\ pc \in {"insert", "done"} => Formed(entries, Len(entries))
  /\ pc = "failed" => input.prefix = <<>> \/ Blamed(input.text, input.prefix, fault.name)

FromEnviron == input \in Inputs /\ (input.origin = "environ" => EnvironInv)

LEMMA EnvironInvInit == Init => FromEnviron
<1> SUFFICES ASSUME Init, input.origin = "environ" PROVE EnvironInv BY DEF Init, FromEnviron
<1> USE DEF Init, MapInit
<1>1. IsSeq(pairs)
  <2>1. pairs = <<>> OBVIOUS
  <2> QED BY <2>1 DEF IsSeq
<1>2. DOMAIN seen = {} OBVIOUS
<1> QED BY <1>1, <1>2 DEF EnvironInv

LEMMA EnvironOpened ==
  ASSUME input \in Inputs, input.origin = "environ", EnvironInv,
         Load \/ LoadWithoutPrefix \/ Parse \/ ParseInvalid \/ InputEnds
  PROVE  EnvironInv'
<1>1. Len(input.text) \in Nat BY InputsAssumption
<1>2. CASE Load
  <2>1. /\ next' = 1 /\ stage' = "variables" /\ pairs = <<>> /\ entries = <<>> /\ pc = "collect"
        /\ DOMAIN seen = {} /\ UNCHANGED <<pc, entries, input, pairs, seen>>
    BY <1>2 DEF Load, At, GoOn, mapVars, EnvironInv
  <2>2. VariablesRead(input.text, pairs, 0)
    <3>1. PICK f : Picks(f, 0, 0, WithSign(input.text)) BY PicksNone
    <3>2. Len(pairs) = 0 /\ 1 .. 0 = {} BY <2>1
    <3>3. Cuts(f, input.text, pairs, 0) BY <3>1, <3>2 DEF Cuts
    <3> QED BY <3>3 DEF VariablesRead
  <2>3. VariablesRead(input'.text, pairs', next' - 1)
    <3>1. next' - 1 = 0 BY <2>1
    <3> QED BY <2>1, <2>2, <3>1
  <2>4. IsSeq(pairs') BY <2>1 DEF EnvironInv
  <2> QED BY <1>1, <2>1, <2>3, <2>4 DEF EnvironInv
<1>3. CASE LoadWithoutPrefix
  <2>1. pc' = "failed" /\ UNCHANGED envVars /\ input.prefix = <<>>
    BY <1>3 DEF LoadWithoutPrefix, Refuse, Fail
  <2> QED BY <2>1 DEF EnvironInv, envVars
<1>4. CASE InputEnds
  <2>1. /\ next' = 1 /\ stage' = "mount" /\ pc = "collect" /\ stage = "variables"
        /\ UNCHANGED <<pc, entries, input, pairs, seen>> /\ next > Len(input.text)
    BY <1>4 DEF InputEnds, At, GoOn, mapVars, EnvironInv
  <2>2. /\ next \in Nat /\ next <= Len(input.text) + 1 /\ entries = <<>> /\ IsSeq(pairs)
        /\ VariablesRead(input.text, pairs, next - 1) /\ DOMAIN seen = {}
    BY <2>1 DEF EnvironInv
  <2>3. next - 1 = Len(input.text) BY <1>1, <2>1, <2>2
  <2>4. VariablesRead(input'.text, pairs', Len(input'.text)) BY <2>1, <2>2, <2>3
  <2>5. Len(<<>>) = 0 /\ 1 .. 0 = {} OBVIOUS
  <2>6. PairsEntered(input'.prefix, pairs', entries', next' - 1)
    <3>1. PICK g : Picks(g, 0, 0, Chosen(input.prefix, pairs)) BY PicksNone
    <3>2. Len(entries) = 0 /\ 1 .. Len(entries) = {} BY <2>2, <2>5
    <3>3. Entered(g, input.prefix, pairs, entries, 0) BY <3>1, <3>2 DEF Entered
    <3>4. PairsEntered(input.prefix, pairs, entries, 0) BY <3>3 DEF PairsEntered
    <3>5. next' - 1 = 0 BY <2>1
    <3> QED BY <2>1, <3>4, <3>5
  <2>7. KeysOnce(entries') /\ DOMAIN seen' = Keys(entries')
    <3>1. KeysOnce(entries) /\ Keys(entries) = {} BY <2>2, <2>5 DEF KeysOnce, Keys
    <3> QED BY <2>1, <2>2, <3>1
  <2>8. Len(pairs') \in Nat /\ IsSeq(pairs') BY <2>1, <2>2 DEF IsSeq
  <2> QED BY <2>1, <2>2, <2>4, <2>6, <2>7, <2>8 DEF EnvironInv
<1> QED BY <1>2, <1>3, <1>4 DEF Parse, ParseInvalid

LEMMA EnvironRead ==
  ASSUME input \in Inputs, EnvironInv, NoVariable \/ ReadVariable
  PROVE  EnvironInv'
<1> DEFINE n == next - 1
<1>1. ReadsVariable BY DEF NoVariable, ReadVariable
<1>2. /\ Len(input.text) \in Nat /\ next \in 1 .. Len(input.text) /\ n \in Nat
      /\ pc = "collect" /\ stage = "variables" /\ entries = <<>> /\ IsSeq(pairs)
      /\ DOMAIN seen = {} /\ n + 1 = next
      /\ Variable = sorted(input.text)[n + 1] /\ VariablesRead(input.text, pairs, n)
  <2>1. Len(input.text) \in Nat BY InputsAssumption
  <2>2. next \in Nat \ {0} BY DEF EnvironInv
  <2>3. n + 1 = next /\ n \in Nat BY <2>2
  <2> QED BY <1>1, <2>1, <2>2, <2>3 DEF ReadsVariable, At, EnvironInv, Variable
<1>3. CASE NoVariable
  <2>1. next' = next + 1 /\ UNCHANGED <<pc, entries, input, stage, pairs, seen>>
    BY <1>3 DEF NoVariable, PassOver, mapVars
  <2>2. ~Contains(sorted(input.text)[n + 1], "=") BY <1>2, <1>3 DEF NoVariable
  <2>3. next' - 1 = next /\ next' <= Len(input.text) + 1 /\ next' \in Nat \ {0} BY <1>2, <2>1
  <2> HIDE DEF n
  <2>4. VariablesRead(input.text, pairs, n + 1) BY <1>2, <2>2, VariableSkipped
  <2>5. VariablesRead(input'.text, pairs', next' - 1) BY <1>2, <2>1, <2>3, <2>4
  <2> QED BY <1>2, <2>1, <2>3, <2>5 DEF EnvironInv
<1>4. CASE ReadVariable
  <2> DEFINE e == [name |-> Cut(Variable).name, value |-> Cut(Variable).value]
  <2>1. /\ next' = next + 1 /\ pairs' = Append(pairs, e)
        /\ UNCHANGED <<pc, entries, input, stage, seen>>
    BY <1>4 DEF ReadVariable, TakePair, mapVars
  <2>2. Contains(sorted(input.text)[n + 1], "=") BY <1>2, <1>4 DEF ReadVariable
  <2>3. next' - 1 = next /\ next' <= Len(input.text) + 1 /\ next' \in Nat \ {0} BY <1>2, <2>1
  <2>4. e.name = NameAt(input.text, n + 1) /\ e.value = ValueAt(input.text, n + 1)
    BY <1>2 DEF NameAt, ValueAt
  <2> HIDE DEF n, e
  <2>5. VariablesRead(input.text, Append(pairs, e), n + 1) BY <1>2, <2>2, <2>4, VariableTaken
  <2>6. VariablesRead(input'.text, pairs', next' - 1) BY <1>2, <2>1, <2>3, <2>5
  <2>7. IsSeq(pairs') BY <1>2, <2>1, Appended
  <2> QED BY <1>2, <2>1, <2>3, <2>6, <2>7 DEF EnvironInv
<1> QED BY <1>3, <1>4

LEMMA EnvironMounts ==
  ASSUME input \in Inputs, input.origin = "environ", EnvironInv, Sequential,
         NotSelected \/ Undecodable \/ TooDeep \/ Collision \/ MountPair
  PROVE  EnvironInv'
<1> DEFINE n == next - 1
           text == input.text
           prefix == input.prefix
           path == PathIn(prefix, pairs[next].name)
<1>1. Mounts BY DEF NotSelected, Undecodable, TooDeep, Collision, MountPair
<1>2. /\ text \in Seq(String) /\ prefix \in String /\ IsSeq(pairs) /\ IsSeq(entries)
      /\ Len(pairs) \in Nat /\ next \in 1 .. Len(pairs) /\ n \in Nat /\ n + 1 = next
      /\ pc = "collect" /\ stage = "mount" /\ toPath[Rest] = path
      /\ VariablesRead(text, pairs, Len(text)) /\ PairsEntered(prefix, pairs, entries, n)
      /\ KeysOnce(entries) /\ DOMAIN seen = Keys(entries)
  <2>1. text \in Seq(String) /\ prefix \in String BY InputsAssumption
  <2>2. next \in Nat \ {0} /\ IsSeq(pairs) BY DEF EnvironInv
  <2>3. IsSeq(entries) BY DEF Sequential, IsSeq
  <2>4. Len(pairs) \in Nat BY <2>2 DEF IsSeq
  <2> QED BY <1>1, <2>1, <2>2, <2>3, <2>4 DEF Mounts, At, EnvironInv, Rest, PathIn
<1>3. CASE NotSelected
  <2>1. next' = next + 1 /\ UNCHANGED <<pc, entries, input, stage, pairs, seen>>
    BY <1>3 DEF NotSelected, PassOver, mapVars
  <2>2. ~HasPrefix(pairs[n + 1].name, prefix) BY <1>2, <1>3 DEF NotSelected, Selected
  <2>3. next' - 1 = next /\ next' <= Len(pairs) + 1 /\ next' \in Nat \ {0} BY <1>2, <2>1
  <2> HIDE DEF n
  <2>4. PairsEntered(prefix, pairs, entries, n + 1) BY <1>2, <2>2, PairSkipped
  <2>5. PairsEntered(input'.prefix, pairs', entries', next' - 1) BY <1>2, <2>1, <2>3, <2>4
  <2>6. VariablesRead(input'.text, pairs', Len(input'.text)) BY <1>2, <2>1
  <2>7. KeysOnce(entries') /\ DOMAIN seen' = Keys(entries') BY <1>2, <2>1
  <2> QED BY <1>2, <2>1, <2>3, <2>5, <2>6, <2>7 DEF EnvironInv
<1>4. CASE Undecodable \/ TooDeep \/ Collision
  <2>1. /\ pc' = "failed" /\ UNCHANGED envVars /\ fault'.name = pairs[next].name
        /\ HasPrefix(pairs[next].name, prefix)
        /\ \/ ~(Valid(pairs[next].name) /\ Valid(pairs[next].value))
           \/ ~(Len(path) <= MaxPathSegments)
           \/ pathKey[path] \in Keys(entries)
    <3>1. CASE Undecodable
      BY <3>1 DEF Undecodable, RefusePair, Refuse, Fail, Selected, Decodes
    <3>2. CASE TooDeep BY <1>2, <3>2 DEF TooDeep, RefusePair, Refuse, Fail, Selected, Fits
    <3>3. CASE Collision BY <1>2, <3>3 DEF Collision, RefusePair, Refuse, Fail, Selected, Taken
    <3> QED BY <1>4, <3>1, <3>2, <3>3
  <2>2. Blamed(text, prefix, pairs[next].name)
    <3> HIDE DEF text, prefix
    <3> QED BY <1>2, <2>1, PairBlamed
  <2>3. Blamed(input'.text, input'.prefix, fault'.name) BY <2>1, <2>2 DEF envVars
  <2> QED BY <1>2, <2>1, <2>3 DEF EnvironInv, envVars
<1>5. CASE MountPair
  <2> DEFINE e == [path |-> toPath[Rest], value |-> pairs[next].value,
                   source |-> pairs[next].name]
  <2>1. /\ entries' = Append(entries, e) /\ next' = next + 1
        /\ UNCHANGED <<pc, input, stage, pairs>>
        /\ pathKey[path] \notin DOMAIN seen
        /\ DOMAIN seen' = DOMAIN seen \cup {pathKey[path]}
    BY <1>2, <1>5 DEF MountPair, Mount, Taken
  <2>2. HasPrefix(pairs[n + 1].name, prefix) BY <1>2, <1>5 DEF MountPair, Selected
  <2>3. IsEntry(e, prefix, pairs[n + 1].name, pairs[n + 1].value)
    BY <1>2, <1>5 DEF MountPair, Decodes, Fits, IsEntry
  <2>4. e.path = path BY <1>2
  <2>5. next' - 1 = next /\ next' <= Len(pairs) + 1 /\ next' \in Nat \ {0} BY <1>2, <2>1
  <2> HIDE DEF e, n, path
  <2>6. PairsEntered(prefix, pairs, Append(entries, e), n + 1)
    <3> HIDE DEF prefix
    <3> QED BY <1>2, <2>2, <2>3, PairEntered
  <2>7. KeysOnce(Append(entries, e)) /\ Keys(Append(entries, e)) = Keys(entries) \cup {pathKey[path]}
    BY <1>2, <2>1, <2>4, KeysGrow
  <2>8. PairsEntered(input'.prefix, pairs', entries', next' - 1) BY <1>2, <2>1, <2>5, <2>6
  <2>9. VariablesRead(input'.text, pairs', Len(input'.text)) BY <1>2, <2>1
  <2>10. KeysOnce(entries') /\ DOMAIN seen' = Keys(entries') BY <1>2, <2>1, <2>7
  <2>11. IsSeq(pairs') BY <1>2, <2>1
  <2> QED BY <1>2, <2>1, <2>5, <2>8, <2>9, <2>10, <2>11 DEF EnvironInv
<1> QED BY <1>3, <1>4, <1>5

LEMMA EnvironCalls ==
  ASSUME EnvironInv, MapInv, CallBuild
  PROVE  EnvironInv'
<1>1. /\ pc = "collect" /\ stage = "mount" /\ next > Len(pairs) /\ pc' = "scan"
      /\ UNCHANGED <<at, entries, input, next, pairs>>
  BY DEF CallBuild, At, Call
<1>2. /\ next \in Nat /\ Len(pairs) \in Nat /\ next <= Len(pairs) + 1
      /\ VariablesRead(input.text, pairs, Len(input.text))
      /\ PairsEntered(input.prefix, pairs, entries, next - 1) /\ KeysOnce(entries)
  BY <1>1 DEF EnvironInv, IsSeq
<1>3. next - 1 = Len(pairs) BY <1>1, <1>2
<1>4. PairsEntered(input'.prefix, pairs', entries', Len(pairs')) BY <1>1, <1>2, <1>3
<1>5. VariablesRead(input'.text, pairs', Len(input'.text)) /\ KeysOnce(entries') BY <1>1, <1>2
<1>6. at' <= Len(entries') + 1 /\ Formed(entries', at' - 1)
  <2>1. at' = 1 /\ at' - 1 = 0 /\ Len(entries') \in Nat /\ 1 .. 0 = {}
    BY <1>1 DEF MapInv, Sequential, Scanning
  <2> QED BY <2>1 DEF Formed
<1> QED BY <1>1, <1>4, <1>5, <1>6 DEF EnvironInv

LEMMA EnvironBuilds ==
  ASSUME input \in Inputs, EnvironInv, MapInv, Build, UNCHANGED envVars
  PROVE  EnvironInv'
<1>1. UNCHANGED <<entries, input, next, pairs, stage, seen>>
  BY DEF envVars, Build, Scan, ScanRefuses, ScanEnds, Skip, Insert, Clash, InsertEnds, Fail
<1>2. /\ pc \in {"scan", "insert"} /\ at \in Nat \ {0} /\ Len(entries) \in Nat
      /\ VariablesRead(input.text, pairs, Len(input.text)) /\ KeysOnce(entries)
      /\ PairsEntered(input.prefix, pairs, entries, Len(pairs))
  BY DEF Build, Scan, ScanRefuses, ScanEnds, Skip, Insert, Clash, InsertEnds, EnvironInv,
         MapInv, Sequential
<1>3. /\ VariablesRead(input'.text, pairs', Len(input'.text)) /\ KeysOnce(entries')
      /\ PairsEntered(input'.prefix, pairs', entries', Len(pairs'))
      /\ next' \in Nat \ {0} /\ IsSeq(pairs')
  BY <1>1, <1>2 DEF EnvironInv
<1>4. CASE Scan
  <2>1. /\ pc = "scan" /\ at <= Len(entries) /\ WellFormed(entries[at].path)
        /\ at' = at + 1 /\ pc' = "scan" /\ Formed(entries, at - 1)
    BY <1>4 DEF Scan, EnvironInv
  <2>2. at' - 1 = at /\ at' <= Len(entries) + 1 BY <1>2, <2>1
  <2>3. Formed(entries, at)
    <3>1. \A k \in 1 .. at : k \in 1 .. at - 1 \/ k = at BY <1>2
    <3> QED BY <2>1, <3>1 DEF Formed
  <2>4. at' <= Len(entries') + 1 /\ Formed(entries', at' - 1) BY <1>1, <2>2, <2>3
  <2> QED BY <1>3, <2>1, <2>4 DEF EnvironInv
<1>5. CASE ScanRefuses
  <2>1. /\ pc = "scan" /\ pc' = "failed" /\ at <= Len(entries) /\ ~WellFormed(entries[at].path)
        /\ fault'.name = entries[at].source
    BY <1>5 DEF ScanRefuses, Fail
  <2>2. at \in 1 .. Len(entries) /\ Formed(entries, at - 1) BY <1>2, <2>1 DEF EnvironInv
  <2>3. /\ input.text \in Seq(String) /\ input.prefix \in String /\ IsSeq(pairs)
        /\ IsSeq(entries)
    BY InputsAssumption DEF EnvironInv, MapInv, Sequential, IsSeq
  <2>4. Blamed(input.text, input.prefix, entries[at].source) BY <1>2, <2>1, <2>2, <2>3, EntryBlamed
  <2>5. Blamed(input'.text, input'.prefix, fault'.name) BY <1>1, <2>1, <2>4
  <2> QED BY <1>3, <2>1, <2>5 DEF EnvironInv
<1>6. CASE ScanEnds
  <2>1. /\ pc = "scan" /\ at > Len(entries) /\ pc' = "insert"
        /\ Formed(entries, at - 1) /\ at <= Len(entries) + 1
    BY <1>6 DEF ScanEnds, EnvironInv
  <2>2. at - 1 = Len(entries) BY <1>2, <2>1
  <2>3. Formed(entries', Len(entries')) BY <1>1, <2>1, <2>2
  <2> QED BY <1>3, <2>1, <2>3 DEF EnvironInv
<1>7. CASE Skip \/ Insert \/ InsertEnds
  <2>1. pc = "insert" /\ pc' \in {"insert", "done"} BY <1>7 DEF Skip, Insert, InsertEnds
  <2>2. Formed(entries', Len(entries')) BY <1>1, <2>1 DEF EnvironInv
  <2> QED BY <1>3, <2>1, <2>2 DEF EnvironInv
<1>8. ~Clash BY ClashImpossible
<1> QED BY <1>4, <1>5, <1>6, <1>7, <1>8 DEF Build

LEMMA FromEnvironNext == FromEnviron /\ MapInv /\ [Next]_vars => FromEnviron'
<1> SUFFICES ASSUME FromEnviron, MapInv, [Next]_vars PROVE FromEnviron' OBVIOUS
<1>1. input' = input
  BY DEF Next, Read, Load, LoadWithoutPrefix, Parse, ParseInvalid, NoVariable, ReadVariable,
         TakePair, Ignore, RefuseLine,
         RefuseName, RefuseValue, ReadLine, InputEnds, NotSelected, Undecodable, TooDeep,
         Collision, MountPair, CallBuild, Refuse, RefusePair, GoOn, PassOver, Mount, vars, envVars
<1> SUFFICES ASSUME input.origin = "environ" PROVE EnvironInv' BY <1>1 DEF FromEnviron
<1>2. input \in Inputs /\ EnvironInv BY DEF FromEnviron
<1>3. Sequential BY DEF MapInv
<1>4. ~Ignore /\ ~RefuseLine /\ ~RefuseName /\ ~RefuseValue /\ ~ReadLine
  BY <1>2 DEF Ignore, RefuseLine, RefuseName, RefuseValue, ReadLine, ReadsLine, At, EnvironInv
<1>5. CASE Read
  BY <1>2, <1>3, <1>4, <1>5, EnvironOpened, EnvironRead, EnvironMounts, EnvironCalls DEF Read
<1>6. CASE Build /\ UNCHANGED envVars BY <1>2, <1>6, EnvironBuilds
<1>7. CASE UNCHANGED vars
  <2>1. UNCHANGED <<pc, at, entries, fault, input, next, pairs, stage, seen>>
    BY <1>7 DEF vars, mapVars, envVars
  <2> QED BY <1>2, <2>1 DEF EnvironInv
<1> QED BY <1>5, <1>6, <1>7 DEF Next

LEMMA FromEnvironAlways == Spec => [](FromEnviron /\ MapInv)
<1>1. Spec => []MapInv
  <2>1. Spec => MapSpec BY AdapterCallsBuild DEF BuildsPathMap
  <2> QED BY <2>1, MapInvariant, PTL
<1> QED BY <1>1, EnvironInvInit, FromEnvironNext, PTL DEF Spec

----------------------------------------------------------------------------
(* The variable that is blamed.                                            *)

\* What is refused at a place is refused of the variable there.
LEMMA RefusedAtPlace ==
  ASSUME input.text \in Seq(String), input.prefix \in String, Lists(OrderOf(input.text), input.text),
         NEW i \in 1 .. Len(input.text)
  PROVE  /\ Refused(OrderOf(input.text)[i]) <=> SRefused(input.text, input.prefix, i)
         /\ Hollow(OrderOf(input.text)[i]) <=> SHollow(input.text, input.prefix, i)
         /\ Cut(input.text[OrderOf(input.text)[i]]).name = NameAt(input.text, i)
<1> DEFINE text == input.text
           prefix == input.prefix
           o == OrderOf(text)
           N == 1 .. Len(text)
<1>1. /\ o \in [N -> N] /\ \A k \in N : \E j \in N : o[j] = k
      /\ \A j, k \in N : j < k <=> Precedes(text, o[j], o[k])
  BY DEF Lists
<1>2. \A k \in N : sorted(text)[k] = text[o[k]] BY SortedLists
<1>3. Len(text) \in Nat OBVIOUS
<1> HIDE DEF o
<1>4. ASSUME NEW k \in N
      PROVE  /\ Wanted(o[k]) <=> k \in WantedAt(text, prefix)
             /\ PathOf(o[k]) = PathIn(prefix, NameAt(text, k))
             /\ Cut(text[o[k]]).name = NameAt(text, k)
  <2>1. k \in Nat BY <1>3
  <2> QED BY <1>2, <2>1 DEF Wanted, WantedAt, WithSign, NameAt, PathOf, PathIn
<1>5. i \in N /\ o[i] \in N BY <1>1
<1>6. ASSUME Wanted(o[i])
      PROVE  (\E j \in N : Wanted(j) /\ Earlier(j, o[i]) /\ PathOf(j) = PathOf(o[i]))
               <=> \E j \in 1 .. i - 1 : /\ j \in WantedAt(text, prefix)
                                         /\ PathIn(prefix, NameAt(text, j)) = PathIn(prefix, NameAt(text, i))
  <2>1. ASSUME NEW j \in N, Wanted(j), Earlier(j, o[i]), PathOf(j) = PathOf(o[i])
        PROVE  \E k \in 1 .. i - 1 : /\ k \in WantedAt(text, prefix)
                                     /\ PathIn(prefix, NameAt(text, k)) = PathIn(prefix, NameAt(text, i))
    <3>1. PICK k \in N : o[k] = j BY <1>1
    <3>2. k < i BY <1>1, <1>5, <2>1, <3>1 DEF Earlier
    <3>3. k \in 1 .. i - 1 BY <1>3, <3>2
    <3> QED BY <1>4, <1>5, <2>1, <3>1, <3>3
  <2>2. ASSUME NEW k \in 1 .. i - 1, k \in WantedAt(text, prefix),
               PathIn(prefix, NameAt(text, k)) = PathIn(prefix, NameAt(text, i))
        PROVE  \E j \in N : Wanted(j) /\ Earlier(j, o[i]) /\ PathOf(j) = PathOf(o[i])
    <3>1. k \in N /\ k < i BY <1>3
    <3>2. o[k] \in N /\ Precedes(text, o[k], o[i]) BY <1>1, <1>5, <3>1
    <3> QED BY <1>4, <1>5, <2>2, <3>1, <3>2 DEF Earlier
  <2> QED BY <2>1, <2>2
<1>7. ASSUME Wanted(o[i])
      PROVE  Len(PathOf(o[i])) > MaxPathSegments
               <=> ~(Len(PathIn(prefix, NameAt(text, i))) <= MaxPathSegments)
  <2>1. Len(PathIn(prefix, NameAt(text, i))) \in Nat BY <1>4, <1>5, <1>7, PathAt
  <2> QED BY <1>4, <1>5, <2>1, LimitAssumption
<1>8. Valid(text[o[i]]) <=> Valid(sorted(text)[i]) BY <1>2, <1>5
<1>9. Refused(o[i]) <=> SRefused(text, prefix, i)
  <2>1. Wanted(o[i]) <=> i \in WantedAt(text, prefix) BY <1>4, <1>5
  <2> QED BY <1>6, <1>7, <1>8, <2>1 DEF Refused, SRefused
<1>10. Hollow(o[i]) <=> SHollow(text, prefix, i) BY <1>4, <1>5 DEF Hollow, SHollow
<1> QED BY <1>4, <1>5, <1>9, <1>10 DEF o

\* The least of the variables with a property is the one at the first place
\* that has it.
LEMMA LeastIsFirst ==
  ASSUME input.text \in Seq(String), NEW S, NEW i \in 1 .. Len(input.text),
         Lists(OrderOf(input.text), input.text), OrderOf(input.text)[i] \in S,
         \A j \in 1 .. i - 1 : OrderOf(input.text)[j] \notin S
  PROVE  \A k \in 1 .. Len(input.text) :
           (/\ k \in S
            /\ \A j \in 1 .. Len(input.text) : j \in S /\ j # k => Earlier(k, j))
           <=> k = OrderOf(input.text)[i]
<1> DEFINE text == input.text
           o == OrderOf(text)
           N == 1 .. Len(text)
<1>1. /\ o \in [N -> N] /\ \A k \in N : \E j \in N : o[j] = k
      /\ \A j, k \in N : j < k <=> Precedes(text, o[j], o[k])
  BY DEF Lists
<1>2. Len(text) \in Nat /\ i \in N OBVIOUS
<1>3. o[i] \in S /\ \A j \in 1 .. i - 1 : o[j] \notin S OBVIOUS
<1> HIDE DEF o
<1>4. ASSUME NEW j \in N, j \in S, j # o[i] PROVE Earlier(o[i], j)
  <2>1. PICK k \in N : o[k] = j BY <1>1
  <2>2. i < k
    <3>1. k \notin 1 .. i - 1 /\ k # i BY <1>3, <1>4, <2>1
    <3> HIDE DEF N
    <3>2. i \in Nat /\ k \in Nat /\ k >= 1 BY <1>2 DEF N
    <3> QED BY <3>1, <3>2
  <2> QED BY <1>1, <1>2, <2>1, <2>2 DEF Earlier
<1>5. ASSUME NEW k \in N, k \in S, \A j \in N : j \in S /\ j # k => Earlier(k, j), k # o[i]
      PROVE  FALSE
  <2>1. PICK m \in N : o[m] = k BY <1>1
  <2>2. o[i] \in N BY <1>1, <1>2
  <2>3. Precedes(text, o[m], o[i]) BY <1>3, <1>5, <2>1, <2>2 DEF Earlier
  <2>4. m < i BY <1>1, <1>2, <2>1, <2>3
  <2>5. m \in 1 .. i - 1 BY <1>2, <2>4
  <2> QED BY <1>3, <1>5, <2>1, <2>5
<1>6. o[i] \in N BY <1>1, <1>2
<1> QED BY <1>3, <1>4, <1>5, <1>6 DEF o

\* Done, no variable had to be refused and every path can be nested.
LEMMA DoneUntroubled ==
  ASSUME input \in Inputs, input.origin = "environ", EnvironInv, MapInv, pc = "done",
         NEW i \in 1 .. Len(input.text)
  PROVE  ~SRefused(input.text, input.prefix, i) /\ ~SHollow(input.text, input.prefix, i)
<1> DEFINE text == input.text
           prefix == input.prefix
<1>1. text \in Seq(String) /\ prefix \in String BY InputsAssumption
<1>2. /\ VariablesRead(text, pairs, Len(text)) /\ PairsEntered(prefix, pairs, entries, Len(pairs))
      /\ KeysOnce(entries) /\ Formed(entries, Len(entries)) /\ IsSeq(pairs)
  BY DEF EnvironInv
<1>3. IsSeq(entries) BY DEF MapInv, Sequential, IsSeq
<1> HIDE DEF text, prefix
<1>4. EnteredFrom(text, prefix, entries, Len(text)) BY <1>1, <1>2, <1>3, AllEntered
<1>5. Len(text) \in Nat /\ Len(text) \in 0 .. Len(text) /\ i \in 1 .. Len(text) BY <1>1 DEF text
<1>6. Untroubled(text, prefix, Len(text)) BY <1>1, <1>2, <1>3, <1>4, <1>5, NoneRefused
<1>7. ~SRefused(text, prefix, i) BY <1>5, <1>6 DEF Untroubled
<1>8. ASSUME i \in WantedAt(text, prefix) PROVE WellFormed(PathIn(prefix, NameAt(text, i)))
  <2>1. PICK h : EntersFrom(h, text, prefix, entries, Len(text)) BY <1>4 DEF EnteredFrom
  <2>2. PICK m \in 1 .. Len(entries) : h[m] = i BY <1>5, <1>8, <2>1 DEF EntersFrom, Picks
  <2>3. entries[m].path = PathIn(prefix, NameAt(text, i))
    BY <2>1, <2>2 DEF EntersFrom, IsEntry
  <2> QED BY <1>2, <2>3 DEF Formed
<1> QED BY <1>7, <1>8 DEF SHollow, text, prefix

\* The environment has no order, so the outcome depends on none: Load fails
\* exactly when two variables reach one path or one of them is unreadable, and
\* blames the same variable in whatever order os.Environ lists them (F1.6),
\* for any alphabet and any number of variables.
THEOREM OutcomeHasNoOrder == Spec => []SameOnEveryRun
<1>1. FromEnviron /\ MapInv => SameOnEveryRun
  <2> SUFFICES ASSUME FromEnviron, MapInv, Ended, input.origin = "environ", input.prefix # <<>>
               PROVE  CASE \E k \in 1 .. Len(input.text) : Refused(k) -> Blames(Least(Refused))
                        [] (\A k \in 1 .. Len(input.text) : ~Refused(k))
                           /\ \E k \in 1 .. Len(input.text) : Hollow(k) -> Blames(Least(Hollow))
                        [] OTHER -> pc = "done"
    BY DEF SameOnEveryRun
  <2> DEFINE text == input.text
             o == OrderOf(text)
             N == 1 .. Len(text)
             R == {k \in N : Refused(k)}
             H == {k \in N : Hollow(k)}
  <2>1. input \in Inputs /\ EnvironInv /\ text \in Seq(String) /\ input.prefix \in String
    BY InputsAssumption DEF FromEnviron
  <2>2. Lists(o, text) BY <2>1, SortedLists
  <2>3. o \in [N -> N] /\ \A k \in N : \E j \in N : o[j] = k BY <2>2 DEF Lists
  <2>4. \A i \in N : /\ Refused(o[i]) <=> SRefused(text, input.prefix, i)
                     /\ Hollow(o[i]) <=> SHollow(text, input.prefix, i)
                     /\ Cut(text[o[i]]).name = NameAt(text, i)
    BY <2>1, <2>2, RefusedAtPlace
  <2>5. Len(text) \in Nat BY <2>1
  <2>6. CASE pc = "done"
    <3>1. \A i \in N : ~Refused(o[i]) /\ ~Hollow(o[i])
      <4>1. \A i \in N : ~SRefused(text, input.prefix, i) /\ ~SHollow(text, input.prefix, i)
        BY <2>1, <2>6, DoneUntroubled
      <4> HIDE DEF o, N
      <4> QED BY <2>4, <4>1
    <3>2. \A k \in N : ~Refused(k) /\ ~Hollow(k)
      <4> HIDE DEF o, N
      <4> QED BY <2>3, <3>1
    <3> QED BY <2>6, <3>2
  <2>7. CASE pc = "failed"
    <3>1. Blamed(text, input.prefix, fault.name) BY <2>1, <2>7 DEF EnvironInv
    <3>2. PICK i \in N : /\ FirstRefused(text, input.prefix, i) \/ FirstHollow(text, input.prefix, i)
                         /\ fault.name = NameAt(text, i)
      BY <3>1 DEF Blamed
    <3>3. Blames(o[i]) BY <2>4, <2>7, <3>2 DEF Blames
    <3>4. i \in N /\ o[i] \in N /\ \A j \in 1 .. i - 1 : j \in N
      <4>1. i \in N /\ o[i] \in N
        <5> HIDE DEF o, N
        <5> QED BY <2>3, <3>2
      <4> HIDE DEF o
      <4>2. \A j \in 1 .. i - 1 : j \in N BY <2>5, <4>1
      <4> QED BY <4>1, <4>2
    <3>5. CASE FirstRefused(text, input.prefix, i)
      <4>1. Refused(o[i]) /\ \A j \in 1 .. i - 1 : ~Refused(o[j])
        BY <2>4, <3>4, <3>5 DEF FirstRefused, Untroubled
      <4>2. \A k \in N : (/\ Refused(k)
                          /\ \A j \in N : Refused(j) /\ j # k => Earlier(k, j)) <=> k = o[i]
        <5>1. o[i] \in R /\ \A j \in 1 .. i - 1 : o[j] \notin R BY <3>4, <4>1
        <5> HIDE DEF R, o
        <5>2. \A k \in N : (/\ k \in R
                            /\ \A j \in N : j \in R /\ j # k => Earlier(k, j)) <=> k = o[i]
          BY <2>1, <2>2, <3>4, <5>1, LeastIsFirst DEF o
        <5> QED BY <5>2 DEF R
      <4>3. Least(Refused) = o[i] BY <3>4, <4>2 DEF Least
      <4> QED BY <3>3, <3>4, <4>1, <4>3
    <3>6. CASE FirstHollow(text, input.prefix, i)
      <4>1. Hollow(o[i]) /\ \A j \in 1 .. i - 1 : ~Hollow(o[j])
        BY <2>4, <3>4, <3>6 DEF FirstHollow
      <4>2. \A k \in N : ~Refused(k)
        <5>1. \A j \in N : ~SRefused(text, input.prefix, j)
          BY <3>6 DEF FirstHollow, Untroubled
        <5>2. \A j \in N : ~Refused(o[j])
          <6> HIDE DEF o, N
          <6> QED BY <2>4, <5>1
        <5> HIDE DEF o, N
        <5> QED BY <2>3, <5>2
      <4>3. \A k \in N : (/\ Hollow(k)
                          /\ \A j \in N : Hollow(j) /\ j # k => Earlier(k, j)) <=> k = o[i]
        <5>1. o[i] \in H /\ \A j \in 1 .. i - 1 : o[j] \notin H BY <3>4, <4>1
        <5> HIDE DEF H, o
        <5>2. \A k \in N : (/\ k \in H
                            /\ \A j \in N : j \in H /\ j # k => Earlier(k, j)) <=> k = o[i]
          BY <2>1, <2>2, <3>4, <5>1, LeastIsFirst DEF o
        <5> QED BY <5>2 DEF H
      <4>4. Least(Hollow) = o[i] BY <3>4, <4>3 DEF Least
      <4> QED BY <3>3, <3>4, <4>1, <4>2, <4>4
    <3> QED BY <3>2, <3>5, <3>6
  <2> QED BY <2>6, <2>7 DEF Ended
<1> QED BY <1>1, FromEnvironAlways, PTL

----------------------------------------------------------------------------
(* What is read of an environment.                                         *)

HoldsNoNul(name) == ~Contains(name, NUL)

\* No variable has a name with a NUL in it: no operating system lets one have
\* it, but Parse takes any text.
NamesHoldNoNul ==
  \A k \in 1 .. Len(input.text) :
    IF input.origin = "environ"
    THEN Contains(input.text[k], "=") => HoldsNoNul(Cut(input.text[k]).name)
    ELSE IsPair(input.text[k]) => HoldsNoNul(NameIn(input.text[k]))

\* Such a name has no NUL in its path.
LEMMA NoNulInPath ==
  ASSUME NEW name \in String, NEW prefix \in String, HasPrefix(name, prefix), HoldsNoNul(name)
  PROVE  PathIn(prefix, name) \in Seq(Text(Characters))
<1> DEFINE C == Characters \ {NUL}
           rest == After(name, Len(prefix))
<1>1. \A c \in C : lower(c) \in C BY AlphabetAssumption DEF lower
<1>2. Len(name) \in Nat /\ Len(prefix) \in 0 .. Len(name) /\ name \in Seq(Characters)
  BY DEF HasPrefix, String
<1>3. /\ Len(rest) = Len(name) - Len(prefix) /\ rest \in Seq(Characters)
      /\ \A i \in 1 .. Len(rest) : rest[i] = name[Len(prefix) + i]
  <2> HIDE DEF Characters
  <2> QED BY <1>2, Rests
<1>4. \A i \in 1 .. Len(name) : name[i] # NUL BY DEF HoldsNoNul, Contains
<1> HIDE DEF rest
<1>5. \A i \in 1 .. Len(rest) : rest[i] \in C
  <2> TAKE i \in 1 .. Len(rest)
  <2>1. Len(prefix) + i \in 1 .. Len(name) BY <1>2, <1>3
  <2>2. rest[i] # NUL BY <1>3, <1>4, <2>1
  <2>3. rest[i] \in Characters
    <3> HIDE DEF Characters
    <3> QED BY <1>3, ElementOfSeq
  <2> QED BY <2>2, <2>3
<1> HIDE DEF C
<1>6. rest \in Seq(C) BY <1>3, <1>5, IsASeq
<1>7. C \subseteq Characters BY DEF C
<1>8. toPath[rest] \in Seq(Seq(C)) BY <1>1, <1>6, <1>7, ToPathType
<1> QED BY <1>8 DEF PathIn, Text, C, rest

\* What is mounted from an environment: h leads from an entry to its place.
LEMMA MountedFromPlaces ==
  ASSUME input \in Inputs, input.origin = "environ", EnvironInv, MapInv, pc = "done"
  PROVE  \E h : EntersFrom(h, input.text, input.prefix, entries, Len(input.text))
<1> DEFINE text == input.text
           prefix == input.prefix
<1>1. text \in Seq(String) /\ prefix \in String BY InputsAssumption
<1>2. /\ VariablesRead(text, pairs, Len(text)) /\ PairsEntered(prefix, pairs, entries, Len(pairs))
      /\ IsSeq(pairs)
  BY DEF EnvironInv
<1>3. IsSeq(entries) BY DEF MapInv, Sequential, IsSeq
<1> HIDE DEF text, prefix
<1>4. EnteredFrom(text, prefix, entries, Len(text)) BY <1>1, <1>2, <1>3, AllEntered
<1> QED BY <1>4 DEF EnteredFrom, text, prefix

\* An entry of a variable, in the order of os.Environ.
EntryOf(m, k) ==
  /\ Contains(input.text[k], "=")
  /\ Cut(input.text[k]).name \in String
  /\ HasPrefix(Cut(input.text[k]).name, input.prefix)
  /\ entries[m].path = PathIn(input.prefix, Cut(input.text[k]).name)
  /\ entries[m].value = Cut(input.text[k]).value

LEMMA EntriesAreVariables ==
  ASSUME input \in Inputs, input.origin = "environ", EnvironInv, MapInv, pc = "done"
  PROVE  /\ \A m \in 1 .. Len(entries) : \E k \in 1 .. Len(input.text) : EntryOf(m, k)
         /\ \A k \in 1 .. Len(input.text) :
              Wanted(k) => \E m \in 1 .. Len(entries) : EntryOf(m, k)
<1> DEFINE text == input.text
           prefix == input.prefix
           o == OrderOf(text)
           N == 1 .. Len(text)
<1>1. text \in Seq(String) /\ prefix \in String BY InputsAssumption
<1>2. Lists(o, text) /\ \A i \in N : sorted(text)[i] = text[o[i]] BY <1>1, SortedLists
<1>3. o \in [N -> N] /\ \A k \in N : \E i \in N : o[i] = k BY <1>2 DEF Lists
<1>4. PICK h : EntersFrom(h, text, prefix, entries, Len(text)) BY MountedFromPlaces
<1>5. Len(text) \in Nat BY <1>1
<1>6. \A k \in N : text[k] \in String
  <2> HIDE DEF String
  <2> QED BY <1>1, ElementOfSeq
<1> HIDE DEF o
<1>7. ASSUME NEW m \in 1 .. Len(entries)
      PROVE  /\ h[m] \in N /\ h[m] \in WantedAt(text, prefix)
             /\ IsEntry(entries[m], prefix, NameAt(text, h[m]), ValueAt(text, h[m]))
  BY <1>4 DEF EntersFrom, Picks
<1>8. ASSUME NEW m \in 1 .. Len(entries) PROVE EntryOf(m, o[h[m]])
  <2> DEFINE k == o[h[m]]
  <2>1. k \in N /\ sorted(text)[h[m]] = text[k] BY <1>2, <1>3, <1>7
  <2>2. Contains(text[k], "=") /\ HasPrefix(Cut(text[k]).name, prefix)
    BY <1>7, <2>1 DEF WantedAt, WithSign, NameAt
  <2>3. Cut(text[k]).name \in String BY <1>6, <2>1, <2>2, CutParts
  <2>4. entries[m].path = PathIn(prefix, Cut(text[k]).name) /\ entries[m].value = Cut(text[k]).value
    BY <1>7, <2>1 DEF IsEntry, NameAt, ValueAt
  <2> QED BY <2>2, <2>3, <2>4 DEF EntryOf
<1>9. ASSUME NEW m \in 1 .. Len(entries) PROVE \E k \in N : EntryOf(m, k)
  <2>1. o[h[m]] \in N BY <1>3, <1>7
  <2> QED BY <1>8, <2>1
<1>10. ASSUME NEW k \in N, Wanted(k) PROVE \E m \in 1 .. Len(entries) : EntryOf(m, k)
  <2>1. PICK i \in N : o[i] = k BY <1>3
  <2>2. i \in WantedAt(text, prefix)
    <3>1. i \in Nat BY <1>5
    <3> QED BY <1>2, <1>10, <2>1, <3>1 DEF Wanted, WantedAt, WithSign, NameAt
  <2>3. PICK m \in 1 .. Len(entries) : h[m] = i BY <1>4, <2>2 DEF EntersFrom, Picks
  <2>4. EntryOf(m, k) BY <1>8, <2>1, <2>3
  <2> QED BY <2>4
<1> QED BY <1>9, <1>10

\* A path that a variable names is its own, and the other way round.
LEMMA NamesIsPath ==
  ASSUME NEW name \in String, HasPrefix(name, input.prefix), input.prefix \in String,
         NEW path, Spelled(path)
  PROVE  lowerASCII(After(name, Len(input.prefix))) = Joined[path]
           <=> PathIn(input.prefix, name) = path
<1> DEFINE rest == After(name, Len(input.prefix))
<1>1. Len(name) \in Nat /\ Len(input.prefix) \in 0 .. Len(name) /\ name \in Seq(Characters)
  BY DEF HasPrefix, String
<1>2. rest \in String
  <2> HIDE DEF Characters
  <2> QED BY <1>1, Rests DEF String
<1> HIDE DEF rest
<1>3. lowerASCII(rest) = Joined[path] => toPath[rest] = path BY <1>2, NamesItsPath
<1>4. toPath[rest] = path => lowerASCII(rest) = Joined[path] BY <1>2, JoinedOfToPath
<1> QED BY <1>3, <1>4 DEF PathIn, rest

\* What Build promises holds of the adapter.
LEMMA ObjectsOfEnviron == Spec => [](LastWins /\ (NulFree(Characters) => ObjectsWin))
<1>1. Spec => MapSpec BY AdapterCallsBuild DEF BuildsPathMap
<1>2. MapInit => ObjectsFollow(Characters) BY ObjectsFollowInit
<1>3. MapInv /\ ObjectsFollow(Characters) /\ [MapNext]_mapVars => ObjectsFollow(Characters)'
  BY ObjectsFollowNext
<1>4. MapInv /\ ObjectsFollow(Characters) /\ ValuesAreLeaves => (NulFree(Characters) => ObjectsWin)
  BY ObjectsAreParents
<1> QED BY <1>1, <1>2, <1>3, <1>4, MapInvariant, ObjectsWinByKey, EnvironNeverClashes, PTL
         DEF MapSpec

\* A mounted namespace is complete and closed: when Load succeeds, every
\* variable with the prefix is read at its path, unless variables mounted
\* below it made an object of that path, and no variable without the prefix
\* contributes a value (rules F1.1, F1.2, F2.5), as long as no name holds a
\* NUL.
THEOREM EnvironMountedWithoutNul == Spec => [](NamesHoldNoNul => EnvironIsMounted)
<1> DEFINE Free == NulFree(Characters)
<1>1. Spec => [](LastWins /\ (Free => ObjectsWin)) BY ObjectsOfEnviron
<1>2. FromEnviron /\ MapInv /\ LastWins /\ (Free => ObjectsWin)
        => (NamesHoldNoNul => EnvironIsMounted)
  <2> SUFFICES ASSUME FromEnviron, MapInv, LastWins, Free => ObjectsWin, NamesHoldNoNul,
                      pc = "done", input.origin = "environ"
               PROVE  /\ \A k \in 1 .. Len(input.text), path \in Probes :
                           Contains(input.text[k], "=") /\ Names(Cut(input.text[k]).name, path)
                             => Reads(path, Cut(input.text[k]).value)
                      /\ \A path \in DOMAIN leaves \cap Probes : \E k \in 1 .. Len(input.text) :
                           /\ Contains(input.text[k], "=")
                           /\ Names(Cut(input.text[k]).name, path)
                           /\ Cut(input.text[k]).value = leaves[path]
    BY DEF EnvironIsMounted
  <2>1. /\ \A m \in 1 .. Len(entries) : \E k \in 1 .. Len(input.text) : EntryOf(m, k)
        /\ \A k \in 1 .. Len(input.text) :
             Wanted(k) => \E m \in 1 .. Len(entries) : EntryOf(m, k)
    BY EntriesAreVariables DEF FromEnviron
  <2>2. input.prefix \in String BY InputsAssumption DEF FromEnviron
  <2>3. Free
    <3> SUFFICES ASSUME NEW m \in 1 .. Len(entries)
                 PROVE  entries[m].path \in Seq(Text(Characters))
      BY DEF NulFree, Paths
    <3>1. PICK k \in 1 .. Len(input.text) : EntryOf(m, k) BY <2>1
    <3>2. HoldsNoNul(Cut(input.text[k]).name) BY <3>1 DEF NamesHoldNoNul, EntryOf
    <3> QED BY <2>2, <3>1, <3>2, NoNulInPath DEF EntryOf
  <2>4. DOMAIN leaves = Paths \ AllParents /\ objects = AllParents BY <2>3 DEF ObjectsWin
  <2>5. \A p \in DOMAIN leaves : \E m \in 1 .. Len(entries) :
          entries[m].path = p /\ entries[m].value = leaves[p]
    BY DEF LastWins
  <2>6. \A m, n \in 1 .. Len(entries) : entries[m].path = entries[n].path => m = n
    BY DEF FromEnviron, EnvironInv, KeysOnce
  <2>7. \A path \in Probes : Spelled(path) BY ProbesAssumption
  <2>8. ASSUME NEW k \in 1 .. Len(input.text), NEW path \in Probes,
               Contains(input.text[k], "="), Names(Cut(input.text[k]).name, path)
        PROVE  Reads(path, Cut(input.text[k]).value)
    <3>1. HasPrefix(Cut(input.text[k]).name, input.prefix) BY <2>8 DEF Names
    <3>2. Wanted(k) BY <2>8, <3>1 DEF Wanted
    <3>3. PICK m \in 1 .. Len(entries) : EntryOf(m, k) BY <2>1, <3>2
    <3>4. entries[m].path = path
      BY <2>2, <2>7, <2>8, <3>1, <3>3, NamesIsPath DEF Names, EntryOf
    <3>5. entries[m].value = Cut(input.text[k]).value BY <3>3 DEF EntryOf
    <3>6. path \in Paths BY <3>4 DEF Paths
    <3>7. CASE path \in AllParents BY <2>4, <3>7 DEF Reads
    <3>8. CASE path \notin AllParents
      <4>1. path \in DOMAIN leaves BY <2>4, <3>6, <3>8
      <4>2. PICK n \in 1 .. Len(entries) : entries[n].path = path /\ entries[n].value = leaves[path]
        BY <2>5, <4>1
      <4>3. n = m BY <2>6, <3>4, <4>2
      <4>4. leaves[path] = Cut(input.text[k]).value BY <3>5, <4>2, <4>3
      <4> QED BY <4>1, <4>4 DEF Reads
    <3> QED BY <3>7, <3>8
  <2>9. ASSUME NEW path \in DOMAIN leaves \cap Probes
        PROVE  \E k \in 1 .. Len(input.text) :
                 /\ Contains(input.text[k], "=")
                 /\ Names(Cut(input.text[k]).name, path)
                 /\ Cut(input.text[k]).value = leaves[path]
    <3>1. PICK m \in 1 .. Len(entries) : entries[m].path = path /\ entries[m].value = leaves[path]
      BY <2>5
    <3>2. PICK k \in 1 .. Len(input.text) : EntryOf(m, k) BY <2>1
    <3>3. Names(Cut(input.text[k]).name, path)
      BY <2>2, <2>7, <3>1, <3>2, NamesIsPath DEF Names, EntryOf
    <3> QED BY <3>1, <3>2, <3>3 DEF EntryOf
  <2> QED BY <2>8, <2>9
<1> HIDE DEF Free
<1> QED BY <1>1, <1>2, FromEnvironAlways, PTL

----------------------------------------------------------------------------
(* What a line of a file becomes.                                         *)

\* A path spelled in a line is the path its name is mounted at.
LEMMA SpellingNamesPath ==
  ASSUME input.prefix \in String, NEW path, Spelled(path), Spelling(path) \in String
  PROVE  HasPrefix(Spelling(path), input.prefix) /\ PathIn(input.prefix, Spelling(path)) = path
<1> DEFINE p == input.prefix
           s == Joined[path]
           name == p \o s
<1>1. path \in Seq(String) BY DEF Spelled
<1>2. s \in Seq(Glyphs) /\ p \in Seq(Glyphs) BY <1>1, JoinedType, StringIsGlyphs
<1>3. Len(p) \in Nat /\ Len(s) \in Nat
  <2> HIDE DEF Glyphs, p, s
  <2> QED BY <1>2
<1>4. /\ After(name, Len(p)) = s /\ SubSeq(name, 1, Len(p)) = p
      /\ Len(name) = Len(p) + Len(s)
  <2> HIDE DEF p, s
  <2>1. After(name, Len(p)) = s /\ SubSeq(name, 1, Len(p)) = p BY <1>2, RestOfPrefixed
  <2>2. Len(name) = Len(p) + Len(s) BY <1>2, ConcatProperties
  <2> QED BY <2>1, <2>2
<1>5. name \in Seq(Characters) /\ Spelling(path) = name BY DEF Spelling, String
<1> HIDE DEF name, s, p
<1>6. HasPrefix(name, p) BY <1>3, <1>4 DEF HasPrefix
<1>7. s \in String
  <2>1. Len(p) \in 0 .. Len(name) BY <1>3, <1>4
  <2> HIDE DEF Characters
  <2> QED BY <1>4, <1>5, <2>1, Rests DEF String
<1>8. lowerASCII(s) = s BY <1>7, SpelledInLowerCase DEF s
<1>9. toPath[s] = path BY <1>7, <1>8, NamesItsPath DEF s
<1> QED BY <1>4, <1>5, <1>6, <1>9 DEF PathIn, p

\* What is mounted from a .env file: an entry of a line, and its place.
FromLine(f, m) ==
  /\ f[m] \in 1 .. Len(input.text)
  /\ MountedFor(input.prefix, input.text[f[m]])
  /\ NameIn(input.text[f[m]]) \in String
  /\ entries[m].path = PathIn(input.prefix, NameIn(input.text[f[m]]))
  /\ entries[m].value = ValueIn(input.text[f[m]]).text
FromLines(f) ==
  /\ \A m \in 1 .. Len(entries) : FromLine(f, m)
  /\ \A m, n \in 1 .. Len(entries) : m < n => f[m] < f[n]
  /\ \A k \in 1 .. Len(input.text) : /\ IsText(input.text[k]) => IsPair(input.text[k])
                                     /\ MountedFor(input.prefix, input.text[k])
                                          => \E m \in 1 .. Len(entries) : f[m] = k

LEMMA EntriesAreLines ==
  ASSUME input \in Inputs, FileInv, pc = "done"
  PROVE  \E f : FromLines(f)
<1> DEFINE text == input.text
           prefix == input.prefix
<1>1. /\ LinesRead(text, prefix, pairs, Len(text))
      /\ PairsMounted(prefix, pairs, entries, Len(pairs)) /\ IsSeq(pairs)
  BY DEF FileInv
<1>2. PICK f : Enumerates(f, text, prefix, pairs, Len(text)) BY <1>1 DEF LinesRead
<1>3. Len(entries) = Len(pairs) BY <1>1 DEF PairsMounted
<1>4. text \in Seq(String) BY InputsAssumption
<1>5. \A k \in 1 .. Len(text) : text[k] \in String
  <2> HIDE DEF String
  <2> QED BY <1>4, ElementOfSeq
<1>6. ASSUME NEW m \in 1 .. Len(entries) PROVE FromLine(f, m)
  <2>1. /\ f[m] \in 1 .. Len(text) /\ MountedFor(prefix, text[f[m]])
        /\ pairs[m].name = NameIn(text[f[m]]) /\ pairs[m].value = ValueIn(text[f[m]]).text
    BY <1>2, <1>3 DEF Enumerates
  <2>2. entries[m].path = PathIn(prefix, pairs[m].name) /\ entries[m].value = pairs[m].value
    BY <1>1, <1>3 DEF PairsMounted
  <2>3. NameIn(text[f[m]]) \in String
    BY <1>5, <2>1, NameInType DEF MountedFor, IsPair
  <2> QED BY <2>1, <2>2, <2>3 DEF FromLine
<1>7. \A m, n \in 1 .. Len(entries) : m < n => f[m] < f[n] BY <1>2, <1>3 DEF Enumerates
<1>8. \A k \in 1 .. Len(text) : /\ IsText(text[k]) => IsPair(text[k])
                                /\ MountedFor(prefix, text[k]) => \E m \in 1 .. Len(entries) : f[m] = k
  BY <1>1, <1>2, <1>3 DEF Enumerates, LinesRead, Takes
<1>9. FromLines(f) BY <1>6, <1>7, <1>8 DEF FromLines
<1> QED BY <1>9

\* A value written between double quotes comes back as it was, from the last
\* line that sets its path (rules F1.7, F0.7): no text is cut at a quote, a
\* '#' or a space, and no escape is read twice; in a file of any length, with
\* any characters, as long as no name holds a NUL.
THEOREM QuotedValuesSurvive == Spec => [](NamesHoldNoNul => QuotedValueSurvives)
<1> DEFINE Free == NulFree(Characters)
<1>1. Spec => [](LastWins /\ (Free => ObjectsWin)) BY ObjectsOfEnviron
<1>2. FromInputs /\ LastWins /\ (Free => ObjectsWin) => (NamesHoldNoNul => QuotedValueSurvives)
  <2> SUFFICES ASSUME FromInputs, LastWins, Free => ObjectsWin, NamesHoldNoNul,
                      pc = "done", input.origin = "file",
                      NEW k \in 1 .. Len(input.text), NEW path \in Probes, NEW t \in Texts,
                      checkName(Spelling(path)), ~Contains(Spelling(path), "="),
                      Concatenates(input.text[k], Spelling(path), "=", Quoted(t)),
                      \A j \in k + 1 .. Len(input.text) :
                        ~(IsPair(input.text[j]) /\ Names(NameIn(input.text[j]), path))
               PROVE  Reads(path, t)
    BY DEF QuotedValueSurvives, Concatenates
  <2> DEFINE raw == input.text[k]
             name == Spelling(path)
  <2>1. input \in Inputs /\ FileInv BY DEF FromInputs
  <2>2. input.prefix \in String /\ input.text \in Seq(String) BY <2>1, InputsAssumption
  <2>3. raw \in String
    <3> HIDE DEF String
    <3> QED BY <2>2, ElementOfSeq
  <2>4. Spelled(path) /\ t \in String BY ProbesAssumption, TextsAssumption
  <2>5. name \in Seq(Glyphs)
    <3>1. Joined[path] \in Seq(Glyphs) BY <2>4, JoinedType DEF Spelled
    <3>2. input.prefix \in Seq(Glyphs) BY <2>2, StringIsGlyphs
    <3> HIDE DEF Glyphs
    <3> QED BY <3>1, <3>2, ConcatProperties DEF Spelling
  <2>6. PICK f : FromLines(f) BY <2>1, EntriesAreLines
  <2> HIDE DEF name, raw
  <2>7. /\ IsText(raw) /\ (name = <<>> => ~IsPair(raw))
        /\ name # <<>> => IsPair(raw) /\ NameIn(raw) = name /\ ValueIn(raw) = Good(t)
    BY <2>3, <2>4, <2>5, QuotedLine DEF name, raw
  <2>8. IsPair(raw) /\ NameIn(raw) = name /\ ValueIn(raw) = Good(t)
    <3>1. IsPair(raw) BY <2>6, <2>7 DEF FromLines, raw
    <3> QED BY <2>7, <3>1
  <2>9. name \in String BY <2>3, <2>8, NameInType DEF IsPair
  <2>10. HasPrefix(name, input.prefix) /\ PathIn(input.prefix, name) = path
    BY <2>2, <2>4, <2>9, SpellingNamesPath DEF name
  <2>11. MountedFor(input.prefix, raw) BY <2>8, <2>10 DEF MountedFor
  <2>12. PICK m \in 1 .. Len(entries) : f[m] = k BY <2>6, <2>11 DEF FromLines, raw
  <2>13. entries[m].path = path /\ entries[m].value = t
    <3>1. FromLine(f, m) BY <2>6 DEF FromLines
    <3>2. ValueIn(raw).text = t BY <2>8 DEF Good
    <3> QED BY <2>8, <2>10, <2>12, <3>1, <3>2 DEF FromLine, raw
  <2>14. Free
    <3> SUFFICES ASSUME NEW n \in 1 .. Len(entries)
                 PROVE  entries[n].path \in Seq(Text(Characters))
      BY DEF NulFree, Paths
    <3>1. FromLine(f, n) BY <2>6 DEF FromLines
    <3>2. HoldsNoNul(NameIn(input.text[f[n]]))
      BY <3>1 DEF NamesHoldNoNul, FromLine, MountedFor
    <3> QED BY <2>2, <3>1, <3>2, NoNulInPath DEF FromLine, MountedFor
  <2>15. DOMAIN leaves = Paths \ AllParents /\ objects = AllParents BY <2>14 DEF ObjectsWin
  <2>16. path \in Paths BY <2>13 DEF Paths
  <2>17. CASE path \in AllParents BY <2>15, <2>17 DEF Reads
  <2>18. CASE path \notin AllParents
    <3>1. path \in DOMAIN leaves BY <2>15, <2>16, <2>18
    <3>2. PICK n \in 1 .. Len(entries) :
            /\ entries[n].path = path /\ entries[n].value = leaves[path]
            /\ \A j \in n + 1 .. Len(entries) : entries[j].path # path
      BY <3>1 DEF LastWins
    <3>3. Len(entries) \in Nat /\ m \in Nat /\ n \in Nat
      <4>1. Len(entries) = Len(pairs) /\ IsSeq(pairs) BY <2>1 DEF FileInv, PairsMounted
      <4> QED BY <4>1 DEF IsSeq
    <3>4. ~(n < m)
      <4>1. n < m => m \in n + 1 .. Len(entries) BY <3>3
      <4> QED BY <2>13, <3>2, <4>1
    <3>5. ~(m < n)
      <4> SUFFICES ASSUME m < n PROVE FALSE OBVIOUS
      <4>1. FromLine(f, n) /\ k < f[n] BY <2>6, <2>12 DEF FromLines
      <4>2. f[n] \in k + 1 .. Len(input.text)
        <5>1. f[n] \in 1 .. Len(input.text) BY <4>1 DEF FromLine
        <5>2. Len(input.text) \in Nat
          <6> HIDE DEF String
          <6> QED BY <2>2
        <5> QED BY <4>1, <5>1, <5>2
      <4>3. Names(NameIn(input.text[f[n]]), path)
        BY <2>2, <2>4, <3>2, <4>1, NamesIsPath DEF Names, FromLine, MountedFor
      <4>4. IsPair(input.text[f[n]]) BY <4>1 DEF FromLine, MountedFor
      <4> QED BY <4>2, <4>3, <4>4
    <3>6. n = m BY <3>3, <3>4, <3>5
    <3>7. leaves[path] = t BY <2>13, <3>2, <3>6
    <3> QED BY <3>1, <3>7 DEF Reads
  <2> QED BY <2>17, <2>18
<1> HIDE DEF Free
<1> QED BY <1>1, <1>2, FromInputsAlways, PTL
=============================================================================
