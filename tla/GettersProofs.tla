--------------------------- MODULE GettersProofs ---------------------------
(***************************************************************************)
(* The three forms of every reader agree, for every tree, every path and    *)
(* every kind of value, whatever a text reads as and wherever the           *)
(* placeholders are.  The three lookups are compared first, then what each   *)
(* form makes of the value that was found.                                  *)
(***************************************************************************)
EXTENDS Getters, SequenceTheorems, Induction, TLAPS

\* A result with every error forgotten: what an Option can say.
Forget(result) == IF result.ok THEN result ELSE None

\* A result is a value or an error.
Answers(result) == result.ok = FALSE \/ \E v : result = Ok(v)

LEMMA OfError ==
  ASSUME NEW result, result.ok = FALSE
  PROVE  Forget(result) = None /\ Answers(result)
BY DEF Forget, Answers

LEMMA OfFail == \A why : Forget(Fail(why)) = None /\ Answers(Fail(why))
BY DEF Forget, Fail, Answers

LEMMA OfValue == \A v : Forget(Ok(v)) = Ok(v) /\ Answers(Ok(v))
<1>1. \A v : Forget(Ok(v)) = Ok(v)
  BY DEF Forget, Ok
<1>q. QED  BY <1>1 DEF Answers

\* lookup, which panics, and lookupE: the first asks whether the value is
\* resolved before it asks whether there is one, and still they answer alike.
LEMMA LookupsAgree ==
  ASSUME NEW c, NEW path
  PROVE  lookup(c, path) = lookupE(c, path)
<1>1. CASE path = <<>>
  BY <1>1 DEF lookup, lookupE
<1>2. CASE path # <<>>
  BY <1>2 DEF lookup, lookupE, isUnresolvedPlaceholder
<1>q. QED  BY <1>1, <1>2

\* lookupE gives a value or an error.
LEMMA LookupResult ==
  ASSUME NEW c, NEW path
  PROVE  \/ lookupE(c, path).ok = FALSE
         \/ lookupE(c, path) = Ok(lookupSegments(c.root, path))
<1>1. CASE path = <<>>
  BY <1>1 DEF lookupE, Ok, Fail
<1>2. CASE path # <<>>
  BY <1>2 DEF lookupE, Ok, Fail
<1>q. QED  BY <1>1, <1>2

\* lookupSoft on a path that is not empty.
LEMMA SoftAgrees ==
  ASSUME NEW c, NEW path, path # <<>>
  PROVE  lookupSoft(c, path) = Forget(lookupE(c, path))
BY DEF lookupSoft, lookupE, isUnresolvedPlaceholder, Forget, None, Ok, Fail

\* The scalar of a result, and the string that GetStringOption gives.
LEMMA StringAgrees ==
  ASSUME NEW c, NEW path, path # <<>>
  PROVE  /\ StringOption(c, path) = Forget(getScalar(lookupE(c, path)))
         /\ Answers(getScalar(lookupE(c, path)))
<1> DEFINE found == lookupE(c, path)
           v == lookupSegments(c.root, path)
<1>0. lookupSoft(c, path) = Forget(found)
  BY SoftAgrees
<1>1. CASE found.ok = FALSE
  <2>1. getScalar(found) = found
    BY <1>1 DEF getScalar
  <2>2. StringOption(c, path) = None
    BY <1>0, <1>1 DEF StringOption, Forget, None, Fail
  <2>q. QED  BY <1>1, <2>1, <2>2, OfError
<1>2. CASE found = Ok(v)
  <2>1. found.ok = TRUE /\ found.value = v /\ lookupSoft(c, path) = found
    BY <1>0, <1>2 DEF Forget, Ok
  <2>2. CASE v.kind # "scalar" \/ IsNull(v)
    <3>1. v.kind # "scalar" => getScalar(found) = Fail("expected scalar")
      BY <2>1 DEF getScalar, IsNull
    <3>2. v.kind = "scalar" => getScalar(found) = Fail("null")
      BY <2>1, <2>2 DEF getScalar
    <3>3. StringOption(c, path) = None
      BY <2>1, <2>2 DEF StringOption
    <3>q. QED  BY <3>1, <3>2, <3>3, OfFail
  <2>3. CASE ~(v.kind # "scalar" \/ IsNull(v))
    <3>1. getScalar(found) = Ok(v.raw) /\ StringOption(c, path) = Ok(v.raw)
      BY <2>1, <2>3 DEF getScalar, StringOption
    <3>q. QED  BY <3>1, OfValue
  <2>q. QED  BY <2>2, <2>3
<1>q. QED  BY <1>1, <1>2, LookupResult

\* The readers of one scalar.
LEMMA ScalarsAgree ==
  ASSUME NEW c, NEW path, path # <<>>, NEW type
  PROVE  ScalarOption(c, type, path) = Forget(ReadFrom(type, getScalar(lookupE(c, path))))
<1> DEFINE scalar == getScalar(lookupE(c, path))
<1>0. StringOption(c, path) = Forget(scalar)
  BY StringAgrees
<1>1. CASE scalar.ok = FALSE
  BY <1>0, <1>1 DEF ScalarOption, ReadFrom, Then, Forget, None, Fail
<1>2. CASE \E raw : scalar = Ok(raw)
  BY <1>0, <1>2 DEF ScalarOption, ReadFrom, Then, Forget, None, Fail, Ok
<1>q. QED  BY <1>1, <1>2, StringAgrees DEF Answers

\* An array, or an object with numeric keys.
LEMMA ArraysAgree ==
  ASSUME NEW c, NEW path, path # <<>>
  PROVE  /\ lookupArray(c, path) = Forget(getArray(lookupE(c, path)))
         /\ Answers(getArray(lookupE(c, path)))
<1> DEFINE found == lookupE(c, path)
           v == lookupSegments(c.root, path)
<1>0. lookupSoft(c, path) = Forget(found)
  BY SoftAgrees
<1>1. CASE found.ok = FALSE
  <2>1. getArray(found) = found
    BY <1>1 DEF getArray
  <2>2. lookupArray(c, path) = None
    BY <1>0, <1>1 DEF lookupArray, Forget, None, Fail
  <2>q. QED  BY <1>1, <2>1, <2>2, OfError
<1>2. CASE found = Ok(v)
  <2>1. found.ok = TRUE /\ found.value = v /\ lookupSoft(c, path) = found
    BY <1>0, <1>2 DEF Forget, Ok
  <2>2. CASE Listed(v) = Missing
    <3>1. getArray(found) = Fail("expected array")
      BY <2>1, <2>2 DEF getArray
    <3>2. v.kind # "array"
      <4>1. CASE v.kind = "array"
        <5>1. Listed(v) = v
          BY <4>1 DEF Listed, IsObject
        <5>q. QED  BY <4>1, <5>1, <2>2 DEF Missing
      <4>q. QED  BY <4>1
    <3>3. lookupArray(c, path) = None
      BY <2>1, <2>2, <3>2 DEF lookupArray
    <3>q. QED  BY <3>1, <3>3, OfFail
  <2>3. CASE Listed(v) # Missing
    <3>1. getArray(found) = Ok(Listed(v))
      BY <2>1, <2>3 DEF getArray
    <3>2. IsObject(v) \/ (~IsObject(v) /\ v.kind = "array" /\ Listed(v) = v)
      BY <2>3 DEF Listed, IsObject
    <3>3. lookupArray(c, path) = Ok(Listed(v))
      BY <1>2, <2>1, <2>3, <3>2 DEF lookupArray
    <3>q. QED  BY <3>1, <3>3, OfValue
  <2>q. QED  BY <2>2, <2>3
<1>q. QED  BY <1>1, <1>2, LookupResult

\* The readers of a slice of scalars.
LEMMA SlicesAgree ==
  ASSUME NEW c, NEW path, path # <<>>, NEW type
  PROVE  SliceOption(c, type, path) = Forget(ReadAll(type, getArray(lookupE(c, path))))
<1> DEFINE array == getArray(lookupE(c, path))
<1>0. lookupArray(c, path) = Forget(array)
  BY ArraysAgree
<1>1. CASE array.ok = FALSE
  BY <1>0, <1>1 DEF SliceOption, ReadAll, Then, Forget, None, Fail
<1>2. CASE \E items : array = Ok(items)
  BY <1>0, <1>2 DEF SliceOption, Then, Forget, None, Fail, Ok
<1>q. QED  BY <1>1, <1>2, ArraysAgree DEF Answers

\* GetConfig and its forms.
LEMMA ScopesAgree ==
  ASSUME NEW c, NEW path, path # <<>>
  PROVE  ConfigOption(c, path) = Forget(asConfig(lookupE(c, path)))
<1> DEFINE found == lookupE(c, path)
           v == lookupSegments(c.root, path)
<1>0. lookupSoft(c, path) = Forget(found)
  BY SoftAgrees
<1>1. CASE found.ok = FALSE
  <2>1. asConfig(found) = found
    BY <1>1 DEF asConfig
  <2>2. ConfigOption(c, path) = None
    BY <1>0, <1>1 DEF ConfigOption, Forget, None, Fail
  <2>q. QED  BY <1>1, <2>1, <2>2, OfError
<1>2. CASE found = Ok(v)
  <2>1. found.ok = TRUE /\ found.value = v /\ lookupSoft(c, path) = found
    BY <1>0, <1>2 DEF Forget, Ok
  <2>2. CASE ~IsObject(v)
    <3>1. asConfig(found) = Fail("expected object") /\ ConfigOption(c, path) = None
      BY <2>1, <2>2 DEF asConfig, ConfigOption
    <3>q. QED  BY <3>1, OfFail
  <2>3. CASE IsObject(v)
    <3>1. ~IsNull(v)
      BY <2>3 DEF IsObject, IsNull
    <3>2. asConfig(found) = Ok(newConfig(v)) /\ ConfigOption(c, path) = Ok(newConfig(v))
      BY <2>1, <2>3, <3>1 DEF asConfig, ConfigOption
    <3>q. QED  BY <3>2, OfValue
  <2>q. QED  BY <2>2, <2>3
<1>q. QED  BY <1>1, <1>2, LookupResult

\* GetConfigSlice and its forms.
LEMMA ScopeSlicesAgree ==
  ASSUME NEW c, NEW path, path # <<>>
  PROVE  ConfigSliceOption(c, path) = Forget(asConfigs(getArray(lookupE(c, path))))
<1> DEFINE array == getArray(lookupE(c, path))
<1>0. lookupArray(c, path) = Forget(array)
  BY ArraysAgree
<1>1. CASE array.ok = FALSE
  BY <1>0, <1>1 DEF ConfigSliceOption, asConfigs, Then, Forget, None, Fail
<1>2. CASE \E items : array = Ok(items)
  BY <1>0, <1>2 DEF ConfigSliceOption, Then, Forget, None, Fail, Ok
<1>q. QED  BY <1>1, <1>2, ArraysAgree DEF Answers

\* Each kind of value is read by one reader of each form.
LEMMA OptionsAgree ==
  ASSUME NEW c, NEW kind \in Kinds, NEW path, path # <<>>
  PROVE  GetOption(c, kind, path) = Forget(GetE(c, kind, path))
<1>1. ASSUME NEW t \in ScalarTypes, kind = One(t)
      PROVE  GetOption(c, kind, path) = Forget(GetE(c, kind, path))
  <2>1. kind.shape = "one" /\ kind.type = t /\ t # "config"
    BY <1>1 DEF One, ScalarTypes, Units
  <2>q. QED  BY <2>1, ScalarsAgree DEF GetOption, GetE, ReadFound
<1>2. CASE kind = One("config")
  BY <1>2, ScopesAgree DEF GetOption, GetE, ReadFound, One
<1>3. ASSUME NEW t \in ElementTypes, kind = Many(t)
      PROVE  GetOption(c, kind, path) = Forget(GetE(c, kind, path))
  <2>1. kind.shape = "many" /\ kind.type = t /\ t # "config"
    BY <1>3 DEF Many, ElementTypes
  <2>q. QED  BY <2>1, SlicesAgree DEF GetOption, GetE, ReadFound
<1>4. CASE kind = Many("config")
  BY <1>4, ScopeSlicesAgree DEF GetOption, GetE, ReadFound, Many
<1>q. QED  BY <1>1, <1>2, <1>3, <1>4 DEF Kinds

-----------------------------------------------------------------------------
(* Get panics with the error that GetE returns; both give the same value.   *)
THEOREM PanicsAreErrors ==
  ASSUME NEW c, NEW kind, NEW path
  PROVE  Get(c, kind, path) = GetE(c, kind, path)
BY LookupsAgree DEF Get, GetE

\* For one Config: the three forms of one reader.
THEOREM FormsAreAlike ==
  ASSUME NEW c, NEW kind \in Kinds, NEW path
  PROVE  Alike(c, kind, path)
BY PanicsAreErrors, OptionsAgree DEF Alike, Forget

\* Whatever Config a program has come to, all its readers agree there.
THEOREM ReadersAgree == GettersSpec => []FormsAgree
<1>1. FormsAgree
  BY FormsAreAlike DEF FormsAgree
<1>q. QED  BY <1>1, PTL

-----------------------------------------------------------------------------
(* Paths one after the other.                                               *)

\* The values a path leads through.
IsWalk(at, root, path) ==
  at[0] = root /\ \A n \in 1 .. Len(path) : at[n] = Step(at[n - 1], path[n])

LEMMA WalkExists ==
  ASSUME NEW root, NEW path, Len(path) \in Nat
  PROVE  \E at : IsWalk(at, root, path) /\ Follow(root, path) = at[Len(path)]
<1> DEFINE m == Len(path)
           Body(f, n) == IF n = 0 THEN root ELSE Step(f[n - 1], path[n])
           at == CHOOSE f : f = [n \in 0 .. m |-> Body(f, n)]
           S == {n \in Nat : \E f : f = [i \in 0 .. n |-> Body(f, i)]}
<1>1. 0 \in S
  <2> DEFINE f == [i \in 0 .. 0 |-> root]
  <2>1. f = [i \in 0 .. 0 |-> Body(f, i)] OBVIOUS
  <2> HIDE DEF Body
  <2> QED BY <2>1
<1>2. ASSUME NEW n \in Nat, n \in S PROVE n + 1 \in S
  <2>1. PICK f : f = [i \in 0 .. n |-> Body(f, i)] BY <1>2
  <2> DEFINE g == [i \in 0 .. n + 1 |-> IF i = n + 1 THEN Body(f, i) ELSE f[i]]
  <2>2. ASSUME NEW i \in 0 .. n + 1 PROVE g[i] = Body(g, i)
    <3>1. i # 0 => i - 1 \in 0 .. n /\ i - 1 # n + 1 OBVIOUS
    <3>2. i # 0 => g[i - 1] = f[i - 1] BY <3>1
    <3>3. Body(g, i) = Body(f, i)
      <4> HIDE DEF g
      <4> QED BY <3>2
    <3>4. i # n + 1 => f[i] = Body(f, i)
      <4>1. i # n + 1 => i \in 0 .. n OBVIOUS
      <4> HIDE DEF Body
      <4> QED BY <2>1, <4>1
    <3> HIDE DEF Body
    <3> QED BY <3>3, <3>4
  <2>3. g = [i \in 0 .. n + 1 |-> Body(g, i)]
    <3>1. g = [i \in 0 .. n + 1 |-> g[i]] OBVIOUS
    <3> HIDE DEF g, Body
    <3> QED BY <2>2, <3>1
  <2> HIDE DEF g, Body
  <2> QED BY <2>3
<1>3. \E f : f = [n \in 0 .. m |-> Body(f, n)]
  <2> HIDE DEF S
  <2>1. m \in S BY <1>1, <1>2, NatInSet
  <2> HIDE DEF m, Body
  <2> QED BY <2>1 DEF S
<1>4. at = [n \in 0 .. m |-> Body(at, n)]
  <2> HIDE DEF Body
  <2> QED BY <1>3, Zenon
<1>5. Follow(root, path) = at[m] BY DEF Follow
<1> HIDE DEF at
<1>6. \A n \in 0 .. m : at[n] = Body(at, n) BY <1>4
<1>7. IsWalk(at, root, path)
  <2>1. at[0] = root BY <1>6
  <2>2. \A n \in 1 .. m : n \in 0 .. m /\ n # 0 OBVIOUS
  <2> QED BY <1>6, <2>1, <2>2 DEF IsWalk
<1> QED BY <1>5, <1>7

\* A path that goes on where another ended leads where the two lead as one.
LEMMA FollowOn ==
  ASSUME NEW K, NEW p \in Seq(K), NEW q \in Seq(K), NEW root
  PROVE  Follow(root, p \o q) = Follow(Follow(root, p), q)
<1> DEFINE s == p \o q
<1>1. /\ Len(p) \in Nat /\ Len(q) \in Nat /\ Len(s) \in Nat /\ Len(s) = Len(p) + Len(q)
      /\ \A n \in 1 .. Len(p) : n \in 1 .. Len(s) /\ s[n] = p[n]
      /\ \A n \in 1 .. Len(q) : Len(p) + n \in 1 .. Len(s) /\ s[Len(p) + n] = q[n]
  OBVIOUS
<1> HIDE DEF s
<1>2. PICK f : IsWalk(f, root, p) /\ Follow(root, p) = f[Len(p)] BY <1>1, WalkExists
<1>3. PICK g : IsWalk(g, f[Len(p)], q) /\ Follow(f[Len(p)], q) = g[Len(q)]
  BY <1>1, WalkExists
<1>4. PICK h : IsWalk(h, root, s) /\ Follow(root, s) = h[Len(s)] BY <1>1, WalkExists
<1>5. h[Len(p)] = f[Len(p)]
  <2> DEFINE S == {n \in Nat : n <= Len(p) => h[n] = f[n]}
  <2>1. 0 \in S BY <1>2, <1>4 DEF IsWalk
  <2>2. ASSUME NEW n \in Nat, n \in S, n + 1 <= Len(p) PROVE h[n + 1] = f[n + 1]
    <3>1. h[n] = f[n] /\ (n + 1) - 1 = n /\ n + 1 \in 1 .. Len(p) BY <1>1, <2>2
    <3> QED BY <1>1, <1>2, <1>4, <3>1 DEF IsWalk
  <2>3. \A n \in Nat : n \in S => n + 1 \in S BY <2>2
  <2> HIDE DEF S
  <2>4. \A n \in Nat : n \in S BY <2>1, <2>3, NatInSet
  <2> QED BY <1>1, <2>4 DEF S
<1>6. h[Len(p) + Len(q)] = g[Len(q)]
  <2> DEFINE S == {n \in Nat : n <= Len(q) => h[Len(p) + n] = g[n]}
  <2>1. 0 \in S BY <1>1, <1>3, <1>5 DEF IsWalk
  <2>2. ASSUME NEW n \in Nat, n \in S, n + 1 <= Len(q)
        PROVE  h[Len(p) + (n + 1)] = g[n + 1]
    <3>1. /\ h[Len(p) + n] = g[n] /\ (n + 1) - 1 = n /\ n + 1 \in 1 .. Len(q)
          /\ (Len(p) + (n + 1)) - 1 = Len(p) + n
      BY <1>1, <2>2
    <3> QED BY <1>1, <1>3, <1>4, <3>1 DEF IsWalk
  <2>3. \A n \in Nat : n \in S => n + 1 \in S BY <2>2
  <2> HIDE DEF S
  <2>4. \A n \in Nat : n \in S BY <2>1, <2>3, NatInSet
  <2> QED BY <1>1, <2>4 DEF S
<1> QED BY <1>1, <1>2, <1>3, <1>4, <1>6 DEF s

LEMMA FollowNowhere == ASSUME NEW root PROVE Follow(root, <<>>) = root
<1>1. Len(<<>>) = 0 OBVIOUS
<1> QED BY <1>1, WalkExists DEF IsWalk

\* A path from a value of a Config leads to one again, or to nothing, and to no
\* placeholder where the value holds none.
LEMMA FollowWithin ==
  ASSUME NEW K, NEW path \in Seq(K), NEW root \in Trees
  PROVE  LET v == Follow(root, path)
         IN v = Missing \/ (v \in Trees /\ (Holds(v) => Holds(root)))
<1>1. Len(path) \in Nat OBVIOUS
<1>2. PICK at : IsWalk(at, root, path) /\ Follow(root, path) = at[Len(path)]
  BY <1>1, WalkExists
<1> DEFINE Inside(v) == v = Missing \/ (v \in Trees /\ (Holds(v) => Holds(root)))
           S == {n \in Nat : n <= Len(path) => Inside(at[n])}
<1>3. 0 \in S BY <1>2 DEF IsWalk
<1>4. ASSUME NEW n \in Nat, n \in S, n + 1 <= Len(path) PROVE Inside(at[n + 1])
  <2>1. n + 1 \in 1 .. Len(path) /\ (n + 1) - 1 = n BY <1>1, <1>4
  <2>2. at[n + 1] = Step(at[n], path[n + 1]) BY <1>2, <2>1 DEF IsWalk
  <2>3. Inside(at[n]) BY <1>1, <1>4
  <2>4. at[n] = Missing => ~IsObject(at[n]) BY DEF Missing, IsObject
  <2> QED BY <2>2, <2>3, <2>4, TreesAssumption DEF Step
<1>5. \A n \in Nat : n \in S => n + 1 \in S BY <1>4
<1>6. Len(path) \in S
  <2> HIDE DEF S
  <2> QED BY <1>1, <1>3, <1>5, NatInSet
<1> QED BY <1>1, <1>2, <1>6

-----------------------------------------------------------------------------
(* Scoping.                                                                 *)

Keys == UNION {{path[i] : i \in 1 .. Len(path)} : path \in Paths}

\* The Config held is the object at the path gone, and once a step was taken it
\* is one without a placeholder, unless the first Config was resolved.
Scoped ==
  /\ from.config \in Configs /\ from.path \in Seq(Keys)
  /\ config.root \in Trees
  /\ config.root = Follow(from.config.root, from.path)
  /\ from.path = <<>> => config = from.config
  /\ from.path # <<>> => /\ config.resolved
                         /\ from.config.resolved \/ ~Holds(config.root)
  /\ from = [config |-> from.config, path |-> from.path]

LEMMA PathsAreSeqs == \A path \in Paths : path \in Seq(Keys)
<1> SUFFICES ASSUME NEW path \in Paths PROVE path \in Seq(Keys) OBVIOUS
<1>1. path \in Seq({path[i] : i \in 1 .. Len(path)}) BY PathsAssumption
<1>2. {path[i] : i \in 1 .. Len(path)} \subseteq Keys BY DEF Keys
<1> QED BY <1>1, <1>2

\* A Config as it was handed.
LEMMA HandedScoped ==
  ASSUME NEW handed \in Configs, config = handed, from = [config |-> handed, path |-> <<>>]
  PROVE  Scoped
<1>1. handed.root \in Trees BY TreesAssumption
<1>2. Follow(handed.root, <<>>) = handed.root BY FollowNowhere
<1>3. <<>> \in Seq(Keys) OBVIOUS
<1> QED BY <1>1, <1>2, <1>3 DEF Scoped

\* What GetConfig finds.
LEMMA GetConfigFinds ==
  ASSUME NEW c, NEW path, Get(c, One("config"), path).ok = TRUE
  PROVE  LET v == Follow(c.root, path) IN
         /\ path # <<>> /\ IsObject(v) /\ v # Missing
         /\ Get(c, One("config"), path).value = newConfig(v)
         /\ c.resolved \/ ~Holds(v)
<1> DEFINE found == lookup(c, path)
           v == lookupSegments(c.root, path)
<1>1. Get(c, One("config"), path) = asConfig(found) BY DEF Get, ReadFound, One
<1>2. found.ok = TRUE /\ IsObject(found.value) /\ asConfig(found) = Ok(newConfig(found.value))
  <2>1. found = lookupE(c, path) BY LookupsAgree
  <2>2. found.ok = FALSE \/ found.ok = TRUE BY <2>1, LookupResult DEF Ok
  <2>3. asConfig(found).ok = TRUE BY <1>1
  <2> HIDE DEF found
  <2>4. found.ok = TRUE BY <2>2, <2>3 DEF asConfig
  <2>5. IsObject(found.value)
    <3> SUFFICES ASSUME ~IsObject(found.value) PROVE FALSE OBVIOUS
    <3>1. asConfig(found) = Fail("expected object") BY <2>4 DEF asConfig
    <3>2. Fail("expected object").ok = FALSE BY DEF Fail
    <3> QED BY <2>3, <3>1, <3>2
  <2> QED BY <2>4, <2>5 DEF asConfig
<1>3. path # <<>> BY <1>2 DEF lookup, Fail
<1>4. v = Follow(c.root, path) BY <1>3 DEF lookupSegments
<1>5. v # Missing /\ found = Ok(v) /\ (c.resolved \/ ~Holds(v))
  BY <1>2, <1>3 DEF lookup, isUnresolvedPlaceholder, Fail
<1> HIDE DEF v, found
<1> QED BY <1>1, <1>2, <1>3, <1>4, <1>5 DEF Ok

LEMMA ScopedNext ==
  ASSUME Scoped, [GettersNext]_getterVars
  PROVE  Scoped'
<1>1. CASE Load
  <2>1. PICK handed \in Configs : /\ config' = handed
                                  /\ from' = [config |-> handed, path |-> <<>>]
    BY <1>1 DEF Load
  <2>2. handed.root \in Trees BY TreesAssumption
  <2>3. Follow(handed.root, <<>>) = handed.root BY FollowNowhere
  <2>4. <<>> \in Seq(Keys) OBVIOUS
  <2> QED BY <2>1, <2>2, <2>3, <2>4 DEF Scoped
<1>2. CASE GetConfig
  <2>1. PICK path \in Paths :
          /\ Get(config, One("config"), path).ok
          /\ config' = Get(config, One("config"), path).value
          /\ from' = [from EXCEPT !.path = @ \o path]
    BY <1>2 DEF GetConfig
  <2> DEFINE v == Follow(config.root, path)
  <2>2. /\ path # <<>> /\ IsObject(v) /\ v # Missing /\ config' = newConfig(v)
        /\ config.resolved \/ ~Holds(v)
    BY <2>1, GetConfigFinds
  <2>3. path \in Seq(Keys) BY PathsAreSeqs
  <2>4. v \in Trees /\ (Holds(v) => Holds(config.root)) BY <2>2, <2>3, FollowWithin DEF Scoped
  <2>5. from'.config = from.config /\ from'.path = from.path \o path
        /\ from' = [config |-> from.config, path |-> from.path \o path]
    BY <2>1 DEF Scoped
  <2>6. v = Follow(from.config.root, from.path \o path) BY <2>3, FollowOn DEF Scoped
  <2>7. from.path \o path \in Seq(Keys) /\ from.path \o path # <<>>
    BY <2>2, <2>3 DEF Scoped
  <2>8. config'.root = v /\ config'.resolved = TRUE BY <2>2 DEF newConfig, Config
  <2>9. from.config.resolved \/ ~Holds(v) BY <2>2, <2>4 DEF Scoped
  <2> HIDE DEF v
  <2> QED BY <2>4, <2>5, <2>6, <2>7, <2>8, <2>9 DEF Scoped
<1>3. CASE UNCHANGED getterVars BY <1>3 DEF getterVars, Scoped
<1> QED BY <1>1, <1>2, <1>3 DEF GettersNext

\* What a lookup finds depends on the value at the path alone, and on whether
\* the Config is resolved.
LEMMA ScopedLookup ==
  ASSUME Scoped, NEW path \in Paths, path # <<>>
  PROVE  lookupE(config, path) = lookupE(from.config, from.path \o path)
<1> DEFINE v == Follow(config.root, path)
<1>1. path \in Seq(Keys) /\ from.path \in Seq(Keys) BY PathsAreSeqs DEF Scoped
<1>2. from.path \o path # <<>> BY <1>1
<1>3. v = Follow(from.config.root, from.path \o path) BY <1>1, FollowOn DEF Scoped
<1>4. /\ lookupSegments(config.root, path) = v
      /\ lookupSegments(from.config.root, from.path \o path) = v
  BY <1>2, <1>3 DEF lookupSegments
<1>5. CASE from.path = <<>>
  <2>1. config = from.config /\ from.path \o path = path BY <1>1, <1>5 DEF Scoped
  <2> QED BY <2>1
<1>6. CASE from.path # <<>>
  <2>1. v = Missing \/ (Holds(v) => Holds(config.root)) BY <1>1, FollowWithin DEF Scoped
  <2>2. config.resolved /\ (from.config.resolved \/ ~Holds(config.root))
    BY <1>6 DEF Scoped
  <2>3. v = Missing \/ from.config.resolved \/ ~Holds(v) BY <2>1, <2>2
  <2> HIDE DEF v
  <2> QED BY <1>2, <1>4, <2>2, <2>3 DEF lookupE, isUnresolvedPlaceholder
<1> QED BY <1>5, <1>6

\* A chain of GetConfigs of any length, on any Config: a path reads what the
\* whole path from the first Config reads, the same value or the same error.
THEOREM ChainsScope == GettersSpec => []ConfigScopes
<1>1. GettersInit => Scoped BY HandedScoped DEF GettersInit
<1>2. Scoped /\ [GettersNext]_getterVars => Scoped' BY ScopedNext
<1>3. Scoped => ConfigScopes BY ScopedLookup DEF ConfigScopes, GetE
<1> QED BY <1>1, <1>2, <1>3, PTL DEF GettersSpec
=============================================================================
