---------------------------- MODULE ResolveTree ----------------------------
(***************************************************************************)
(* Phase 2 of internal/resolver: the substitutions of an unresolved tree    *)
(* replaced by the values they name, depth first from the root, with the    *)
(* look-back to priors that a self-reference means.                         *)
(*                                                                         *)
(* The fields of the Go resolver that a call restores before it returns     *)
(* (resolving, resolvingFieldPath, resolvingPrefixPriors) are parts of a    *)
(* context passed down; resolvedCache only grows between two fields of the   *)
(* root.  The Go code recurses without a bound; here a substitution met at   *)
(* depth MaxDepth yields the error Runaway, which the code does not have:    *)
(* it stands for a recursion that does not end.                             *)
(***************************************************************************)
EXTENDS HoconTree

CONSTANTS
    Env,        \* the process environment: path written with dots |-> text
    EnvLists,   \* the list NAME_0, NAME_1, ... of a path |-> texts
    Index,      \* keys that are numbers |-> their value
    Dots,       \* keys that hold a dot |-> the path that is written like them
    MaxDepth    \* bound on nested substitutions

ASSUME ResolveAssumption ==
    /\ MaxDepth \in Nat
    /\ \A k \in DOMAIN Index : Index[k] \in Nat

\* ResolveError, told apart by its message.
Error(why, path) == [kind |-> "error", why |-> why, path |-> path]

IsError(v) == v.kind = "error"

Runaway(path) == Error("runaway", path)

----------------------------------------------------------------------------
(* Concatenation of resolved values.                                        *)

IsSeparator(v) == v.kind = "scalar" /\ v.sep

\* concatStrings
JoinText(vs) ==
    Text(FlattenSeq([i \in DOMAIN vs |->
            IF vs[i].kind = "scalar" THEN vs[i].raw ELSE <<>>]))

\* numericObjectToArray: the values of the numeric keys in order, Nil if none.
NumericArray(o) ==
    LET ks == {k \in DOMAIN o.values : k \in DOMAIN Index}
        order == SetToSortSeq(ks, LAMBDA j, k : Index[j] < Index[k])
    IN  IF ks = {} THEN Nil ELSE Array([i \in DOMAIN order |-> o.values[order[i]]])

\* mergeObjectConcat: right over left, priors dropped.
RECURSIVE MergeConcat(_, _)
MergeConcat(left, right) ==
    FoldLeft(LAMBDA o, k :
                IF Has(o, k) /\ IsObject(o.values[k]) /\ IsObject(right.values[k])
                THEN Put(o, k, MergeConcat(o.values[k], right.values[k]))
                ELSE Put(o, k, right.values[k]),
             [left EXCEPT !.prior = <<>>], right.keys)

\* An object next to a list stands for its numeric keys.
AsArray(v) == IF IsObject(v) THEN NumericArray(v) ELSE v

JoinArrays(left, right) ==
    IF {left.kind, right.kind} = {"array"}
    THEN Array(left.items \o right.items)
    ELSE Error("concat", <<>>)

JoinPair(left, right) ==
    CASE IsError(left) -> left
      [] IsObject(left) /\ IsObject(right) -> MergeConcat(left, right)
      [] left.kind = "scalar" /\ right.kind = "scalar" -> JoinText(<<left, right>>)
      [] "array" \in {left.kind, right.kind} -> JoinArrays(AsArray(left), AsArray(right))
      [] OTHER -> Error("concat", <<>>)

\* concrete: the operands that are neither undefined nor a separator.
JoinOperands(vs, concrete) ==
    IF \E v \in ToSet(concrete) : v.kind \in {"array", "object"}
    THEN FoldLeft(JoinPair, Head(concrete), Tail(concrete))
    ELSE JoinText(vs)

\* Mutant: a placeholder among the operands does not keep them apart.
JoinNow(vs, lenient) ==
    LET known == SelectSeq(vs, LAMBDA v : ~IsPlaceholder(v))
    IN  IF \A v \in ToSet(known) : v = Nil
        THEN Nil
        ELSE JoinOperands(known, SelectSeq(known, LAMBDA v : v # Nil /\ ~IsSeparator(v)))

\* resolveConcat, after its operands are resolved.
Join(vs, lenient) ==
    CASE lenient /\ (\E v \in ToSet(vs) : IsPlaceholder(v)) -> Concat(vs)
      [] \A v \in ToSet(vs) : v = Nil -> Nil
      [] OTHER -> JoinOperands(vs, SelectSeq(vs, LAMBDA v : v # Nil /\ ~IsSeparator(v)))

----------------------------------------------------------------------------
(* Lookups.                                                                 *)

\* lookupPath: the value at path, Nil if there is none.
RECURSIVE Lookup(_, _)
Lookup(v, path) ==
    CASE path = <<>> -> v
      [] path # <<>> /\ IsObject(v) /\ Has(v, Head(path)) ->
            Lookup(v.values[Head(path)], Tail(path))
      [] OTHER -> Nil

\* The prior that the object holding path keeps for it.
ParentPrior(root, path) ==
    LET parent == Lookup(root, Front(path))
    IN  IF IsObject(parent) THEN PriorOf(parent, Last(path)) ELSE Nil

\* ResolveTree seeds the resolver's own priors with the bare keys of the
\* root, so that the key "a.b" is taken for the path a.b.
Seeded(root, path) ==
    {k \in DOMAIN root.prior : path = IF k \in DOMAIN Dots THEN Dots[k] ELSE <<k>>}

FindPrior(root, path) ==
    IF Seeded(root, path) = {}
    THEN ParentPrior(root, path)
    ELSE root.prior[CHOOSE k \in Seeded(root, path) : TRUE]

RECURSIVE SubstIds(_)
SubstIds(v) ==
    IF v.kind = "subst"
    THEN IF v.knownAbsent THEN {} ELSE {v.id}
    ELSE UNION {SubstIds(c) : c \in Children(v)}

----------------------------------------------------------------------------
(* Resolution.  c is the context: root, lenient, useEnv, cache, resolving,  *)
(* field, guarded and depth.                                                *)

RECURSIVE ResolveVal(_, _)
RECURSIVE ResolveObject(_, _)

\* Mutant: without strictness even an optional substitution stays.
UnresolvedKept(s, c, why) == IF c.lenient THEN s
                             ELSE IF s.optional THEN Nil ELSE Error(why, s.path)

\* A substitution without a value.
Unresolved(s, c, why) ==
    CASE s.optional -> Nil
      [] ~s.optional /\ c.lenient -> s
      [] OTHER -> Error(why, s.path)

FirstError(vs) ==
    LET i == SelectInSeq(vs, IsError) IN IF i = 0 THEN Nil ELSE vs[i]

ResolveItems(items, c) == [i \in DOMAIN items |-> ResolveVal(items[i], c)]

\* The value prior resolves to, Nil where there is none.
ResolvePrior(prior, c) == IF prior = Nil THEN Nil ELSE ResolveVal(prior, c)

Layered(v, below) ==
    CASE IsError(below) -> below
      [] IsObject(below) -> DeepMerge(v, below, <<>>, FALSE)
      [] OTHER -> v

\* What a value is when its prior lies under it: objects merge.
OverPrior(v, prior, c) == IF IsObject(v) THEN Layered(v, ResolvePrior(prior, c)) ELSE v

\* s names something in below.
NavigatePrior(s, below, c) ==
    CASE IsError(below) -> below
      [] ~IsError(below) /\ Lookup(below, Remainder(s.path, c.field)) # Nil ->
            Lookup(below, Remainder(s.path, c.field))
      [] OTHER -> Unresolved(s, c, "unresolved")

\* S13a.12: ${foo.x} while foo is resolved means x in the value below foo.
PrefixRef(s, c) ==
    IF c.field \in c.guarded
    THEN Unresolved(s, c, "unresolved")
    ELSE NavigatePrior(s, ResolvePrior(FindPrior(c.root, c.field),
                                       [c EXCEPT !.guarded = @ \cup {c.field}]), c)

\* The substitution's path is being resolved: look back, or report a cycle.
Reentered(s, prior, c) ==
    CASE prior # Nil -> ResolveVal(prior, c)
      [] prior = Nil /\ s.optional -> Nil
      [] OTHER -> Error("circular", s.path)

\* The value at the substitution's path holds the substitution itself.
SelfReference(s, prior, c) ==
    IF prior = Nil THEN Unresolved(s, c, "unresolved") ELSE ResolveVal(prior, c)

Found(s, v, c) ==
    IF v = Nil
    THEN ResolvePrior(ParentPrior(c.root, s.path), c)
    ELSE OverPrior(v, FindPrior(c.root, s.path), c)

\* The tree has a value at the substitution's path.
FromTree(s, found, c) ==
    IF s.id \in SubstIds(found)
    THEN SelfReference(s, FindPrior(c.root, s.path), c)
    ELSE Found(s, ResolveVal(found, c), c)

\* os.LookupEnv, for the whole path and then for the path as the included
\* file wrote it.
EnvCandidates(s) ==
    IF s.prefixLen > 0 /\ Len(s.path) > s.prefixLen
    THEN <<s.path, SubSeq(s.path, s.prefixLen + 1, Len(s.path))>>
    ELSE <<s.path>>

FromEnvironment(s, c) ==
    LET names == EnvCandidates(s)
        listed == SelectInSeq(names, LAMBDA p : p \in DOMAIN EnvLists)
        scalar == SelectInSeq(names, LAMBDA p : p \in DOMAIN Env)
        texts == IF listed = 0 THEN <<>> ELSE EnvLists[names[listed]]
    IN  CASE s.list /\ c.useEnv /\ listed # 0 ->
                Array([i \in DOMAIN texts |-> Text(texts[i])])
          [] s.list /\ c.useEnv /\ listed = 0 ->
                IF s.optional THEN Nil ELSE Error("env-list", s.path)
          [] ~s.list /\ c.useEnv /\ scalar # 0 -> Text(Env[names[scalar]])
          [] OTHER -> Unresolved(s, c, "unresolved")

\* found, bare: what the tree has at the path of s, and at the path as the
\* included file wrote it.
LookedUp(s, found, bare, c) ==
    CASE found # Nil -> FromTree(s, found, c)
      [] found = Nil /\ bare # Nil -> ResolveVal(bare, c)
      [] OTHER -> FromEnvironment(s, c)

BarePath(s) == SubSeq(s.path, s.prefixLen + 1, Len(s.path))

ResolveSubst(s, c) ==
    LET deeper == [c EXCEPT !.depth = @ + 1]
        marked == [deeper EXCEPT !.resolving = @ \cup {s.path}]
    IN  CASE c.depth >= MaxDepth -> Runaway(s.path)
          [] c.depth < MaxDepth /\ s.knownAbsent -> Unresolved(s, c, "unresolved")
          [] OTHER ->
             CASE c.field # <<>> /\ IsStrictPrefix(c.field, s.path) -> PrefixRef(s, deeper)
               [] OTHER ->
                  CASE s.path \in DOMAIN c.cache -> c.cache[s.path]
                    [] s.path \notin DOMAIN c.cache /\ s.path \in c.resolving ->
                          Reentered(s, FindPrior(c.root, s.path), deeper)
                    [] OTHER ->
                          LookedUp(s, Lookup(c.root, s.path),
                                   IF s.prefixLen > 0 /\ BarePath(s) # <<>>
                                   THEN Lookup(c.root, BarePath(s))
                                   ELSE Nil,
                                   marked)

\* An array or a concat, vs its resolved items.
OfItems(v, vs, c) ==
    CASE FirstError(vs) # Nil -> FirstError(vs)
      [] FirstError(vs) = Nil /\ v.kind = "array" ->
            Array(SelectSeq(vs, LAMBDA x : x # Nil))
      [] OTHER -> Join(vs, c.lenient)

ResolveVal(v, c) ==
    CASE v.kind = "subst" -> ResolveSubst(v, c)
      [] v.kind = "object" -> ResolveObject(v, c)
      [] v.kind \in {"concat", "array"} -> OfItems(v, ResolveItems(v.items, c), c)
      [] OTHER -> v

\* Mutant: the prior of a field is forgotten.
FinishAlone(v, prior, c) == v

\* finishField: v is what the value of a field resolves to, prior its prior.
Finish(v, prior, c) ==
    IF v = Nil THEN ResolvePrior(prior, c) ELSE OverPrior(v, prior, c)

\* acc is the object built so far or the first error, with the cache that the
\* fields of the root fill.
AddResolved(acc, k, v, isRoot) ==
    CASE IsError(v) -> [acc EXCEPT !.val = v]
      [] v = Nil -> acc
      [] OTHER -> [val |-> Put(acc.val, k, v),
                   cache |-> IF isRoot THEN (<<k>> :> v) @@ acc.cache ELSE acc.cache]

\* resolveSubstitutions: one field.
FieldValue(o, k, c) == Finish(ResolveVal(o.values[k], c), PriorOf(o, k), c)

ResolveField(acc, o, k, c, isRoot) ==
    IF IsError(acc.val)
    THEN acc
    ELSE AddResolved(acc, k,
                     FieldValue(o, k, [c EXCEPT !.field = Append(@, k), !.cache = acc.cache]),
                     isRoot)

ResolveFields(o, c, isRoot) ==
    FoldLeft(LAMBDA acc, k : ResolveField(acc, o, k, c, isRoot),
             [val |-> EmptyObject, cache |-> c.cache], o.keys).val

ResolveObject(o, c) == ResolveFields(o, c, FALSE)

\* ResolveTree: the resolved root, or the error.
Resolve(tree, lenient, useEnv) ==
    ResolveFields(tree,
        [root |-> tree, lenient |-> lenient, useEnv |-> useEnv, cache |-> <<>>,
         resolving |-> {}, field |-> <<>>, guarded |-> {}, depth |-> 0], TRUE)

============================================================================
