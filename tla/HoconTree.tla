----------------------------- MODULE HoconTree -----------------------------
(***************************************************************************)
(* The unresolved value tree of internal/resolver and the algebra on it:   *)
(* what phase 1 (BuildTree) does when a key is assigned again, and what     *)
(* WithFallback does when two trees are merged.  Both keep, beside the      *)
(* value a key has, the value it had before (priorValues), because a        *)
(* substitution that names the key it is assigned to means the value        *)
(* "below" it.                                                              *)
(*                                                                         *)
(* Values are immutable here.  The code shares sub-objects between a value  *)
(* and the prior saved for it and mutates some of them in place (setPath,   *)
(* relativizeVals): TreeHeap runs the same operations on shared memory and  *)
(* shows for which documents the memory holds the trees of this module.     *)
(***************************************************************************)
EXTENDS Integers, Sequences, FiniteSets, SequencesExt, TLC

----------------------------------------------------------------------------
(* Values.  A tagged union of records: scalars, substitutions, concats,     *)
(* arrays and objects.  The raw text of a scalar is a sequence of atoms;    *)
(* sep marks the whitespace the parser puts between concatenated tokens.    *)

Nil == [kind |-> "nil"]

Text(raw) == [kind |-> "scalar", raw |-> raw, sep |-> FALSE]

Space == [kind |-> "scalar", raw |-> <<" ">>, sep |-> TRUE]

Concat(items) == [kind |-> "concat", items |-> items]

Array(items) == [kind |-> "array", items |-> items]

EmptyObject == [kind |-> "object", keys |-> <<>>, values |-> <<>>, prior |-> <<>>]

\* id tells one substPlaceholder from another: it stands for the pointer.
Subst(path, optional) ==
    [kind |-> "subst", path |-> path, optional |-> optional, list |-> FALSE,
     prefixLen |-> 0, knownAbsent |-> FALSE, id |-> <<>>]

IsObject(v) == v.kind = "object"

IsPlaceholder(v) == v.kind \in {"subst", "concat"}

Has(o, k) == k \in DOMAIN o.values

HasPrior(o, k) == k \in DOMAIN o.prior

\* ObjectVal.set: a new key goes last, an old one keeps its place.
Put(o, k, v) ==
    [o EXCEPT !.keys = IF Has(o, k) THEN @ ELSE Append(@, k),
              !.values = (k :> v) @@ @]

PutPrior(o, k, v) == [o EXCEPT !.prior = (k :> v) @@ @]

\* The prior of k, Nil if there is none.
PriorOf(o, k) == IF HasPrior(o, k) THEN o.prior[k] ELSE Nil

\* v is what FoldOrSkip returned: Nil is not saved.
KeepPrior(o, k, v) == IF v = Nil THEN o ELSE PutPrior(o, k, v)

Children(v) ==
    CASE v.kind \in {"concat", "array"} -> ToSet(v.items)
      [] v.kind = "object" -> {v.values[k] : k \in DOMAIN v.values}
      [] OTHER -> {}

\* The walk the folds below share: rebuild v from its rewritten children,
\* keys and priors kept.
Rebuild(v, F(_)) ==
    CASE v.kind \in {"concat", "array"} ->
            [v EXCEPT !.items = [i \in DOMAIN @ |-> F(@[i])]]
      [] v.kind = "object" ->
            [v EXCEPT !.values = [k \in DOMAIN @ |-> F(@[k])]]
      [] OTHER -> v

RECURSIVE HasPlaceholder(_)
HasPlaceholder(v) == IsPlaceholder(v) \/ \E c \in Children(v) : HasPlaceholder(c)

----------------------------------------------------------------------------
(* Self-references (foldselfref.go).  ${key} is one; so is ${key.x}, except *)
(* inside an object literal, where it is looked up in the final tree.       *)

RefersTo(s, key, below) ==
    /\ ~s.knownAbsent
    /\ s.path = key \/ (below /\ IsStrictPrefix(key, s.path))

RECURSIVE SelfRefs(_, _, _)
SelfRefs(v, key, below) ==
    IF v.kind = "subst"
    THEN IF RefersTo(v, key, below) THEN {v} ELSE {}
    ELSE UNION {SelfRefs(c, key, below /\ ~IsObject(v)) : c \in Children(v)}

Opaque == [kind |-> "opaque"]

\* navigateVal: the value at path in v, Nil when there is none, Opaque when
\* a placeholder stands in the way.
RECURSIVE Navigate(_, _)
Navigate(v, path) ==
    CASE path = <<>> -> v
      [] path # <<>> /\ IsPlaceholder(v) -> Opaque
      [] path # <<>> /\ IsObject(v) /\ Has(v, Head(path)) ->
            Navigate(v.values[Head(path)], Tail(path))
      [] OTHER -> Nil

Remainder(path, key) == SubSeq(path, Len(key) + 1, Len(path))

\* nav: what s names in the older value.
FoldPrefix(s, nav) ==
    CASE nav = Opaque -> s
      [] nav = Nil -> [s EXCEPT !.knownAbsent = TRUE]
      [] OTHER -> nav

\* foldSelfRef: put the older value where v refers to key.
RECURSIVE FoldSelfRef(_, _, _, _)
FoldSelfRef(v, key, old, below) ==
    CASE v.kind # "subst" ->
            Rebuild(v, LAMBDA c : FoldSelfRef(c, key, old, below /\ ~IsObject(v)))
      [] v.kind = "subst" /\ ~RefersTo(v, key, below) -> v
      [] v.kind = "subst" /\ RefersTo(v, key, below) /\ v.path = key -> old
      [] OTHER -> FoldPrefix(v, Navigate(old, Remainder(v.path, key)))

\* foldOptionalSelfRefAbsent: there is no older value; an optional
\* self-reference becomes the sentinel that resolves to nothing.
RECURSIVE FoldAbsent(_, _, _)
FoldAbsent(v, key, below) ==
    CASE v.kind # "subst" ->
            Rebuild(v, LAMBDA c : FoldAbsent(c, key, below /\ ~IsObject(v)))
      [] v.kind = "subst" /\ RefersTo(v, key, below) ->
            [v EXCEPT !.knownAbsent = TRUE]
      [] OTHER -> v

\* mergePriorLayers: top over base, nothing saved.
RECURSIVE MergeLayers(_, _)
MergeLayers(base, top) ==
    FoldLeft(LAMBDA o, k :
                IF Has(o, k) /\ IsObject(o.values[k]) /\ IsObject(top.values[k])
                THEN Put(o, k, MergeLayers(o.values[k], top.values[k]))
                ELSE Put(o, k, top.values[k]),
             [base EXCEPT !.prior = top.prior @@ @], top.keys)

\* Mutant: the prior is saved as it is, as before issue 118.
FoldOrSkipRaw(v, key, old) == v

\* A standalone ${key.x} is a layer of its own; nav is what it names in the
\* layers below.
FoldLayer(v, key, old, nav) ==
    CASE nav = Nil /\ v.optional -> old
      [] IsObject(nav) /\ IsObject(old) -> MergeLayers(old, nav)
      [] OTHER -> FoldSelfRef(v, key, old, TRUE)

\* Any other value, with the self-references refs.
FoldRefs(v, key, old, refs) ==
    CASE refs = {} -> v
      [] refs # {} /\ old # Nil -> FoldSelfRef(v, key, old, TRUE)
      [] refs # {} /\ old = Nil /\ (\A s \in refs : s.optional) -> FoldAbsent(v, key, TRUE)
      [] OTHER -> Nil

\* foldOrSkipPrior: what is saved as the prior of key when the value v is
\* replaced, old being the prior v itself had (Nil if none).  Nil: no save.
FoldOrSkip(v, key, old) ==
    IF v.kind = "subst" /\ ~v.knownAbsent /\ old # Nil /\ IsStrictPrefix(key, v.path)
    THEN FoldLayer(v, key, old, Navigate(old, Remainder(v.path, key)))
    ELSE FoldRefs(v, key, old, SelfRefs(v, key, TRUE))

RECURSIVE HasSentinel(_)
HasSentinel(v) ==
    \/ v.kind = "subst" /\ v.knownAbsent
    \/ \E c \in Children(v) : HasSentinel(c)

\* Mutant: the chain of an included file keeps its sentinel.
RehydrateNothing(v, below) == v

RECURSIVE Rehydrate(_, _)
Rehydrate(v, below) ==
    IF v.kind = "subst" /\ v.knownAbsent
    THEN below
    ELSE Rebuild(v, LAMBDA c : Rehydrate(c, below))

\* selfRefFullKey: the path of the first substitution of a concat that ends
\* in key, <<>> if there is none.
RECURSIVE SelfRefPath(_, _)
SelfRefPath(v, key) ==
    CASE v.kind = "subst" /\ Last(v.path) = key -> v.path
      [] v.kind = "concat" ->
            FoldLeft(LAMBDA found, c :
                        IF found # <<>> THEN found ELSE SelfRefPath(c, key),
                     <<>>, v.items)
      [] OTHER -> <<>>

----------------------------------------------------------------------------
(* Merges.                                                                  *)

\* The prior that a self-reference of dst finds is what src has below it.
Stitch(m, dst, k, below) ==
    CASE below = Nil -> m
      [] below # Nil /\ HasPrior(dst, k) -> PutPrior(m, k, Rehydrate(dst.prior[k], below))
      [] OTHER -> PutPrior(m, k, below)

\* The value of k in m stays and shadows the one in src.
Shadow(m, dst, src, k, selfRef) ==
    CASE HasSentinel(m.values[k]) -> Put(m, k, Rehydrate(m.values[k], src.values[k]))
      [] ~HasSentinel(m.values[k]) /\ selfRef # <<>> ->
            Stitch(m, dst, k, FoldOrSkip(src.values[k], selfRef, PriorOf(src, k)))
      [] OTHER -> m

\* One key of src in deepMergeAt; m is the object being built.
RECURSIVE DeepMerge(_, _, _, _)
MergeKey(m, dst, src, k, path, save) ==
    LET sv == src.values[k]
        full == Append(path, k)
        saved == IF save THEN KeepPrior(m, k, FoldOrSkip(sv, full, PriorOf(m, k))) ELSE m
    IN  CASE ~Has(m, k) -> Put(m, k, sv)
          [] Has(m, k) /\ IsObject(m.values[k]) /\ IsObject(sv) ->
                Put(m, k, DeepMerge(m.values[k], sv, full, save))
          [] OTHER -> Shadow(saved, dst, src, k, SelfRefPath(m.values[k], k))

\* deepMergeAt: dst over src; save says whether shadowed values of src are
\* kept as priors.
DeepMerge(dst, src, path, save) ==
    LET merged == FoldLeft(LAMBDA m, k : MergeKey(m, dst, src, k, path, save),
                           dst, src.keys)
    IN  [merged EXCEPT !.prior = @ @@ src.prior]

RECURSIVE MergeUnresolved(_, _)

\* Mutant: no barrier, two objects always merge.
FallbackKeyOpen(m, receiver, k) ==
    CASE ~Has(m, k) -> Put(m, k, receiver.values[k])
      [] Has(m, k) /\ IsObject(receiver.values[k]) /\ IsObject(m.values[k]) ->
            Put(m, k, MergeUnresolved(receiver.values[k], m.values[k]))
      [] OTHER -> Put(KeepPrior(m, k, FoldOrSkip(m.values[k], <<k>>, Nil)), k,
                      receiver.values[k])

\* One key of the receiver in MergeUnresolved.
FallbackKey(m, receiver, k) ==
    LET rv == receiver.values[k]
        existing == m.values[k]
        barrier == HasPrior(receiver, k) /\ ~IsObject(receiver.prior[k])
    IN  CASE ~Has(m, k) -> Put(m, k, rv)
          [] Has(m, k) /\ IsObject(rv) /\ IsObject(existing) ->
                Put(m, k, IF barrier THEN rv ELSE MergeUnresolved(rv, existing))
          [] OTHER -> Put(KeepPrior(m, k, FoldOrSkip(existing, <<k>>, Nil)), k, rv)

\* Mutant: the receiver's priors replace the fallback's, sentinels included.
ReceiverPriorAsIs(m, receiver, k) == receiver.prior[k]

ReceiverPrior(m, receiver, k) ==
    LET v == receiver.prior[k]
    IN  IF HasSentinel(v) /\ HasPrior(m, k) /\ ~HasSentinel(m.prior[k])
        THEN Rehydrate(v, m.prior[k])
        ELSE v

\* MergeUnresolved: receiver over fallback, the fallback's values kept as
\* priors of what the receiver replaces.
MergeUnresolved(receiver, fallback) ==
    LET m == FoldLeft(LAMBDA o, k : FallbackKey(o, receiver, k),
                      fallback, receiver.keys)
    IN  [m EXCEPT !.prior =
            [k \in DOMAIN receiver.prior |-> ReceiverPrior(m, receiver, k)] @@ @]

RECURSIVE Relativize(_, _, _)

\* Mutant: the priors of an included document keep their paths.
RelativizeValues(v, prefix, copy) ==
    IF v.kind = "subst"
    THEN [v EXCEPT !.path = prefix \o @, !.prefixLen = @ + Len(prefix),
                   !.id = Append(@, copy)]
    ELSE Rebuild(v, LAMBDA c : Relativize(c, prefix, copy))

\* relativizeVals: the substitutions of a document included under prefix
\* name paths below prefix first.  Values and priors get new placeholders.
Relativize(v, prefix, copy) ==
    CASE v.kind = "subst" ->
            [v EXCEPT !.path = prefix \o @, !.prefixLen = @ + Len(prefix),
                      !.id = Append(@, copy)]
      [] v.kind = "object" ->
            [v EXCEPT !.values = [k \in DOMAIN @ |-> Relativize(@[k], prefix, copy)],
                      !.prior = [k \in DOMAIN @ |-> Relativize(@[k], prefix, copy + 1)]]
      [] OTHER -> Rebuild(v, LAMBDA c : Relativize(c, prefix, copy))

============================================================================
