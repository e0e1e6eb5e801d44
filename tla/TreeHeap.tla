------------------------------ MODULE TreeHeap ------------------------------
(***************************************************************************)
(* Phase 1 in memory.  In the code an object and an array are pointers: a   *)
(* merge and a fold make new ones that share what they do not change, while *)
(* setPath and relativizeVals write into the ones they find.  Here a cell   *)
(* holds the contents of an object or an array, a value of HoconTree stands *)
(* for the other kinds, and the same fields are read as in BuildTree.       *)
(***************************************************************************)
EXTENDS BuildTree

VARIABLE memory

(* A heap is a record: cells, the contents by location; prior, the          *)
(* priorValues of the resolver; made, the number of placeholders; moved,    *)
(* the cells a relativizeVals has rewritten so far; and two ghosts: wrote   *)
(* says that a cell which a prior can reach was written by setPath, twice    *)
(* that a relativizeVals has rewritten one cell more than once.             *)

EmptyHeap ==
  [cells |-> <<>>, prior |-> <<>>, made |-> 0, moved |-> {}, wrote |-> FALSE, twice |-> FALSE]

Loc(n) == [kind |-> "loc", at |-> n]
Cell(h, v) == IF v.kind = "loc" THEN h.cells[v.at] ELSE v
BothObjects(h, v, w) == IsObject(Cell(h, v)) /\ IsObject(Cell(h, w))

\* What an operation leaves and returns.
Give(h, v) == [h |-> h, v |-> v]
New(h, contents) == Give([h EXCEPT !.cells = Append(@, contents)], Loc(Len(h.cells) + 1))
Write(h, v, contents) == [h EXCEPT !.cells[v.at] = contents]

\* What r returns goes into the key k of the contents o, as a value or as a prior.
Placed(o, k, r) == Give(r.h, Put(o, k, r.v))
Kept(o, k, r) == Give(r.h, KeepPrior(o, k, r.v))

\* A container is made of the contents that r returns; a concat is a value.
Anew(r) == IF r.v.kind = "concat" THEN r ELSE New(r.h, r.v)

\* The values of f, one after the other.
Swapped(f, k, r) == Give(r.h, [f EXCEPT ![k] = r.v])
EachOf(h, f, order, F(_, _)) ==
  FoldLeft(LAMBDA acc, k : Swapped(acc.v, k, F(acc.h, acc.v[k])), Give(h, f), order)

\* The children of the contents c, in their order, and the priors.
Refilled(c, r) == Give(r.h, IF IsObject(c) THEN [c EXCEPT !.values = r.v] ELSE [c EXCEPT !.items = r.v])
Inside(h, c, F(_, _)) ==
  Refilled(c, IF IsObject(c) THEN EachOf(h, c.values, c.keys, F)
              ELSE EachOf(h, c.items, [i \in DOMAIN c.items |-> i], F))
Behind(r, F(_, _)) ==
  LET Priors(p) == Give(p.h, [r.v EXCEPT !.prior = p.v])
  IN Priors(EachOf(r.h, r.v.prior, SetToSeq(DOMAIN r.v.prior), F))

\* The tree a value stands for.
RECURSIVE Read(_, _)
Read(h, v) ==
  LET tree == Rebuild(Cell(h, v), LAMBDA x : Read(h, x))
  IN IF IsObject(tree) THEN [tree EXCEPT !.prior = [k \in DOMAIN @ |-> Read(h, @[k])]] ELSE tree

\* The cells that v leads to, priors included.
RECURSIVE Reach(_, _)
Reach(h, v) ==
  LET c == Cell(h, v)
      next == Children(c) \cup IF IsObject(c) THEN Range(c.prior) ELSE {}
  IN (IF v.kind = "loc" THEN {v.at} ELSE {}) \cup UNION {Reach(h, x) : x \in next}

HeldByPriors(h) ==
  LET priors == Range(h.prior)
        \cup UNION {Range(h.cells[n].prior) : n \in {m \in DOMAIN h.cells : IsObject(h.cells[m])}}
  IN UNION {Reach(h, v) : v \in priors}

-----------------------------------------------------------------------------
(* foldselfref.go.  The three folds put something in the place of some      *)
(* substitutions: the older value, nothing, or what a sentinel waits for.   *)

Older(key, old) == [with |-> "older", key |-> key, old |-> old]
Nothing(key) == [with |-> "nothing", key |-> key]
Awaited(old) == [with |-> "awaited", old |-> old]

Meant(fold, s, below) ==
  IF fold.with = "awaited" THEN s.knownAbsent ELSE RefersTo(s, fold.key, below)

RECURSIVE Follow(_, _, _)
Follow(h, v, path) ==
  LET c == Cell(h, v) IN
  CASE path = <<>> -> v
    [] path # <<>> /\ IsPlaceholder(c) -> Opaque
    [] path # <<>> /\ IsObject(c) /\ Has(c, Head(path)) -> Follow(h, c.values[Head(path)], Tail(path))
    [] OTHER -> Nil

Instead(h, fold, s) ==
  CASE fold.with = "awaited" \/ (fold.with = "older" /\ s.path = fold.key) -> fold.old
    [] fold.with = "nothing" -> [s EXCEPT !.knownAbsent = TRUE]
    [] OTHER -> FoldPrefix(s, Follow(h, fold.old, Remainder(s.path, fold.key)))

RECURSIVE Occurs(_, _, _, _)
Occurs(h, fold, v, below) ==
  LET c == Cell(h, v) IN
  IF c.kind = "subst" THEN Meant(fold, c, below)
  ELSE \E x \in Children(c) : Occurs(h, fold, x, below /\ ~IsObject(c))

\* A container is made anew where something in it is replaced, and always by
\* the fold to nothing.
Untouched(h, fold, v, below) ==
  Cell(h, v).kind = "scalar" \/ (fold.with # "nothing" /\ ~Occurs(h, fold, v, below))

RECURSIVE Fold(_, _, _, _)

\* Mutant: the older value is put where it is referred to, and not in a copy.
FoldInPlace(h, fold, v, below) ==
  LET c == Cell(h, v)
      Over(r) == IF c.kind = "concat" THEN r ELSE Give(Write(r.h, v, r.v), v)
  IN CASE c.kind = "subst" -> Give(h, IF Meant(fold, c, below) THEN Instead(h, fold, c) ELSE c)
       [] c.kind # "subst" /\ Untouched(h, fold, v, below) -> Give(h, v)
       [] OTHER -> Over(Inside(h, c, LAMBDA g, x : Fold(g, fold, x, below /\ ~IsObject(c))))

Fold(h, fold, v, below) ==
  LET c == Cell(h, v) IN
  CASE c.kind = "subst" -> Give(h, IF Meant(fold, c, below) THEN Instead(h, fold, c) ELSE c)
    [] c.kind # "subst" /\ Untouched(h, fold, v, below) -> Give(h, v)
    [] OTHER -> Anew(Inside(h, c, LAMBDA g, x : Fold(g, fold, x, below /\ ~IsObject(c))))

\* mergePriorLayers
RECURSIVE MergeLayersIn(_, _, _)
MergeLayersIn(h, base, top) ==
  LET t == Cell(h, top)
      Add(acc, k) ==
        Placed(acc.v, k,
               IF Has(acc.v, k) /\ BothObjects(acc.h, acc.v.values[k], t.values[k])
               THEN MergeLayersIn(acc.h, acc.v.values[k], t.values[k])
               ELSE Give(acc.h, t.values[k]))
  IN Anew(FoldLeft(Add, Give(h, [Cell(h, base) EXCEPT !.prior = t.prior @@ @]), t.keys))

\* foldOrSkipPrior.  A substitution into its own key takes the part of the
\* older value that it names: nav.
FoldOrSkipIn(h, v, key, old) ==
  LET refs == SelfRefs(Read(h, v), key, TRUE)
      nav == Follow(h, old, Remainder(v.path, key))
      into == v.kind = "subst" /\ ~v.knownAbsent /\ old # Nil /\ IsStrictPrefix(key, v.path)
  IN CASE into /\ nav = Nil /\ v.optional -> Give(h, old)
       [] into /\ nav \notin {Nil, Opaque} /\ BothObjects(h, nav, old) -> MergeLayersIn(h, old, nav)
       [] old = Nil /\ (\E s \in refs : ~s.optional) -> Give(h, Nil)
       [] OTHER -> Fold(h, IF old = Nil /\ refs # {} THEN Nothing(key) ELSE Older(key, old), v, TRUE)

-----------------------------------------------------------------------------
(* deepMergeAt.  While it is being built an object is its contents.         *)

StitchIn(acc, d, k, below) ==
  IF below.v = Nil THEN acc
  ELSE Kept(acc.v, k, IF HasPrior(d, k) THEN Fold(below.h, Awaited(below.v), d.prior[k], TRUE)
                      ELSE below)

ShadowIn(acc, d, s, k) ==
  LET tree == Read(acc.h, acc.v.values[k])
      selfRef == SelfRefPath(tree, k)
  IN CASE HasSentinel(tree) ->
            Placed(acc.v, k, Fold(acc.h, Awaited(s.values[k]), acc.v.values[k], TRUE))
       [] ~HasSentinel(tree) /\ selfRef # <<>> ->
            StitchIn(acc, d, k, FoldOrSkipIn(acc.h, s.values[k], selfRef, PriorOf(s, k)))
       [] OTHER -> acc

RECURSIVE DeepMergeIn(_, _, _, _)
MergeKeyIn(acc, d, s, k, full) ==
  CASE ~Has(acc.v, k) -> Give(acc.h, Put(acc.v, k, s.values[k]))
    [] Has(acc.v, k) /\ BothObjects(acc.h, acc.v.values[k], s.values[k]) ->
         Placed(acc.v, k, DeepMergeIn(acc.h, acc.v.values[k], s.values[k], full))
    [] OTHER ->
         ShadowIn(Kept(acc.v, k, FoldOrSkipIn(acc.h, s.values[k], full, PriorOf(acc.v, k))), d, s, k)

MergedIn(h, d, s, path) ==
  LET Inherit(m) == Give(m.h, [m.v EXCEPT !.prior = @ @@ s.prior])
  IN Inherit(FoldLeft(LAMBDA acc, k : MergeKeyIn(acc, d, s, k, Append(path, k)), Give(h, d), s.keys))

\* Mutant: the older object is merged into, and not into a new one.
DeepMergeInPlace(h, dst, src, path) ==
  LET m == MergedIn(h, Cell(h, dst), Cell(h, src), path) IN Give(Write(m.h, src, m.v), src)

DeepMergeIn(h, dst, src, path) == Anew(MergedIn(h, Cell(h, dst), Cell(h, src), path))

-----------------------------------------------------------------------------
(* resolveObject, setPath and includes, on the object at a location         *)

SaveIn(h, at, k, full, prior, scoped) ==
  IF prior = Nil THEN h
  ELSE [Write(h, at, PutPrior(Cell(h, at), k, prior))
          EXCEPT !.prior = IF scoped THEN (full :> prior) @@ @ ELSE @]

\* The key k gets the value and, if there is one, the prior that r returns.
Replace(at, k, value, full, scoped, r) ==
  SaveIn(Write(r.h, at, Put(Cell(r.h, at), k, value)), at, k, full, r.v, scoped)

\* m: the value, merged with the existing one.
Restore(at, k, existing, full, old, m) ==
  Replace(at, k, m.v, full, TRUE, FoldOrSkipIn(m.h, existing, full, old))

StoreIn(h, at, k, value, full, old) ==
  LET o == Cell(h, at) IN
  IF ~Has(o, k) THEN Write(h, at, Put(o, k, value))
  ELSE Restore(at, k, o.values[k], full, old,
               IF BothObjects(h, o.values[k], value) THEN DeepMergeIn(h, value, o.values[k], full)
               ELSE Give(h, value))

\* The object that a path leads into is written where it is.
Enter(h, v) == [h EXCEPT !.wrote = @ \/ v.at \in HeldByPriors(h)]

\* At the end of a path: k is its last key.
EndIn(h, at, k, value, full) ==
  StoreIn(h, at, k, value, full,
          IF full \in DOMAIN h.prior THEN h.prior[full] ELSE PriorOf(Cell(h, at), k))

\* The next object of the path is a new one, with the contents new.
Opened(at, k, r) == Give(Write(r.h, at, Put(Cell(r.h, at), k, r.v)), r.v)

RECURSIVE SetPathIn(_, _, _, _, _)
SetPathIn(h, at, path, value, full) ==
  LET o == Cell(h, at)
      k == Head(path)
      Inner(r) == SetPathIn(r.h, r.v, Tail(path), value, full)
  IN IF Len(path) = 1 THEN EndIn(h, at, k, value, full)
     ELSE Inner(IF Has(o, k) /\ IsObject(Cell(h, o.values[k])) THEN Give(Enter(h, o.values[k]), o.values[k])
                ELSE Opened(at, k, New(h, EmptyObject)))

Rewritten(v, r) ==
  Give([Write(r.h, v, r.v) EXCEPT !.moved = @ \cup {v.at}, !.twice = @ \/ v.at \in r.h.moved], v)

\* relativizeVals: placeholders and concats are new, containers are not.
RECURSIVE RelativizeIn(_, _, _)
RelativizeIn(h, v, prefix) ==
  LET c == Cell(h, v)
      Inner(g, x) == RelativizeIn(g, x, prefix)
  IN CASE c.kind = "subst" ->
            Give([h EXCEPT !.made = @ + 1],
                 [c EXCEPT !.path = prefix \o @, !.prefixLen = @ + Len(prefix), !.id = <<h.made>>])
       [] c.kind = "concat" -> Inside(h, c, Inner)
       [] c.kind = "array" -> Rewritten(v, Inside(h, c, Inner))
       [] c.kind = "object" -> Rewritten(v, Behind(Inside(h, c, Inner), Inner))
       [] OTHER -> Give(h, v)

\* The prior of an included key on top of what the parent had: shadowed.
StitchedIn(chain, shadowed, full, old) ==
  CASE chain = Nil -> shadowed
    [] chain # Nil /\ shadowed.v # Nil -> Fold(shadowed.h, Awaited(shadowed.v), chain, TRUE)
    [] OTHER -> FoldOrSkipIn(shadowed.h, chain, full, old)

\* The value of a key that the parent o and the included object inc both have.
JoinedIn(h, existing, iv, full) ==
  CASE BothObjects(h, existing, iv) -> DeepMergeIn(h, iv, existing, full)
    [] ~BothObjects(h, existing, iv) /\ HasSentinel(Read(h, iv)) -> Fold(h, Awaited(existing), iv, TRUE)
    [] OTHER -> Give(h, iv)

IncludeOverIn(h, at, k, inc, full) ==
  LET o == Cell(h, at)
      existing == o.values[k]
      Prior(shadowed) ==
        IF BothObjects(h, existing, inc.values[k]) THEN shadowed
        ELSE StitchedIn(PriorOf(inc, k), shadowed, full, PriorOf(o, k))
      With(prior, r) == Replace(at, k, r.v, full, Len(full) = 1, Give(r.h, prior.v))
      Joined(prior) == With(prior, JoinedIn(prior.h, existing, inc.values[k], full))
  IN Joined(Prior(FoldOrSkipIn(h, existing, full, PriorOf(o, k))))

IncludeNewIn(h, at, k, inc, full) ==
  Replace(at, k, inc.values[k], full, Len(full) = 1,
          IF HasPrior(inc, k) THEN FoldOrSkipIn(h, inc.prior[k], full, PriorOf(Cell(h, at), k))
          ELSE Give(h, Nil))

IncludeKeyIn(h, at, k, inc, full) ==
  IF Has(Cell(h, at), k) THEN IncludeOverIn(h, at, k, inc, full) ELSE IncludeNewIn(h, at, k, inc, full)

IncludeIn(at, path, child) ==
  FoldLeft(LAMBDA g, k : IncludeKeyIn(g, at, k, Cell(g, child.v), Append(path, k)),
           child.h, Cell(child.h, child.v).keys)

\* An included source is relativized under the path it is mounted at.
MountedIn(path, child) ==
  IF path = <<>> THEN child ELSE RelativizeIn([child.h EXCEPT !.moved = {}], child.v, path)

RECURSIVE AddFieldIn(_, _, _, _)
RECURSIVE NodeIn(_, _, _)

Fill(fields, path, new) ==
  Give(FoldLeft(LAMBDA g, f : AddFieldIn(g, new.v, f, path), new.h, fields), new.v)
BuildIn(h, fields, path) == Fill(fields, path, New(h, EmptyObject))

NodeIn(h, n, path) ==
  CASE n.kind = "subst" -> Give([h EXCEPT !.made = @ + 1], [n EXCEPT !.id = <<h.made>>])
    [] n.kind = "fields" -> BuildIn(h, n.fields, path)
    [] n.kind \in {"concat", "array"} -> Anew(Inside(h, n, LAMBDA g, x : NodeIn(g, x, path)))
    [] OTHER -> Give(h, n)

\* An included source has a resolver, and priors, of its own.
SourceIn(h, fields) ==
  LET Leave(child) == Give([child.h EXCEPT !.prior = h.prior], child.v)
  IN Leave(BuildIn([h EXCEPT !.prior = <<>>], fields, <<>>))

\* n: the value of an assignment.
ValueIn(at, key, path, n) ==
  LET full == Append(path, Head(key)) IN
  IF Len(key) = 1
  THEN StoreIn(n.h, at, key[1], n.v, full, IF full \in DOMAIN n.h.prior THEN n.h.prior[full] ELSE Nil)
  ELSE SetPathIn(n.h, at, key, n.v, key)

AddFieldIn(h, at, f, path) ==
  CASE f.kind = "include" -> IncludeIn(at, path, MountedIn(path, SourceIn(h, f.fields)))
    [] f.kind = "append" -> AddFieldIn(h, at, Desugared(f, path), path)
    [] OTHER -> ValueIn(at, f.key, path, NodeIn(h, f.value, path \o f.key))

-----------------------------------------------------------------------------
Root == Loc(1)

HeapInit == Init /\ memory = New(EmptyHeap, EmptyObject).h

\* The next field, read into memory as it is read into the tree.
HeapNext ==
  /\ Written < MaxFields
  /\ Assign(1) \/ IncludeDocument(1)
  /\ memory' = AddFieldIn(memory, Root, Last(docs'[1]), <<>>)

HeapSpec == HeapInit /\ [][HeapNext]_<<vars, memory>>
=============================================================================
