----------------------------- MODULE BuildTree -----------------------------
(***************************************************************************)
(* Phase 1 of internal/resolver: a document, field by field, becomes an     *)
(* unresolved tree.  The state machine grows two documents one field at a   *)
(* time, the receiver and the fallback of a WithFallback, exactly as the    *)
(* loop of resolveObject reads them; every reachable state is a document    *)
(* the program can be given, and its tree the one BuildTree makes of it.    *)
(*                                                                         *)
(* A field assigns a value to a key path, or includes another document.     *)
(* Which source an include names and whether it can be read is the subject  *)
(* of IncludeExpansion; here an include field carries the fields it brings. *)
(***************************************************************************)
EXTENDS ResolveTree

CONSTANTS
    Fields,     \* the fields a document may be written with
    MaxFields   \* bound on the fields of the two documents together

VARIABLES
    docs,       \* the fields written so far, one sequence per document
    trees       \* what BuildTree has made of each

vars == <<docs, trees>>

----------------------------------------------------------------------------
(* The AST.  Nodes are the values of HoconTree, and object literals.        *)

Assignment(key, value) == [kind |-> "assign", key |-> key, value |-> value]

\* key += value
Appending(key, value) == [kind |-> "append", key |-> key, value |-> value]

Include(fields) == [kind |-> "include", fields |-> fields]

ObjectNode(fields) == [kind |-> "fields", fields |-> fields]

----------------------------------------------------------------------------
(* The resolver of phase 1: its priorValues, by full path, and the number   *)
(* of placeholders made so far, which gives each its identity.              *)

NewResolver(made) == [prior |-> <<>>, made |-> made]

\* The prior of the path full, Nil if there is none.
OldPrior(r, full) == IF full \in DOMAIN r.prior THEN r.prior[full] ELSE Nil

\* Record prior for the key k of the object in b and, when full is a path
\* the resolver itself keeps, for that path.
SavePrior(b, k, full, prior, scoped) ==
    IF prior = Nil
    THEN b
    ELSE [b EXCEPT !.val = PutPrior(@, k, prior),
                   !.r.prior = IF scoped THEN (full :> prior) @@ @ ELSE @]

\* One assignment to the key k of the object in b: objects merge, and what
\* was there is saved as the prior.
Merged(value, existing, full) ==
    IF IsObject(existing) /\ IsObject(value)
    THEN DeepMerge(value, existing, full, TRUE)
    ELSE value

Store(b, k, value, full, old) ==
    IF Has(b.val, k)
    THEN [SavePrior(b, k, full, FoldOrSkip(b.val.values[k], full, old), TRUE)
             EXCEPT !.val = Put(@, k, Merged(value, b.val.values[k], full))]
    ELSE [b EXCEPT !.val = Put(@, k, value)]

\* Mutant: a path starts a new object.
ChildNew(o, k) == EmptyObject

\* The object that a path through the key k of o leads into.
Child(o, k) == IF Has(o, k) /\ IsObject(o.values[k]) THEN o.values[k] ELSE EmptyObject

\* setPath: full is the key as the field writes it, without the path of the
\* enclosing objects.
RECURSIVE SetPath(_, _, _, _)
SetPath(b, path, value, full) ==
    LET k == Head(path)
        old == IF full \in DOMAIN b.r.prior THEN b.r.prior[full] ELSE PriorOf(b.val, k)
        inner == SetPath([b EXCEPT !.val = Child(@, k)], Tail(path), value, full)
    IN  IF Len(path) = 1
        THEN Store(b, k, value, full, old)
        ELSE [inner EXCEPT !.val = Put(b.val, k, @)]

\* The prior of an included key on top of what the parent had: its own chain
\* put on top of the parent's value.
Stitched(inclPrior, shadowed, full, old) ==
    CASE inclPrior = Nil -> shadowed
      [] inclPrior # Nil /\ shadowed # Nil -> Rehydrate(inclPrior, shadowed)
      [] OTHER -> FoldOrSkip(inclPrior, full, old)

\* The parent has a value for k; shadowed is its prior once it is replaced.
IncludeOver(b, k, included, full, shadowed) ==
    LET iv == included.values[k]
        existing == b.val.values[k]
        prior == IF IsObject(existing) /\ IsObject(iv)
                 THEN shadowed
                 ELSE Stitched(PriorOf(included, k), shadowed, full, PriorOf(b.val, k))
        value == IF ~IsObject(iv) \/ ~IsObject(existing)
                 THEN IF HasSentinel(iv) THEN Rehydrate(iv, existing) ELSE iv
                 ELSE DeepMerge(iv, existing, full, TRUE)
    IN  [SavePrior(b, k, full, prior, Len(full) = 1) EXCEPT !.val = Put(@, k, value)]

\* The parent has none.
IncludeNew(b, k, included, full) ==
    LET prior == IF HasPrior(included, k)
                 THEN FoldOrSkip(included.prior[k], full, PriorOf(b.val, k))
                 ELSE Nil
    IN  [SavePrior(b, k, full, prior, Len(full) = 1)
            EXCEPT !.val = Put(@, k, included.values[k])]

\* One key of an included document, merged as if written in place.
IncludeKey(b, k, included, path) ==
    LET full == Append(path, k)
    IN  IF Has(b.val, k)
        THEN IncludeOver(b, k, included, full,
                         FoldOrSkip(b.val.values[k], full, PriorOf(b.val, k)))
        ELSE IncludeNew(b, k, included, full)

----------------------------------------------------------------------------
(* resolveObject and resolveNode.  b pairs the value being built with the   *)
(* resolver.                                                                *)

RECURSIVE AddField(_, _, _)
RECURSIVE Node(_, _, _)

BuildObject(fields, r, path) ==
    FoldLeft(LAMBDA b, f : AddField(b, f, path), [val |-> EmptyObject, r |-> r], fields)

\* The elements of an array or a concat, in order.
NodeItem(b, n, path) ==
    LET item == Node(n, b.r, path)
    IN  [b EXCEPT !.val.items = Append(@, item.val), !.r = item.r]

Node(n, r, path) ==
    CASE n.kind = "subst" ->
            [val |-> [n EXCEPT !.id = <<r.made>>], r |-> [r EXCEPT !.made = @ + 1]]
      [] n.kind = "fields" -> BuildObject(n.fields, r, path)
      [] n.kind \in {"array", "concat"} ->
            FoldLeft(LAMBDA b, item : NodeItem(b, item, path),
                     [val |-> [n EXCEPT !.items = <<>>], r |-> r], n.items)
      [] OTHER -> [val |-> n, r |-> r]

\* AppendToConcat: key += value is key = ${?key} [value].
Desugared(f, path) ==
    Assignment(f.key, Concat(<<Subst(path \o f.key, TRUE), Array(<<f.value>>)>>))

\* The fields of the included tree, after those of b.
AddIncluded(b, included, made, path) ==
    FoldLeft(LAMBDA acc, k : IncludeKey(acc, k, included, path),
             [b EXCEPT !.r.made = made], included.keys)

\* child: what BuildTree makes of an included source.
AddChild(b, child, path) ==
    AddIncluded(b,
                IF path = <<>> THEN child.val ELSE Relativize(child.val, path, 0),
                child.r.made, path)

\* n: what resolveNode makes of the value of an assignment.
AddValue(b, key, n, path) ==
    LET full == Append(path, Head(key))
        at == [b EXCEPT !.r = n.r]
    IN  IF Len(key) = 1
        THEN Store(at, Head(key), n.val, full, OldPrior(n.r, full))
        ELSE SetPath(at, key, n.val, key)

AddField(b, f, path) ==
    CASE f.kind = "append" -> AddField(b, Desugared(f, path), path)
      [] f.kind = "include" ->
            AddChild(b, BuildObject(f.fields, NewResolver(b.r.made), <<>>), path)
      [] OTHER -> AddValue(b, f.key, Node(f.value, b.r, path \o f.key), path)

----------------------------------------------------------------------------

EmptyDocument(d) == [val |-> EmptyObject, r |-> NewResolver(1000 * d)]

Init ==
    /\ docs = << <<>>, <<>> >>
    /\ trees = <<EmptyDocument(1), EmptyDocument(2)>>

Written == Len(docs[1]) + Len(docs[2])

\* The next field of document d: an assignment.
Assign(d) ==
    \E f \in Fields :
        /\ f.kind # "include"
        /\ docs' = [docs EXCEPT ![d] = Append(@, f)]
        /\ trees' = [trees EXCEPT ![d] = AddField(@, f, <<>>)]

\* The next field of document d: an include, expanded where it stands.
IncludeDocument(d) ==
    \E f \in Fields :
        /\ f.kind = "include"
        /\ docs' = [docs EXCEPT ![d] = Append(@, f)]
        /\ trees' = [trees EXCEPT ![d] = AddField(@, f, <<>>)]

\* The receiver is written first, the fallback after it.
Next ==
    \E d \in 1..2 :
        /\ Written < MaxFields
        /\ d = 1 => docs[2] = <<>>
        /\ Assign(d) \/ IncludeDocument(d)

Spec == Init /\ [][Next]_vars

Receiver == trees[1].val

Fallback == trees[2].val

============================================================================
