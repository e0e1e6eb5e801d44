-------------------------- MODULE DocumentMeaning --------------------------
(***************************************************************************)
(* What a document means, without trees, priors, folding or caches: the     *)
(* text is read as a stack of layers per key, the last written on top, and  *)
(*                                                                         *)
(*   - a key has the value of its topmost layer, or of the next one if that *)
(*     layer denotes nothing; objects merge with what lies below them;      *)
(*   - a substitution that names the key of the layer it is written in      *)
(*     means the layers below that one; any other names the whole stack;    *)
(*   - a required substitution of nothing is an error.                      *)
(*                                                                         *)
(* It is stated for flat documents, whose keys are single names, and is     *)
(* the reference that the two phases of the resolver are checked against.   *)
(***************************************************************************)
EXTENDS BuildTree

AsAssignment(f, path) == IF f.kind = "append" THEN Desugared(f, path) ELSE f

\* The fields of a document, includes written out and += desugared.
RECURSIVE WrittenOut(_)
WrittenOut(doc) ==
    FlattenSeq([i \in DOMAIN doc |->
        IF doc[i].kind = "include"
        THEN WrittenOut(doc[i].fields)
        ELSE <<AsAssignment(doc[i], <<>>)>>])

LayersOf(doc, key) == {i \in DOMAIN doc : doc[i].key = key}

\* The values of keys in doc, read from layer n down: Meaning of a key,
\* Denotation of a node written in layer i.
RECURSIVE Meaning(_, _, _)
RECURSIVE Denotation(_, _, _)

\* A required reference to a key all of whose layers denote nothing is an
\* error here; the code drops such a field in silence (see the README).
Referent(doc, s, i) ==
    LET key == <<Head(s.path)>>
        whole == IF key = doc[i].key THEN Meaning(doc, key, i - 1)
                                     ELSE Meaning(doc, key, Len(doc))
        v == IF IsError(whole) THEN whole ELSE Lookup(whole, Tail(s.path))
    IN  CASE v # Nil -> v
          [] v = Nil /\ LayersOf(doc, key) = {} /\ s.path \in DOMAIN Env -> Text(Env[s.path])
          [] v = Nil /\ s.optional -> Nil
          [] OTHER -> Error("unresolved", s.path)

ObjectDenotation(doc, fields, i) ==
    LET vs == [j \in DOMAIN fields |->
                  Denotation(doc, AsAssignment(fields[j], doc[i].key).value, i)]
        Add(o, j) == IF vs[j] = Nil THEN o ELSE Put(o, Last(fields[j].key), vs[j])
    IN  IF FirstError(vs) # Nil
        THEN FirstError(vs)
        ELSE FoldLeft(Add, EmptyObject, [j \in DOMAIN fields |-> j])

Denotation(doc, n, i) ==
    LET vs == [j \in DOMAIN n.items |-> Denotation(doc, n.items[j], i)]
    IN  CASE n.kind = "subst" -> Referent(doc, n, i)
          [] n.kind = "fields" -> ObjectDenotation(doc, n.fields, i)
          [] n.kind \in {"array", "concat"} ->
                CASE FirstError(vs) # Nil -> FirstError(vs)
                  [] FirstError(vs) = Nil /\ n.kind = "array" ->
                        Array(SelectSeq(vs, LAMBDA v : v # Nil))
                  [] OTHER -> Join(vs, FALSE)
          [] OTHER -> n

Over(v, below) ==
    CASE IsObject(v) /\ IsError(below) -> below
      [] IsObject(v) /\ IsObject(below) -> MergeConcat(below, v)
      [] OTHER -> v

Meaning(doc, key, n) ==
    LET layers == {i \in LayersOf(doc, key) : i <= n}
        top == Max(layers)
        v == Denotation(doc, doc[top].value, top)
    IN  CASE layers = {} -> Nil
          [] layers # {} /\ v = Nil -> Meaning(doc, key, top - 1)
          [] layers # {} /\ IsObject(v) -> Over(v, Meaning(doc, key, top - 1))
          [] OTHER -> v

\* Plain data: what a caller can tell apart in a resolved value.
RECURSIVE Plain(_)
Plain(v) ==
    CASE IsObject(v) -> [kind |-> "object",
                         values |-> [k \in DOMAIN v.values |-> Plain(v.values[k])]]
      [] v.kind = "array" -> Rebuild(v, Plain)
      [] v.kind = "error" -> [kind |-> "error"]
      [] OTHER -> v

DocumentMeaning(doc) ==
    LET d == WrittenOut(doc)
        meanings == [k \in {Head(d[i].key) : i \in DOMAIN d} |-> Meaning(d, <<k>>, Len(d))]
        present == {k \in DOMAIN meanings : meanings[k] # Nil}
    IN  IF \E k \in DOMAIN meanings : IsError(meanings[k])
        THEN [kind |-> "error"]
        ELSE [kind |-> "object", values |-> [k \in present |-> Plain(meanings[k])]]

----------------------------------------------------------------------------
(* Documents told apart by how their layers are stacked.                    *)

Flat(doc) == \A i \in DOMAIN doc : Len(doc[i].key) = 1

Overwritten(doc, i) == \E j \in DOMAIN doc : j > i /\ doc[j].key = doc[i].key

IsObjectField(f) == f.value.kind = "fields"

\* The references of field f to its own key.
OwnRefs(f) == IF IsObjectField(f) THEN {} ELSE SelfRefs(f.value, f.key, TRUE)

\* Whatever lies below an overwritten layer is part of the prior that is
\* saved for it.  The code keeps one prior per key, not the stack: it loses
\* what is below a layer that denotes nothing, below an object over another
\* value that is not written as one, and below a reference into a value that
\* is not an object yet.
OnePriorDeep(doc) ==
    \A i \in DOMAIN doc :
        LET below == {j \in LayersOf(doc, doc[i].key) : j < i}
        IN  (Overwritten(doc, i) /\ below # {}) =>
                /\ Denotation(doc, doc[i].value, i) # Nil
                /\ (IsObject(Denotation(doc, doc[i].value, i)) /\ OwnRefs(doc[i]) = {})
                       => \A j \in below \cup {i} : IsObjectField(doc[j])
                /\ (\E s \in OwnRefs(doc[i]) : s.path # doc[i].key)
                       => IsObjectField(doc[Max(below)])

\* The tree of doc stands for the document although what lies below it is
\* not known: an overwritten field refers to its own key by ${?key} only, so
\* that its prior can be kept, and a key that is an object somewhere is an
\* object everywhere.
Deferrable(doc) ==
    /\ \A i \in DOMAIN doc :
          Overwritten(doc, i) =>
              \A s \in OwnRefs(doc[i]) : s.optional /\ s.path = doc[i].key
    /\ \A i, j \in DOMAIN doc :
          (IsPrefix(doc[i].key, doc[j].key) /\ i # j)
              => (IsObjectField(doc[i]) <=> (IsObjectField(doc[j]) \/ doc[i].key # doc[j].key))

\* A path a.b is only assigned where a is an object or has no value yet:
\* setPath forgets any other value of a.
OntoObjects(doc) ==
    \A i \in DOMAIN doc : \A j \in 1..(i - 1) :
        IsStrictPrefix(doc[j].key, doc[i].key) => IsObjectField(doc[j])

\* Every key is assigned once, and not in terms of itself.
SingleLayer(doc) == \A i \in DOMAIN doc : ~Overwritten(doc, i) /\ OwnRefs(doc[i]) = {}

============================================================================
