----------------------------- MODULE MCTreeHeap -----------------------------
(***************************************************************************)
(* Documents whose objects nest, for TLC, and what memory must satisfy.     *)
(***************************************************************************)
EXTENDS TreeHeap, DocumentMeaning

Word(w) == Text(<<w>>)
Object(key, value) == ObjectNode(<<Assignment(<<key>>, value)>>)
KeyA == <<"a">>

Literals ==
  {Object("s", Object("x", Word("1"))),
   Object("s", Object("y", Word("2"))),
   Object("t", Word("3")),
   Object("h", Subst(KeyA, FALSE)),
   Object("s", Object("h", Subst(KeyA, FALSE))),
   Object("s", Object("r", Subst(<<"q">>, FALSE)))}

NestedFields ==
  {Assignment(KeyA, v) : v \in Literals}
  \cup {Assignment(<<"a", "s">>, Object("z", Word("4"))),
        Assignment(<<"a", "s", "z">>, Word("5")),
        Assignment(<<"a", "s", "x">>, Concat(<<Subst(<<"a", "s", "x">>, TRUE), Word("u")>>)),
        Assignment(KeyA, Subst(<<"a", "s">>, TRUE)),
        Assignment(KeyA, Concat(<<Subst(KeyA, TRUE), Subst(<<"q">>, FALSE)>>)),
        Assignment(<<"q">>, Word("6")),
        Appending(<<"a", "l">>, Subst(<<"q">>, FALSE))}

\* A source included at the root, and the same one included under a key.
Source ==
  <<Assignment(KeyA, Object("l", Array(<<Subst(<<"q">>, FALSE)>>))),
    Assignment(KeyA, Object("t", Word("3")))>>

Mounted == Assignment(KeyA, ObjectNode(<<Include(Source)>>))

\* One that appends to what is there, and looks back.
Chain ==
  <<Appending(<<"a", "l">>, Word("8")),
    Assignment(<<"a", "s">>, ObjectNode(<<Assignment(<<"y">>, Subst(<<"a", "t">>, TRUE))>>))>>

HeapFields == NestedFields \cup {Include(Source), Mounted, Include(Chain)}

\* The fields of the source, and what it refers to.
SourceFields == ToSet(Source) \cup {Assignment(<<"q">>, Word("6"))}

NoNames == <<>>

-----------------------------------------------------------------------------
\* Identities are counted apart in the heap and in the tree.
RECURSIVE Unnamed(_)
Unnamed(v) ==
  CASE v.kind = "subst" -> [v EXCEPT !.id = <<>>]
    [] IsObject(v) -> [Rebuild(v, Unnamed) EXCEPT !.prior = [k \in DOMAIN @ |-> Unnamed(@[k])]]
    [] OTHER -> Rebuild(v, Unnamed)

RECURSIVE WithoutPriors(_)
WithoutPriors(v) ==
  LET w == Rebuild(v, WithoutPriors) IN IF IsObject(w) THEN [w EXCEPT !.prior = <<>>] ELSE w

InMemory == Unnamed(Read(memory, Root))
AsValue == Unnamed(Receiver)

\* While no path has led into an object that is also a prior, and no value
\* has been relativized twice, sharing cannot be seen: memory holds the tree
\* that building it from values gives, priors included.
HeapIsTree == (~memory.wrote /\ ~memory.twice) => InMemory = AsValue

\* A path that leads into a shared object changes what a look-back finds,
\* and never what a key holds.
ValuesUntouched == ~memory.twice => WithoutPriors(InMemory) = WithoutPriors(AsValue)

\* The document included under the key p, resolved out of memory.
InMemoryUnder(key) ==
  LET mount == Assignment(<<key>>, ObjectNode(<<Include(docs[1])>>))
      h == AddFieldIn(New(EmptyHeap, EmptyObject).h, Root, mount, <<>>)
  IN Plain(Resolve(Read(h, Root), FALSE, TRUE))

\* resolveInclude: "paths like ${x} become ${prefix.x} when included under a
\* nested scope", and so a document has the values under a key it has alone.
MountedInMemory ==
  LET alone == Plain(Resolve(Receiver, FALSE, TRUE))
      under == InMemoryUnder("p")
  IN alone.kind # "error" => (under.kind # "error" /\ under.values["p"] = alone)
=============================================================================
