---------------------------- MODULE MCBuildTree ----------------------------
(***************************************************************************)
(* TLC instances of BuildTree and ResolveTree: the fields documents are     *)
(* written with, and what the trees and their resolution must satisfy.      *)
(***************************************************************************)
EXTENDS ConfigLifecycle

KeyA == <<"a">>
KeyB == <<"b">>
Word(w) == Text(<<w>>)
Required(p) == Subst(p, FALSE)
Optional(p) == Subst(p, TRUE)

\* a refers to itself, to b, to fields of both, to an environment variable
\* ("v") and to nothing ("n").
ValuesOfA ==
    {Word("1"), Required(KeyA), Optional(<<"a", "k">>), Optional(<<"n">>),
     Optional(KeyB), Required(KeyB), Required(<<"v">>),
     Concat(<<Optional(KeyA), Word("x")>>),
     Concat(<<Required(KeyA), Space, Required(KeyA)>>),
     Array(<<Optional(KeyA), Word("2")>>),
     ObjectNode(<<Assignment(<<"k">>, Word("3"))>>),
     ObjectNode(<<Assignment(<<"m">>, Optional(KeyB))>>)}

\* b refers to itself only: no cycle.
ValuesOfB ==
    {Word("4"), Optional(KeyB), Optional(<<"n">>),
     ObjectNode(<<Assignment(<<"k">>, Word("5"))>>),
     ObjectNode(<<Assignment(<<"0">>, Word("7"))>>)}

Appends == {Appending(k, Word("e")) : k \in {KeyA, KeyB}}

PathFields ==
    {Assignment(<<"a", "k">>, v) :
        v \in {Word("6"), Concat(<<Optional(<<"a", "k">>), Word("y")>>)}}

IncludeFields ==
    {Include(<<Appending(KeyA, Word("f"))>>),
     Include(<<Assignment(KeyA, Concat(<<Optional(KeyA), Word("z")>>)),
               Assignment(KeyA, Concat(<<Optional(KeyA), Word("w")>>))>>)}

DocumentFields ==
    {Assignment(KeyA, v) : v \in ValuesOfA} \cup {Assignment(KeyB, v) : v \in ValuesOfB}
        \cup Appends \cup PathFields \cup IncludeFields

\* Two keys that refer to each other and to themselves.
CycleFields ==
    {Assignment(KeyA, v) : v \in {Optional(KeyA), Optional(KeyB)}}
        \cup {Assignment(KeyB, v) : v \in {Required(KeyA), Required(KeyB)}}

Nothing == <<>>

Environment == (<<"v">> :> <<"s">>)

NumericKeys == ("0" :> 0)

CallOptions == {Strict, Lenient, Options(TRUE, FALSE)}

----------------------------------------------------------------------------
Tree(doc) == FoldLeft(LAMBDA b, f : AddField(b, f, <<>>), EmptyDocument(1), doc).val

Resolved(tree) == Plain(Resolve(tree, FALSE, TRUE))

IsFailure(v) == v.kind = "error"

\* The ways to move a part of a document to a file it includes.
Parts(doc) == {p \in (DOMAIN doc) \X (DOMAIN doc) : p[1] <= p[2]}

PartOf(doc, p) == SubSeq(doc, p[1], p[2])

Moved(doc, p) ==
    SubSeq(doc, 1, p[1] - 1) \o <<Include(PartOf(doc, p))>> \o SubSeq(doc, p[2] + 1, Len(doc))

Mounted(doc) == <<Assignment(<<"p">>, ObjectNode(<<Include(doc)>>))>>

Nested(f) ==
    IF f.kind # "include" /\ Len(f.key) = 2
    THEN Assignment(<<f.key[1]>>, ObjectNode(<<[f EXCEPT !.key = Tail(@)]>>))
    ELSE f

OneDocument == docs[2] = <<>>

----------------------------------------------------------------------------
\* foldOrSkipPrior (#118): the prior recorded for a key of the document does
\* not refer to that key, or resolution would follow it for ever.
PriorsAreFolded ==
    \A k \in DOMAIN Receiver.prior : SelfRefs(Receiver.prior[k], <<k>>, FALSE) = {}

\* BuildTree and ResolveTree: a document whose meaning is a value resolves
\* to that value: lookbacks, += chains, includes, objects merged over their
\* priors and references to absent keys all end where the text says.
MeaningAgrees ==
    LET doc == WrittenOut(docs[1])
        meaning == DocumentMeaning(docs[1])
    IN  (OneDocument /\ Flat(doc) /\ OnePriorDeep(doc))
            => (IsFailure(meaning) \/ Resolved(Receiver) = meaning)

\* resolveInclude at the root: moving the part p of a document to a file
\* included in its place changes nothing.
InlineAlike(p) == Resolved(Tree(Moved(docs[1], p))) = Resolved(Receiver)

\* A path is assigned before the part p and after it.
PathAround(doc, p) ==
    \E i \in 1..(p[1] - 1), j \in (p[2] + 1)..Len(doc) :
        /\ doc[i].kind # "include" /\ Len(doc[i].key) > 1
        /\ doc[j].kind # "include" /\ doc[j].key = doc[i].key

\* The same for the parts whose priors can be deferred, not in the middle of
\* the assignments of a path.
IncludeInlines ==
    (OneDocument /\ ~IsFailure(Resolved(Receiver)) /\ OntoObjects(WrittenOut(docs[1])))
        => \A p \in Parts(docs[1]) :
              (Deferrable(WrittenOut(PartOf(docs[1], p))) /\ ~PathAround(docs[1], p))
                  => InlineAlike(p)

\* relativizeVals: a document included inside an object has the values it
\* has on its own, wherever it is mounted.
MountedAlike ==
    LET alone == Resolved(Receiver)
        mounted == Resolved(Tree(Mounted(docs[1])))
    IN  OneDocument =>
            CASE IsFailure(alone) -> IsFailure(mounted)
              [] OTHER -> ~IsFailure(mounted) /\ mounted.values["p"] = alone

\* S12.1: "foo.bar : 42 expands to foo { bar : 42 }".
PathAlwaysNests ==
    LET nested == [i \in DOMAIN docs[1] |-> Nested(docs[1][i])]
    IN  OneDocument => Resolved(Tree(nested)) = Resolved(Receiver)

\* setPath: a.b = v writes what a { b = v } writes, where a is an object.
PathNests == OntoObjects(WrittenOut(docs[1])) => PathAlwaysNests

\* AllowUnresolved: what resolves strictly resolves to the same without
\* strictness, and leaves no substitution in the tree.
LenientAgrees ==
    LET strict == Resolve(Receiver, FALSE, TRUE)
    IN  ~IsError(strict) =>
            ~HasPlaceholder(strict) /\ Resolve(Receiver, TRUE, TRUE) = strict

\* WithFallback: merging two trees is writing the fallback's document before
\* the receiver's.
FallbackAlwaysPrepends ==
    Resolved(MergeUnresolved(Receiver, Fallback)) = Resolved(Tree(docs[2] \o docs[1]))

\* The same for a fallback without priors of its own.
FallbackPrepends ==
    (/\ Deferrable(WrittenOut(docs[1]))
     /\ SingleLayer(WrittenOut(docs[2]))
     /\ OntoObjects(WrittenOut(docs[2] \o docs[1])))
        => FallbackAlwaysPrepends

\* S13a.8, S13a.9: substitutions that refer to each other are an error, and
\* never a recursion without end.
CyclesEnd ==
    LET r == Resolve(Receiver, FALSE, TRUE) IN ~(IsError(r) /\ r.why = "runaway")

============================================================================
