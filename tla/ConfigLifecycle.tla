-------------------------- MODULE ConfigLifecycle --------------------------
(***************************************************************************)
(* config.go: what a program does with the trees that parsing leaves, in    *)
(* the order the deferred API allows: WithFallback, Resolve, ResolveWith    *)
(* and GetConfig, on resolved and unresolved operands.  A Config is never   *)
(* changed; the program holds one, and a second one to combine it with.     *)
(* BuildTree writes the documents; ParseEnds hands both over and leaves no  *)
(* document behind.  A call that returns an error changes nothing here.     *)
(***************************************************************************)
EXTENDS DocumentMeaning

CONSTANTS
    ResolveOptions,   \* the ResolveOptions calls are made with
    MaxHanded,        \* bound on the fields of documents that are handed over
    MaxCalls          \* bound on the calls made on what was handed over

VARIABLES
    config,    \* the Config the program holds, NoConfig while it parses
    source,    \* the Config it combines with that one
    calls      \* calls made so far

configVars == <<config, source, calls>>

allVars == <<vars, configVars>>

Options(allowUnresolved, useEnv) ==
    [allowUnresolved |-> allowUnresolved, useEnv |-> useEnv]

Config(root, resolved) == [kind |-> "config", root |-> root, resolved |-> resolved]

NoConfig == Config(Nil, FALSE)

----------------------------------------------------------------------------

\* newConfig: a tree known to be resolved.
NewConfig(root) == Config(root, TRUE)

NewUnresolvedConfig(root) == Config(root, ~HasPlaceholder(root))

IsResolved(c) == c.resolved \/ ~HasPlaceholder(c.root)

\* The error, or the Config made of a resolved tree.
Wrapped(root) == IF IsError(root) THEN root ELSE NewUnresolvedConfig(root)

ResolveConfig(c, o) ==
    IF IsResolved(c)
    THEN NewConfig(c.root)
    ELSE Wrapped(Resolve(c.root, o.allowUnresolved, o.useEnv))

Merge(merged, c, f) == Config(merged, c.resolved /\ f.resolved /\ ~HasPlaceholder(merged))

WithFallback(c, f) == Merge(MergeUnresolved(c.root, f.root), c, f)

\* Mutant: all of the resolved tree is kept.
FilterNothing(resolved, shape) == resolved

\* filterByReceiverShape: the keys of shape, at every depth.
RECURSIVE FilterByShape(_, _)
FilterByShape(resolved, shape) ==
    FoldLeft(LAMBDA out, k :
                IF IsObject(shape.values[k]) /\ IsObject(resolved.values[k])
                THEN Put(out, k, FilterByShape(resolved.values[k], shape.values[k]))
                ELSE Put(out, k, resolved.values[k]),
             EmptyObject, SelectSeq(shape.keys, LAMBDA k : Has(resolved, k)))

\* Wrapped, for a tree that is filtered first.
WrappedIn(root, shape) ==
    IF IsError(root) THEN root ELSE NewUnresolvedConfig(FilterByShape(root, shape))

ResolveWith(c, s, o) ==
    CASE ~IsResolved(s) -> Error("not resolved", <<>>)
      [] IsResolved(s) /\ IsResolved(c) -> NewConfig(c.root)
      [] OTHER -> WrappedIn(Resolve(MergeUnresolved(c.root, s.root),
                                    o.allowUnresolved, o.useEnv), c.root)

\* Mutant: lookup does not look for placeholders.
LookupAnything(c, path) == Lookup(c.root, path)

\* lookup: Nil where there is nothing or where the getter panics.
LookupIn(c, path) ==
    LET v == Lookup(c.root, path)
    IN  IF ~c.resolved /\ HasPlaceholder(v) THEN Nil ELSE v

----------------------------------------------------------------------------

Fused(root) == IF IsError(root) THEN root ELSE NewConfig(root)

\* What parsing returns with ResolveSubstitutions off (deferred) and on.
Parsed(tree, deferred) ==
    IF deferred THEN NewUnresolvedConfig(tree) ELSE Fused(Resolve(tree, FALSE, TRUE))

Hold(c, s) ==
    /\ ~IsError(c) /\ ~IsError(s)
    /\ config' = c /\ source' = s

ParseEnds ==
    /\ config = NoConfig
    /\ docs[1] # <<>> /\ docs[2] # <<>> /\ Written <= MaxHanded
    /\ \E first, second \in BOOLEAN : Hold(Parsed(Receiver, first), Parsed(Fallback, second))
    /\ docs' = << <<>>, <<>> >>
    /\ trees' = <<EmptyDocument(1), EmptyDocument(2)>>
    /\ UNCHANGED calls

Returns(c, s) ==
    /\ config # NoConfig /\ calls < MaxCalls
    /\ Hold(c, s)
    /\ calls' = calls + 1
    /\ UNCHANGED vars

CallWithFallback == Returns(WithFallback(config, source), source)

CallResolve == \E o \in ResolveOptions : Returns(ResolveConfig(config, o), source)

CallResolveWith == \E o \in ResolveOptions : Returns(ResolveWith(config, source, o), source)

ResolveSource == \E o \in ResolveOptions : Returns(config, ResolveConfig(source, o))

\* GetConfig at a key of the root.
CallGetConfig ==
    \E k \in DOMAIN config.root.values :
        /\ IsObject(LookupIn(config, <<k>>))
        /\ Returns(NewConfig(LookupIn(config, <<k>>)), source)

Call ==
    \/ CallWithFallback \/ CallResolve \/ CallResolveWith \/ ResolveSource
    \/ config # NoConfig /\ CallGetConfig

ConfigInit == Init /\ config = NoConfig /\ source = NoConfig /\ calls = 0

ConfigNext ==
    \/ config = NoConfig /\ Next /\ UNCHANGED configVars
    \/ ParseEnds
    \/ Call

ConfigSpec == ConfigInit /\ [][ConfigNext]_allVars

----------------------------------------------------------------------------
(* What a program relies on.                                                *)

Strict == Options(FALSE, TRUE)

Lenient == Options(TRUE, TRUE)

\* What a caller can tell apart in the result of a call.
Outcome(c) == IF IsError(c) THEN [kind |-> "error"] ELSE Plain(c.root)

Keys(c) == DOMAIN c.root.values

\* Every placeholder of a tree, priors included.
RECURSIVE Placeholders(_)
Placeholders(v) ==
    (IF v.kind = "subst" THEN {v} ELSE {})
        \cup UNION {Placeholders(c) : c \in Children(v)}
        \cup (IF IsObject(v) THEN UNION {Placeholders(v.prior[k]) : k \in DOMAIN v.prior}
                             ELSE {})

Disjoint(c, f) == Keys(c) \cap Keys(f) = {}

\* Every key has a value: none of them means nothing in the end.
Lasting(c, resolved) == ~IsError(resolved) /\ Keys(resolved) = Keys(c)

\* The flag of a Config is what the getters trust: where it is set no
\* placeholder is left, whatever the calls were, for a sub-config too.
FlagIsSound ==
    \A c \in {config, source} : c.resolved => ~HasPlaceholder(c.root)

AtTheEnd(c) == Outcome(ResolveConfig(WithFallback(c, source), Strict))

\* early: the receiver resolved before the fallback is there.
SameLater(early) ==
    (Lasting(config, early) /\ Lasting(source, ResolveConfig(source, Lenient)))
        => AtTheEnd(early) = AtTheEnd(config)

\* AllowUnresolved (dr07): resolving what can be resolved before a fallback
\* is known loses nothing: with the fallback, what is left resolves to what
\* resolving everything at the end gives.  The fallback has keys of its own,
\* and optional substitutions, which do not wait, name keys of the receiver.
LateFallback ==
    (/\ config # NoConfig
     /\ Disjoint(config, source)
     /\ \A s \in Placeholders(config.root) : s.optional => Head(s.path) \in Keys(config))
        => SameLater(ResolveConfig(config, Lenient))

\* The keys of the receiver only.
OwnKeys(outcome) ==
    IF outcome.kind = "error"
    THEN outcome
    ELSE [outcome EXCEPT !.values = Restrict(@, DOMAIN @ \cap Keys(config))]

\* resolved: the source, as ResolveWith asks for it.
LookedUpIn(resolved) ==
    Lasting(source, resolved)
        => Outcome(ResolveWith(config, resolved, Strict)) = OwnKeys(AtTheEnd(config))

\* ResolveWith (E12 decision 10): the substitutions of the receiver take the
\* values that they have over the unresolved source, and none of its keys
\* comes along, when the two have no key in common.
ResolveWithLooksUp ==
    (/\ config # NoConfig
     /\ ~IsResolved(config)
     /\ Disjoint(config, source)
     /\ \A s \in Placeholders(source.root) : Head(s.path) \notin Keys(config))
        => LookedUpIn(ResolveConfig(source, Strict))

\* The values that a layer c keeps of one below it, f, do not themselves
\* stand on a third: no prior is folded away, and objects meet objects.
Covers(c, f) ==
    \A k \in Keys(c) \cap Keys(f) :
        /\ SelfRefs(f.root.values[k], <<k>>, TRUE) = {}
        /\ IsObject(f.root.values[k]) => IsObject(c.root.values[k])

GroupedAlike(third) ==
    Outcome(ResolveConfig(WithFallback(WithFallback(config, source), third), Strict))
        = Outcome(ResolveConfig(WithFallback(config, WithFallback(source, third)), Strict))

\* WithFallback on three layers: it makes no difference which two of them are
\* combined first.
Grouping ==
    (config # NoConfig /\ calls = 0 /\ Covers(config, source))
        => \A f \in Fields :
              GroupedAlike(NewUnresolvedConfig(AddField(EmptyDocument(3), f, <<>>).val))

============================================================================
