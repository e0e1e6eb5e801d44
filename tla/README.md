# A TLA+ verification of go.hocon

go.hocon reads HOCON configuration: it parses documents, expands their
includes, merges layers, and replaces `${substitutions}`. This directory holds
TLA+ models of the parts of it that carry state or that are hard to get right
by testing, the TLC runs that check them on small instances, and TLAPS proofs
of what holds for instances of every size.

Paths below are relative to the root of the repository.

## 1. The system

A parse is a pipeline; a `Config` is what it leaves behind.

```
text ─ lexer ─ parser ─▶ AST ─ BuildTree ─▶ unresolved tree ─ ResolveTree ─▶ resolved tree
                              (phase 1)          │  ▲          (phase 2)
              files, package registry ──────────┘  └── MergeUnresolved (WithFallback)
```

| component | state it keeps | operations | correct means |
|---|---|---|---|
| lexer, parser (`internal/lexer`, `internal/parser`) | position, token buffer | tokenise; parse objects, key paths, concatenations, includes | the AST is the one the grammar gives |
| include expansion (`internal/resolver/resolver.go`, `resolveInclude` … `loadPackageInclude`) | `includeStack`, shared by all nested resolvers; reads the file system and the registry | `resolveInclude`, `loadIncludeFile`, `loadPackageInclude`, probing of `.properties`, `.json`, `.conf` | the document means what it means with the includes written out; cycles end and only cycles are reported; the stack is balanced on every path |
| package registry (`registry.go`) | a map under a `sync.RWMutex`, the byte slices in it | `RegisterPackage`, `UnregisterPackage`, `ResetPackageRegistry`, `lookup` | an atomic map whose contents nobody overwrites |
| tree building, phase 1 (`BuildTree`: `resolveObject`, `setPath`, the include merge) | the tree under construction; `priorValues` of the resolver and of every object | a field, a path, `+=`, an include, duplicate keys | every key keeps what it had before, so that a self-reference finds it |
| self-reference folding (`foldselfref.go`) | none (rewrites values) | `foldOrSkipPrior`, `foldOptionalSelfRefAbsent`, `rehydrateSentinel`, … | a saved prior never refers to its own key, and loses nothing |
| merging (`MergeUnresolved`, `deepMergeAt`) | none (builds a tree) | `WithFallback`, duplicate object keys | merging is writing the fallback first |
| substitution, phase 2 (`ResolveTree`) | `resolving`, `resolvedCache`, `priorValues`, `resolvingFieldPath`, `resolvingPrefixPriors` | `resolveSubst`, `finishField`, concatenation, environment | the value the text means, a reported error, and always an end |
| `Config` (`config.go`, `config_e.go`, `option.go`) | tree, `resolved` flag | `WithFallback`, `Resolve`, `ResolveWith`, getters | getters fail exactly on unresolved or mistyped values; the three forms agree |
| units (`config.go`) | none | durations, sizes, periods | exact, and an error at overflow |
| unmarshalling (`unmarshal.go`) | the Go variable it writes into | `Unmarshal`, `UnmarshalPath` | what the getters read, exact integers, no placeholder decoded, absent and null keys leave the variable alone |
| `value_factory.go`, `render_hocon.go` | none | conversions to and from Go values and text | round trips |
| path map (`adapters/internal/pathmap`) | the map under construction, the set of scopes | `Build` | objects win and the last value wins, in every order of the entries |
| environment (`adapters/env`) | the entries, the collision index | `Load`, `Parse` | every variable with the prefix is read at its path, or named in an error; the order of the environment does not matter |
| `internal/properties`, other `adapters/*` | none | other formats to trees | as for the path map and for values |

How they interact: `ParseFile` calls the parser and `BuildTree`; `BuildTree`
recurs through `resolveInclude` into a new resolver per included source,
sharing only `includeStack`; a package include calls back into the registry
(`Options.PackageLookup`), which other goroutines use at the same time.
`BuildTree` and `MergeUnresolved` communicate with `ResolveTree` through the
tree alone: values, placeholders and the `priorValues` of each object.

What is hard about it:

* **Interleaving.** The registry is process-wide. A lookup hands out the slice
  that is in the map, and a parse reads it after the lock is released.
* **A world that moves.** A parse does many system calls; files and packages
  may be replaced or removed between any two of them.
* **History.** A self-reference means "the value below". The code keeps one
  prior per key, folded so that it does not refer to its key, where the text
  has a stack of layers. Priors live in two places (resolver and object), are
  merged, rewritten under a prefix, and combined with what an include or a
  fallback supplies later. Long legal sequences of assignments reach states
  that no test wrote down.
* **Order.** The environment has none, a `.env` file has one, and both become
  one map in which a path may be a value in one entry and an object in another.
* **Sharing.** Phase 1 copies on merge but writes in place where a path or a
  mount leads into an object, and a saved prior may share that object.
* **Several hands.** Paths are read by three scanners, values by three families
  of getters and by `Unmarshal`, each written out on its own. Nothing but their
  agreement says which is right.
* **Token borders.** The lexer cuts text where the grammar of keys does not;
  the parser glues it together again.
* **Termination.** Phase 2 recurs through references, priors and caches.

`PROJECT.json` lists these hazards at the lines where they bite.
Where the guard of a property leaves part of a hazard out, because the code
goes wrong there, the hazard names the part and the guard in its note, and
sections 3.7 and 3.9 show the text that does it.

## 2. The modules

| module | models | role |
|---|---|---|
| `IncludeExpansion` | `resolveInclude`, `loadIncludeFile`, `loadPackageInclude`, `parseWithOptions` | state machine |
| `Inlining` | what a document with includes stands for, without stacks and frames | reference semantics |
| `MCIncludeExpansion` | – | TLC instance |
| `InliningProofs` | – | proofs about both |
| `PackageMap` | what the registry promises | abstract specification |
| `PackageRegistry` | `registry.go` | state machine, refines `PackageMap` |
| `PackageRegistryProofs` | – | proofs, refinement included |
| `HoconTree` | values; `foldselfref.go`, `deepMergeAt`, `MergeUnresolved`, `relativizeVals` | algebra of unresolved trees |
| `ResolveTree` | `ResolveTree`, `resolveSubst`, `finishField`, concatenation, `numeric_array.go` | phase 2 as operators |
| `BuildTree` | `resolveObject`, `setPath`, the include merge, `+=` | phase 1 as a state machine over documents |
| `DocumentMeaning` | what a document means, without trees or priors | reference semantics |
| `ConfigLifecycle` | `config.go`: `WithFallback`, `Resolve`, `ResolveWith`, `GetConfig`, the `resolved` flag | state machine on top of the documents |
| `MCBuildTree` | – | TLC instances and properties of the five modules above |
| `TreeHeap` | phase 1 again, over the pointers of the code | state machine on top of `BuildTree` |
| `MCTreeHeap` | – | TLC instances and properties |
| `Lexer` | `internal/lexer` | a text to tokens, operators |
| `KeyPaths` | `parseKey`, the lexer's substitution paths, `config.go`: `splitPath` | the three readers of paths, operators |
| `Parser` | `internal/parser` | state machine: a stack of activations over tokens |
| `MCParser` | – | TLC instance: texts, what they mean, properties |
| `Getters` | `config.go`, `config_e.go`: lookups, conversions, `GetConfig`; `numeric_array.go` | three families of getters as operators, a program that scopes as state machine |
| `GettersProofs` | – | proofs |
| `Unmarshal` | `unmarshal.go` | state machine on top of `Getters`: a variable that is written |
| `MCUnmarshal` | – | TLC instance and properties of both |
| `PathMap` | `adapters/internal/pathmap` | state machine, open: any caller |
| `EnvMount` | `adapters/env`: `Load`, `Parse`, the `.env` dialect, names to paths | state machine, refines `PathMap` |
| `MCEnvMount` | – | TLC instances |
| `PathMapProofs` | – | proofs |
| `EnvTextProofs`, `EnvMountProofs` | – | proofs: of the operators on texts; of the adapter |
| `Units` | `config.go`: `readDuration`, `readBytes`, `readPeriod`, `truncProduct` | pure readers, one action each |
| `MCUnits`, `UnitsProofs` | – | TLC instance; proofs |
| `Induction` | – | lemmas of the proof modules: induction and recursion over the natural numbers and over sequences |

### 2.1 Includes (`IncludeExpansion`)

A `frame` is one activation of `resolveObject` on a source: the items it has
still to read, the directory its includes are relative to, and, while an
include without extension is probed, the extension to try next. `stack` is
`includeStack`. A field is a token; a source contributes its tokens in order.
What fields *mean* is the subject of the tree modules.

One action per step the world can interrupt: `ParseFile`/`ParseString`,
`ApplyField`, `IncludeFile` (the whole of `loadIncludeFile`: cycle check, read,
parse, push), `StartProbe`, `Stat`, `LoadProbed`, `EndProbe` (the probing
loop), `IncludePackage`, `ReturnInclude`, `ReturnTop`, and `Unwind`/`Failed`
for an error that returns through the deferred pops. `FileChanges` and
`PackageChanges` are the world. In `loadIncludeFile` the push comes before
the read; the model merges the two, because a load that fails or returns at
once is popped by its own deferred function before anything can look at the
stack.

The parse result of a file is a function of its text (`Body`, `Props`,
`Malformed`), so the lexer and the parser are one step here. A `.properties`
text is read by its own parser and cannot include. Symbolic links are not
modelled: the code compares cleaned absolute paths, and so does the model.

`Inlining` is what all this is for, said without any of it: in a world that
does not move, an include stands for the fields of the source it names
(`Contribution`), a source that is nested in itself or cannot be read for
nothing at all (`Refused`), and a document for its items in a row. It is a
recursive function on sources (a text, the directory of its includes, the
sources around it), so that there is something to prove about it.

### 2.2 Registry (`PackageMap`, `PackageRegistry`)

`PackageRegistry` models memory: every goroutine owns a buffer that it may
overwrite between calls (`Overwrite`), the registry allocates blocks, and a
lookup returns a *block* (`ref`), which stays readable until the goroutine's
next call (`Use` is the parse that reads it). The lock is a `sync.RWMutex`: a
writer that waits keeps new readers out (`Lock`, `Drained`). `RegisterPackage`
is `Begin`, `Lock`, `Drained`, `Check`, `Store`, `Unlock`; the code between
lock and unlock is split so that a missing lock would show.

`PackageMap` has no memory and no lock: a call takes effect at one instant and
its answer never changes. The refinement mapping reads the contents through
the blocks, so a content that changes in place, in the map or in the hands of
a reader, is a step the abstract map does not have.

### 2.3 Trees (`HoconTree`, `ResolveTree`, `BuildTree`)

Values are tagged records. `ObjectVal.keys`, `values` and `priorValues` are
the fields of an object; a `substPlaceholder` has an `id` in place of its
pointer (`containsSubstByIdentity` compares pointers); the raw text of a
scalar is a sequence of atoms, so that `concatStrings` and `isSeparator` do
what they do.

`HoconTree` has an operator per function of `foldselfref.go`, and the merges.
`ResolveTree` has an operator per case of phase 2. The members of the Go
resolver that a call restores on return are a context passed down; the cache,
which grows between the fields of the root, is threaded through. `Runaway` is
an error the code does not have: it marks a recursion deeper than `MaxDepth`.

`BuildTree` is a state machine that writes two documents, the receiver and the
fallback of a `WithFallback`, one field at a time. `AddField` is the body of
the loop of `resolveObject`. Every reachable state is a pair of documents a
user can write, so an invariant over `docs` and `trees` is a statement about
every document of the menu up to the bound.

`DocumentMeaning` gives the reference: the layers of a key from the top down,
a substitution that names its own key meaning the layers below. It shares with
the model of the code only what is not in question, the concatenation of
values that are already resolved (`Join`, `MergeConcat`).

### 2.4 Configs (`ConfigLifecycle`)

A `Config` is a tree and its `resolved` flag; base directory and origin only
appear in messages. `ParseEnds` hands the two documents over as `config` and
`source`, each parsed with or without `ResolveSubstitutions`, and resets the
documents, so that the invariants about them are not evaluated again. Then the
program calls: `CallWithFallback`, `CallResolve`, `CallResolveWith`,
`ResolveSource`, `CallGetConfig`, in any order and with any of the options. A
`Config` is immutable and a call that fails returns an error, so a failing call
is no step.

### 2.5 Path map and environment (`PathMap`, `EnvMount`)

`PathMap` is `Build` with the two loops it has, one entry per step: `Scan`
records the proper prefixes of every path under a joined key, `Skip`, `Insert`
and `Clash` are the outcomes of the second loop for one entry. The nested map
is the pair `objects` (paths that hold a map) and `leaves` (paths that hold a
value). The caller is open: `Collect` appends any entry whatever, `GiveUp` is
any error of the caller. What holds of `MapSpec` holds for every adapter.

`EnvMount` is one of them. It extends `PathMap`, replaces the open caller with
`Load` and `Parse` (`Read`), and keeps `Build`; `BuildsPathMap`, that is
`MapSpec`, is one of its properties. A name or a text is a sequence of
characters, because the properties are about what is cut where: at the first
`=`, at every `__` from the left, at a quote, at a `#` after a space. The
keyword `export` is one character, `LF` stands for the three escapes for a
control character, `?` for a byte that is not UTF-8, and the order of bytes is
the constant `Order`. `joinKey` and `pathKey`, the two ways in which the code
turns a path into a key of a Go map, are written out, since their being
injective is the point. The loop of `Load` is one step per variable, in the
order of `sorted`; this is a permutation that increases, since a variable that
stands twice may come in either order. `toPath`, `pathKey`, `unescaped` and
`Joined` are recursive functions on texts, and not operators, so that the
proofs can say what they compute.

### 2.6 Units (`Units`)

A value is its number and the name of its unit, as `splitUnitValue` divides
the text; a number is a sign, digits and a power of ten, and remembers whether
it was written as an integer, because the code multiplies those in `int64` and
the others exactly. `BoundedProduct`, `CheckedProduct` and `TruncProduct` are
the three ways to multiply, with `Wrap` and `Quot` the multiplication and the
division of the machine. The widths are constants (`Half` is 2^63,
`PeriodHalf` 2^31), and so are the tables of units. An action is a getter that
reads the value; nothing else changes.

### 2.7 Memory (`TreeHeap`)

`HoconTree` and `BuildTree` compute with values. The code computes with
pointers: `deepMergeAt` and the folds allocate new objects that share the
parts they leave alone, while `setPath` and `relativizeVals` write into the
object they find. `TreeHeap` extends `BuildTree` with a `memory` of cells, one
per `ObjectVal` or `ArrayVal`, and has an operator `…In` for each operator of
the value modules, which says which cells are new and which are written. A
step reads the same field into the tree and into memory, and `Read` is the
refinement mapping from one to the other. Two ghosts remember the two ways in
which sharing can be seen: `wrote` (a path led into a cell that a prior
reaches) and `twice` (one `relativizeVals` rewrote one cell more than once).

### 2.8 Text (`Lexer`, `KeyPaths`, `Parser`)

A text is a sequence of characters, with the words that lexer or parser give a
meaning (`true`, `include`, `file`) as one character each, so that short
texts reach every branch. `Lexer` is the scanner: `Lex` of a text is its
tokens, with the blank before each, since concatenation and `parseKey` look at
it. `Parser` has a frame per activation of a parse function (`root`,
`fields`, `value`, `array`) and an action per decision of those functions;
`parseKey`, `parseInclude` and `parseSingleValue`, which return without
calling back, are operators. `KeyPaths` holds the three readers of paths side
by side.

### 2.9 Reading a Config (`Getters`, `Unmarshal`)

A value is read as a *text* that conversions can tell apart: a word, or a
number with sign, digits, decimal places, exponent and a mark whether it was
written as an integer. `lookup`, `lookupE` and `lookupSoft` are written out as
the code has them, and so are the conversions of options; the conversions of
`GetX` and `GetXE` are line for line the same and one operator.
`Holds` is `ContainsPlaceholders`, `Measure` stands for `Units`, `Truth` for
the words of `parseBool`. The state is a program that goes from Config to
Config with `GetConfig`; the ghost `from` remembers how.

`Unmarshal` adds a variable of some Go type. A type is a record (a pointer, a
slice, a map, a struct with the options of its tags, `any`, a scalar with the
width of its integers); a call returns what it leaves in the variable *and* an
error, because a struct that fails at its second field keeps the first.
Integers are read as the code reads them, digit by digit.

### 2.10 What could come next

1. `HoconTree` with recursive functions in place of `RECURSIVE` operators, so
   that `FlagIsSound` and `PriorsAreFolded` can be reasoned about.
2. `PriorChain`: the algebra of chains of self-references on its own (a head,
   a list of appended texts), with `fold` and `rehydrate` proved associative.
3. `.properties` files (`internal/properties`: logical lines, splitting,
   escapes) as a second caller of `PathMap`.
4. A reference meaning for documents that write one name both as `"a.b"` and as
   the path `a.b`, and with it a menu for the constant `Dots`.

## 3. The runs

`tlc -workers 2 -config <cfg> <module>`, in this directory.

| run | module, cfg | what it asks |
|---|---|---|
| `include` | `MCIncludeExpansion`, `Include.cfg` | is a parse the inlined document, and do stack, cycle errors and termination survive any change of the world? |
| `include_optional` | `MCIncludeExpansion`, `IncludeOptional.cfg` | is a missing optional include always ignored? (no) |
| `registry` | `PackageRegistry`, `PackageRegistry.cfg` | is the registry an atomic map, and does every call return? |
| `documents` | `MCBuildTree`, `Documents.cfg` | do the two phases compute what documents mean? |
| `env` | `MCEnvMount`, `EnvMount.cfg` | is the environment mounted completely, in any order, and a `.env` text read as written? |
| `env_nul` | `MCEnvMount`, `EnvNUL.cfg` | the same with a NUL in a name (refuted) |
| `units` | `MCUnits`, `Units.cfg` | is every duration, size and period exact or refused? |
| `cycles` | `MCBuildTree`, `Cycles.cfg` | does the resolution of references in a circle end? (no) |
| `heap` | `MCTreeHeap`, `Heap.cfg` | does memory that is shared and written hold the trees of `documents`? |
| `mounted` | `MCTreeHeap`, `Mounted.cfg` | has a document in memory, under a key, the values it has alone? (no) |
| `parser` | `MCParser`, `Parser.cfg` | is a text parsed as it is written, and do the three readers of paths agree? |
| `unmarshal` | `MCUnmarshal`, `Unmarshal.cfg` | do getters in their three forms and `Unmarshal` read the same, and nothing that is not resolved? |

### 3.1 Includes

`include` starts from 864 worlds that stand still and 32 that change: a main file with one of two texts, a
`.properties` and a `.conf` candidate, a `.json` candidate of another name, a
file in a sub-directory, and one package, each absent, present, malformed or
unreadable. Where the world stands still, `ResultIsInlining` compares the fields a parse returns, or its
failure, with the inlining of the document in `Inlining`. The texts contain diamonds, direct and indirect cycles,
includes relative to the source and to the working directory, and includes of
a package that includes files of its includer.

`Volatile` is the set of file systems between which the world changes: eight
of them, and four registries, replace one another at every step. There and in
the still worlds `StackIsOpenSources`, `NoSourceTwice`, `CircularIsReal` (an
error names a source that is open) and `ParseEnds` (every parse that starts
ends) are checked. Two levels of files and one package are enough for the
interesting shapes: a source that is open twice, a source that is open when its
includer has been replaced, an error at depth.

Fairness: `WF_vars(Parser)`. The parse is one goroutine that waits for nothing
but system calls. The world has no fairness: it may stand still or change for
ever, which is why `ParseEnds` is worth checking.

### 3.2 Registry

Two goroutines, one package, two contents, three blocks (one more than can be
in use: the map holds one and each goroutine one other). `ImplementsMap`
and `FirstContentStays` need two writers that collide; `CallsReturn`
needs a reader and a writer that wait for each other.

Fairness: each goroutine that is inside a call keeps running
(`WF_vars(Step(p))`), and a waiting `Lock` or `RLock` is served in the end
(strong fairness: a Go mutex in starvation mode hands itself over, and
`RWMutex.Unlock` admits the readers that wait). Callers have no fairness:
nobody has to call.

### 3.3 Documents

`Documents.cfg` takes every receiver and fallback that have three fields
together from a menu of 24: scalars, required and optional self-references
(bare, inside a concatenation, twice in one, inside a list), references to a
field of the key itself, to another key, to the environment and to nothing,
objects, an object with a numeric key, `+=`, paths, paths that refer to
themselves, and two includes with chains of their own. That is 50302 pairs of
documents. The chain hazards need one base, one link and one link on top of
it, which three fields (an include being one field with two links) reach. A
random walk of TLC (`-simulate`) over two and a half million pairs of documents
with four fields together found no violation either.

* `MeaningAgrees` – the resolved receiver is what `DocumentMeaning` says.
* `IncludeInlines` – moving any part of a document into a file that is
  included in its place changes nothing.
* `MountedAlike` – a document included inside an object has there the value it
  has at the root (this is what `relativizeVals` is for).
* `PathNests` – `a.b = v` is `a { b = v }`.
* `LenientAgrees` – `AllowUnresolved` changes nothing for a document that
  resolves without it.
* `FallbackPrepends` – `receiver.WithFallback(fallback)` is the document of the
  fallback followed by that of the receiver.
* `PriorsAreFolded` – no prior refers to its own key.

The same run then takes every receiver and fallback of one field each, parsed
either way, through every sequence of three calls, with the options strict,
lenient, and lenient without the environment. Two layers with one key each are
the cases that the calls tell apart (both, one or none has the key; value,
object, placeholder, self-reference); `Grouping` adds a third layer, every
field of the menu, and three calls are enough for a merge, a partial and a
full resolution.

* `FlagIsSound` – no Config that says it is resolved holds a placeholder,
  sub-configs included. The getters trust the flag.
* `LateFallback` – resolving with `AllowUnresolved` and then adding the
  fallback gives what adding it first gives, for a fallback with keys of its
  own. Optional substitutions do not wait (E12 says so), so they must name keys
  of the receiver, and no key may turn out to mean nothing.
* `ResolveWithLooksUp` – `ResolveWith` finds in the resolved source what the
  receiver would find over the unresolved one, and returns the receiver's keys.
* `Grouping` – `(a over b) over c` is `a over (b over c)`, the composition
  barrier (a value between two objects) included. Guard: `Covers`.

`CHECK_DEADLOCK FALSE` in the runs on documents, `heap` and `mounted` included: documents end at `MaxFields`. In the
include runs the parse ends.

`MaxDepth` is 9. No document of the passing run reaches it; the one of
`cycles` reaches any bound (16 was tried too, beyond which TLC's own stack
ends).

### 3.4 Environment

`env` starts from every environment of up to three variables of a menu of 17,
in every order, and every `.env` file of up to two lines of a menu of 79, the
latter with the prefix `P` and with none. Three variables are a value, one
below it and one that collides with either, in the six orders of the three.
The menu of variables has one path in two cases, a parent, a child and a
grandchild, segments that differ in where they are cut (`a__b`, `ab`,
`a___b`), empty segments, a name that is too deep (`MaxPathSegments` is 3),
undecodable names and values, and a name of another namespace. The menu of
lines has every text of up to two of seven characters between quotes, and each
way in which a line can be wrong, with the prefix and without.

* `NoClash` – the error branch of `insert` is dead.
* `LastWins`, `ObjectsWin` – what the map holds, said without the loops.
* `EnvironIsMounted` – nothing with the prefix is lost, nothing else comes in.
* `SameOnEveryRun` – the outcome, the variable that is blamed included, is a
  function of the set of variables and not of the order `os.Environ` has.
* `QuotedValueSurvives` – writing a text between quotes and reading it back.
* `OnlyMountedLinesFail` – exactly which files fail.
* `BuildsPathMap` – the adapter is a caller of `Build`.

### 3.5 Units

Words of eight bits and periods of five, with all the numbers around the edges:
every integer of the word and its neighbours, and decimals from 10^-6 to 10^4
around the powers of two and ten. The unit tables hold a unit of 1, some that
divide the word and some that do not, the greatest that fits and two that do
not fit. `Top` and `Bottom`, the powers of ten at which `truncProduct` stops
computing, have the same slack against the word and the largest unit as 20 and
25 have against 2^63 and 2^80 (`EstimateAssumption`). `IntegersExact` states
the product, `FractionsExact` the truncated product by two inequalities,
without a division.

### 3.6 Memory

`heap` takes every document of up to four fields of a menu of 16: object
literals nested two deep under one key, paths into them (two and three long,
one that refers to itself), references to the key and into it, `+=`, and three
includes, one of them mounted under the key and one that appends to what is
there. Four fields are two that make a prior share an object, one that writes
into it and one that looks back.

* `HeapIsTree` – as long as no path has led into an object that is also a
  prior and nothing was relativized twice, memory holds the tree of
  `BuildTree`, priors included. The two ghosts are the only exceptions, so this
  says where the other runs, which compute with values, are exact.
* `ValuesUntouched` – even then the keys hold what they should: a write through
  a shared object changes what a look-back finds, and never a value.

### 3.7 Text

`parser` starts from three kinds of text: every key of up to five pieces
(letters, digits, a sign, `true`, quoted and empty strings, dots and blanks)
with three ways to go on; documents of two fields with every value of a menu
(arrays, objects, concatenations, references, strings of up to three
characters that need quotes or escapes), or an include in each of its forms,
written in every layout; and every sequence of up to four pieces of objects
and arrays, and of includes.

* `KeyAsWritten` – `parseKey` splits a key where one reads it, character by
  character, however the lexer has cut it, and finds the value after it. Five
  pieces are a number, a word and a dot with something on either side, the
  least chain in which the borders of tokens and of segments differ twice.
* `PathsReadAlike` – the same characters name the same path in a field, in
  `${…}` and in a getter.
* `ReadsBack` – what is written in any layout is parsed to what was meant.
* `NothingDropped` – of any accepted text, well-meant or not, every letter is
  in the AST, in order.

The guards name what the three readers do not agree on: `Glued` (quoted text
that touches unquoted text), `Forgotten` (below), `SubstDiffers` (a
substitution drops blanks around a dot and wants a digit after a leading
minus), `QuotesAlone` (`splitPath` knows quotes only around a whole segment),
`Swallowed` (`file(a"b")` loses the `a`).

### 3.8 Getters and unmarshalling

`unmarshal` starts from a menu of trees (scalars of every kind, nested objects,
lists, objects with numeric keys, placeholders at three depths, resolved and
not), 25 Go types, and seven paths, the empty one among them; a program takes
other Configs, scopes and unmarshals in any order, so that a variable holds
what earlier calls left. Words of eight bits, an `int` of six (a 32-bit
platform), exponents from -6 to 5, and numbers around each edge in many
spellings: `12.80e1`, `1280e-1`, `-128.0`.

* `FormsAgree` – Get panics where GetE fails and GetOption is None there, with
  the one exception of the empty path, on which options panic.
* `ConfigScopes` – a path from a sub-Config answers as the whole path does from
  the Config that the program was handed (`Trees` are the values that can be
  reached in these Configs, `Paths` those the program uses). `GetConfig` marks what it returns as
  resolved, so this fails if a placeholder ever comes along.
* `UnmarshalReads` – `UnmarshalPath` leaves what the getter of the type gives
  and fails where it fails; null leaves a scalar alone; an integer is read from
  every exact spelling that fits and never rounded or wrapped; each field of a
  struct is what its own path unmarshals to.
* `UnresolvedNeverRead` – what is read without an error from a tree with
  placeholders is the same whatever the placeholders turn out to be.

In these two runs deadlock is checked: a parse that is done repeats itself, and
a program can always read another Config.

### 3.9 Where the properties stop, and why

The equations between documents do not hold for every document. Where they fail
the code loses a value, and each guard in `DocumentMeaning` and in the MC
modules names one way in which it does. Four of the deviations are runs that
expect a violation:

* `include_optional` – an include without extension calls `os.Stat` and then
  loads what it saw *as required*. If the file disappears in between, the
  parse fails (`resolver.go:1668`).
* `cycles` – `b=${a}, b=${b}, a=${?b}, a=${?b}`: every look-back ends at a
  prior that names the other key, and look-backs are not guarded by
  `resolving`. Go's stack overflows.
* `env_nul` – `pathmap.joinKey` writes a NUL between two segments and says that
  none can hold one. A name of `Options.Environ` or of a `.env` file can:
  with `Pa__b__c` set, a variable `Pa<NUL>b` is taken for the parent `a.b` and
  its value is dropped. The collision index of the environment adapter had the
  same flaw once and was given keys with lengths; the path map was not.
* `mounted` – `a={l=[${q}]}, a={t=3}, q=6`, included under `p`: the array is
  reached through the value of `a` and through its saved prior,
  `relativizeVals` rewrites it in place both times, and the reference becomes
  `p.p.q`, which falls back to nothing. Guard: `twice`.

Others that no run singles out, each with its guard:

* `a=1`, then an included `a=${a}x, a=${a}x`: the result is `1x`, although the
  code says "as if they had been written inline". The first link of the
  included chain is required and has no prior inside the file, so it is not
  saved and nothing is left to stitch. With `${?a}` the result is `1xx`.
  Guard: `Deferrable`.
* `a=${?b}, a.k=6` forgets the object that `b` is, `a { k = 6 }` does not.
  Guard: `OntoObjects`.
* A receiver with two `+=` over a fallback with one drops the fallback's
  element. Guards: `SingleLayer` for the fallback, `Deferrable` for the
  receiver.
* `b=${?n}` with the source `b={k=5}` comes back from `ResolveWith` as
  `b={k=5}`, although "source's keys are NOT merged into the result"
  (`config.go:1165`): the receiver is resolved merged over the source, where
  the source's value is what `b` falls back to, and the result is filtered by
  keys. Likewise `b={z=1}, a=${b}` with the source `a={y=2}` gets the source's
  `y`. Guard: `Disjoint`.
* Of four `a.k += …`, the third in an included file, one is lost, because
  `setPath` prefers the resolver's prior, which the include merge did not
  update (`resolver.go:1578`; guard `PathAround`).
* A fallback that is itself a merged Config loses its own fallback when both it
  and the receiver refer to their own key: `b=${?b}` over (`b=${?b}` over
  `b=4`) is nothing, `(b=${?b} over b=${?b}) over b=4` is 4, because the
  fallback's value is folded without its prior (`resolver.go:171`; guard
  `Covers`).
* `a={s={x=1}}, a={y=2,h=${a}}, a.s.z=3`: the path writes into the object that
  is also the prior of `a`, and `h` shows `z`. Guard: `wrote`.
* `123a. = 1` is the key `123a`, although a trailing dot is refused after any
  other key (`parser.go:849`, CHANGELOG.md:890). Text that is appended to a
  number is split by `splitKeySegments`, which drops the last empty piece, and
  a quoted dot at the end of such a chain is split too. Guard: `Forgotten`.
* A path through a placeholder is "key not found" and not "not resolved" to a
  getter and to `UnmarshalPath`: only the value at the end of the path is
  asked. The README of the repository promises `ErrNotResolved` for paths
  touching one.
* `GetXOption("")` panics, where the README says that options never do.
* `GetInt64` refuses `1.0` and `1e3`, `Unmarshal` into an integer reads them
  (CHANGELOG.md:790 calls it consistent with the typed getters); `GetInt`
  wraps on a 32-bit platform, `Unmarshal` into an `int` refuses. `IntegerRead`
  is therefore said of numbers and not of the getter.
* A null element is an error to a slice getter and the zero value to
  `Unmarshal`.

The remaining ones are excluded by `OnePriorDeep`, and by `MeaningAgrees` leaving out
documents whose meaning is an error:

* `a=3, a=${?n}, a=${a}` with `n` undefined drops `a`: the prior saved for the
  third layer is the absent reference, and what lay below it is gone.
* An object over a value that is a placeholder or not an object, then
  overwritten by a self-reference, keeps only its own fields.
* `${?a.k}` over a prior that is itself a placeholder stays as it is.
* `b=${?n}, a=${b}` drops `a`, although `${b}` is required and undefined.

Not on the menu, because they are known to differ from the meaning: object
literals that refer to the key they are assigned to (`a={m=${?a}}`), and
references to a field of a key whose value is a placeholder (`${b.k}` with
`b=${c}`), which the code reports as unresolved.

## 4. The proofs

`tlapm <module>.tla`. The proofs are for every value of the constants under the
assumptions the modules name; TLC evaluates each of these on the instances of
the runs.

**`InliningProofs`**, first part: the bookkeeping (from `SourceAssumption`,
`WorldAssumption`, `KeyAssumption`: types of the constants, and that keys of
files, of packages and of the top document differ). `IncludeInv` is `TypeOK`, `Shape` (a frame
that probes stands at an include; a parse that builds has a frame),
`StackIsOpenSources` and `NoSourceTwice`. `NoSourceTwice` alone is not
inductive: a push is only known to be new because the stack that was searched
*is* the list of open frames, so it needs `StackIsOpenSources`, and this needs
`Shape` to know that the frame on top is not the document's own. `InvNext` has
one step per action; steps that replace the top frame, push one or pop one are
the lemmas `SetFrameKeepsInv`, `FramePushed`, `FramePopped`. From it follow
`TypeCorrect`, `StackDiscipline`, `NoReentry`, `CircularErrorsAreReal` (an
action property) and `DepthIsBounded`: for a finite set of sources the frames
are at most one more than the sources, by the pigeonhole principle.

Second part: the result (the same assumptions, `FiniteAssumption`: finitely many
sources, and `RefusedAssumption`: a refusal is no text). `InliningIsDefined`
comes first, for a recursive function may have no value: each include inside
another source leaves one source less that is not open, so the inlinings up to
depth n exist for every n (`Induction`), and the number of sources bounds the
depth. The main theorem is `ExpansionIsInlining`: a parse of any document in
any world that stands still returns the fields of its inlining, and fails
exactly when there is none.

Its inductive invariant `InlineInv` reads the activations of `resolveObject`,
from the innermost outwards, as a text: what a frame has built, then what the
frame above it makes, then what its remaining items contribute (`Pending`, with
the extensions that are left of a probe). `Heading` says that this text is the
inlining of the document at every moment; a refusal among the parts is a
refusal of the whole. `Probed` is the strengthening the probing loop needs: an
extension that was seen by `os.Stat` is there, and is loaded as required without
harm, *because* the world does not move (the run `include_optional` shows what
happens when it does). A step that reads a field or opens, skips or closes a
source moves text from one of the three parts to another and leaves the sum
alone (`HeadingKept`, `HeadingPushed`, `HeadingPopped`); a step that fails shows
that one of the parts is refused (`HeadingRefused`). Here `IncludeInv` is needed
too: the code refuses a source that is on `includeStack`, the reference one that
is open around it, and `StackIsOpenSources` says that these are the same.

**`PackageRegistryProofs`** (from `MemoryAssumption`: buffers, blocks and the
special values differ). `RegistryInv` is `TypeOK`, `LockInv` and `CallInv`
(each process is where its call takes it). `LockInv` says more than exclusion:
between `Check` and `Store` the key is still absent, which is what makes the
two one atomic step. `MapStep` shows that every step is a step of `PackageMap`
or a stutter: `Check` and `Store` of a registration, `Read`, `Unregister` and
`Reset` are the effects; the others are silent. The delicate one is `Store`:
the block it writes is free, so no content that the map or a reader refers to
changes. `Refinement` and `FirstContent` follow, for any number of goroutines,
packages and blocks.

**`PathMapProofs`** (no assumptions). `MapInv` says how far each loop has come:
the scopes hold the key of every parent of the entries scanned (`Covered`),
every leaf is no scope and is the last entry for its path so far (`IsLast`), no
leaf is a parent of an inserted path. That `insert` never clashes follows from
`Covered`: a leaf that is the parent of an entry would have had its key among
the scopes. It holds even where two paths have one key, which is why
`InsertNeverClashes` and `LastEntryWins` need nothing of `joinKey`.

That the objects win does depend on it. `ObjectsWinByKey` says so for paths
whose keys are distinct, and `JoinKeyInjective` when they are: two paths whose
segments hold no NUL have one key only if they are equal. Their last segments
start after the last NUL of the key, so they are cut at the same place, and
what is left are two shorter paths with one key. `ObjectsWinWithoutNul` puts
them together with the invariant `ObjectsFollow` (an object is a parent of an
inserted entry) into the property `ObjectsWin`, under the only hypothesis that
no segment holds a NUL; `env_nul` is the run in which one does.

**`EnvTextProofs`** (from `AlphabetAssumption`: `Order` lists every character
once, letters have one lower case, and that is no letter again and neither `_`
nor NUL) says what the operators on texts compute, for any alphabet and texts
of any length. A recursive function is a `CHOOSE`, so each first gets its
defining equation (`ToPathEquation`, `JoinedEquation`, `PathKeyEquation`,
`EscapedEquation`, `UnescapedEquation`), from the solutions that `Induction`
constructs; what follows is by induction on the length. Five facts carry the
theorems about the adapter:

* `toPath` and `Joined` are inverse: the name that spells the path of a name is
  that name in lower case (`JoinedOfToPath`), and a name that spells a path in
  the normal form `Spelled` is taken to this path and to no other
  (`NamesItsPath`). `strings.Split` takes pairs of underscores from the left,
  which is why a segment that ends in `_` can only be the last.
* `pathKey` is injective (`PathKeyInjective`): no digit is a `:`, so the length
  of the first segment ends at the first `:`, decimal numbers are distinct
  (`DecimalInjective`), and equal lengths cut equal keys alike (`EqualCuts`).
* `sorted` lists every variable once, in the order of the bytes
  (`SortedLists`): `Before` is a strict total order, and a finite set with one
  has an increasing enumeration, by insertion.
* A text that was escaped and closed with a quote is read back
  (`EscapedReadBack`).
* A line `NAME="..."` around such a text is a pair with that name and that
  value (`QuotedLine`): neither `TrimSpace` nor `export` nor the first `=` takes
  away anything of either.

**`EnvMountProofs`** (in addition from `InputsAssumption`: an input is a finite
sequence of texts and has one of the two origins, `LimitAssumption`,
`ProbesAssumption` and `TextsAssumption`, which type what the properties look
up). `AdapterCallsBuild` is the refinement, and `EnvironNeverClashes` takes two
theorems of `PathMap` over to the adapter. `FilesFailForTheirOwnLines` says
which `.env` files are refused: those with a line that is no `NAME=value` or not
valid UTF-8, and those with a line of the prefix whose name, value or path
cannot be read. The invariant `FromInputs` carries the lines through the two
loops: the pairs are the mounted lines so far, in their order (`Enumerates`: an
increasing map from pairs to lines, so that none is missing and none is read
twice), the entries are the paths of the first pairs (`PairsMounted`), and an
error always has its line. `Build` itself adds no error, by `MapInv`.

`FromEnviron` is the invariant for an environment: the pairs are the variables
with a `=` among those that were read, in the order of `sorted`
(`VariablesRead`), the entries are the selected, decodable, short enough pairs
(`PairsEntered`), no two entries have one path (`KeysOnce`), the index of
collisions holds exactly their keys, and a failed call blames the least
variable that has to be refused (`Blamed`). None of these can be left out: that
the *least* one is blamed holds because the loop passed over every earlier one
without an error, which needs `VariablesRead` and `PairsEntered` at every step,
and a collision is one of *paths* only by `PathKeyInjective`. `OutcomeHasNoOrder`
is `SameOnEveryRun` for environments of any size: success and the variable that
is blamed are said without a permutation, so they do not depend on one.

`EnvironMountedWithoutNul` and `QuotedValuesSurvive` are `EnvironIsMounted` and
`QuotedValueSurvives` under `NamesHoldNoNul`, which says of the input what the
comment of `joinKey` takes for granted of the segments. The run `env_nul`
refutes the first without it, and the run `env` reaches inputs of both origins
that satisfy it. The paths of names without NUL have no NUL in their segments,
so `ObjectsWinWithoutNul` and `LastEntryWins` say what the map holds, and the
invariants say which entry that is: the only one of its path in an environment,
the last line with its path in a file.

**`UnitsProofs`** (from `WordAssumption`: the seven-fold of a 32-bit number is a
64-bit number, and the units in the tables are positive; durations fit; and
`EstimateAssumption`, below). `BoundsAreExact`: a truncated quotient is within
one multiple of its dividend on the side of zero (`QuotBounds`), so the two
comparisons are the two ends of the word. `DividingBackIsExact`: the wrapped
product is off by whole turns of 2^64; had it divided back to its factor, it
would be off by less than the multiplier, which is less than a turn, hence by
nothing. `IntegersAreExact` takes both to the readers, with no assumption on
the width. `FractionsAreExact` is the same for numbers with a point or an
exponent. `truncProduct` decides two cases by the length of the number alone,
and `LengthBounds` (a number lies between the powers of ten its length names)
shows that both decisions are the ones the product would give: past `Top` the
product is beyond the word (`LongIsPast`), below `-Bottom` it is less than one
(`ShortIsZero`). `EstimateAssumption` is what the comment of `truncProduct` says of
its two bounds: 10^20 is past 2^63 and no unit is more than 10^25.

**`GettersProofs`** (from `TreesAssumption`: the Configs are made of `Trees`,
which holds the values inside each of them, and an object around a placeholder
holds a placeholder; `PathsAssumption`: paths are finite sequences). What a
text reads as stays open. Every form of a result is brought to one:
`LookupsAgree` shows that `lookup`, which asks for placeholders first, and
`lookupE`, which asks for the value first, answer alike; `Forget` turns a
result into what an option can say, and `SoftAgrees`, `StringAgrees`,
`ArraysAgree`, `SlicesAgree`, `ScopesAgree` show, reader by reader, that the
code of the options computes `Forget` of the other forms. `ReadersAgree` puts
the cases of `Kinds` together and needs no invariant of the program: the three
agree on every tree, reachable or not. `ChainsScope` does need one (`Scoped`):
after any chain of `GetConfig`s the program stands at the value that the whole
path leads to, and if it stands elsewhere than at the start, there is no
placeholder below it. `FollowOn` (following one path and then another is
following both) is the induction behind it.

**`Induction`** holds what the other modules need of the natural numbers and of
sequences. The theorems of the library take an operator for the induction
hypothesis, which the provers cannot instantiate. So the hypothesis is a set
here: a set of numbers with 0 and the successor of each of its numbers is all of
`Nat` (`NatInSet`, from the existence of a least element), a set of sequences
that holds one whenever it holds every shorter one holds all of them
(`ShorterInSet`), and from these every recursion on the numbers, or on the rest
of a sequence after one element and after two, has a solution (`Recursion`,
`BoundedRecursion`, `SizeRecursion`, `SequenceRecursion`). For the same reason
what is recursive in a proof is a function on a set, never an operator.

Only model-checked:

* `ParseEnds` and `CallsReturn`: liveness.
* `EnvironIsMounted` and `QuotedValueSurvives` where a name holds a NUL: the
  first is refuted by `env_nul`, and the menu of `env` has no such name.
* Everything about trees, documents, texts and memory (`documents`, `heap`,
  `parser`) and `Unmarshal`: their operators recur over data and are declared
  `RECURSIVE`.

`TypeOK` and `LockInv` of the registry are only proved.

## 5. What is not modelled

Positions, messages and origins of errors; `\uXXXX`; the `url` and `classpath`
words of an include. Rendering, the value factory, and the format adapters but
`env`: see the component list in `PROJECT.json`. The phases are not composed
end to end: `Parser` yields the AST that `BuildTree` takes as given, and
`Getters` takes the tree that `ConfigLifecycle` ends with. In `Getters` a word
is none that `ParseFloat` reads (`inf`, `0x1p2`), and `float32` is left out; in
`Unmarshal`, unexported fields, fields tagged `-`, interfaces with methods, and
targets that are not pointers. Environment lists
(`${X[]}`) and keys with dots are in `ResolveTree` (`EnvLists`, `Dots`) and
empty in the runs. `file(...)` includes with absolute paths are covered by
`Locate`, which maps a path to the same file from every directory.
