-------------------------- MODULE IncludeExpansion --------------------------
(***************************************************************************)
(* Phase 1 of a parse: internal/resolver expands the include directives of *)
(* a document depth first, while the file system and the package registry  *)
(* may change under it.  One frame of `frames' is one activation of        *)
(* resolveObject over one source; `stack' is the includeStack shared by    *)
(* the resolvers of all these activations.  What the fields of a source    *)
(* mean is left to other modules: here a field is a token, and a source    *)
(* contributes its tokens in the order in which they are applied.          *)
(***************************************************************************)
EXTENDS Naturals, Sequences

CONSTANTS
  Dirs,       \* directories an include path can be relative to
  Cwd,        \* the working directory of the process
  Paths,      \* include paths as written, without their extension
  Stems,      \* cleaned absolute paths, without their extension
  Locate,     \* [Dirs \X Paths -> Stems]: filepath.Join + Abs + Clean
  DirOf,      \* [Stems -> Dirs]: filepath.Dir
  Packages,   \* (identifier, file) pairs of include package(...)
  Fields,     \* the tokens that stand for ordinary fields
  Contents,   \* texts a file or a package can hold
  Malformed,  \* the texts the parser refuses (syntax error, array at the root)
  Body,       \* [Contents -> Seq(Item)]: what a well-formed HOCON text holds
  Props,      \* [Contents -> Seq(Fields)]: what it holds as .properties text
  Top,        \* the file given to ParseFile
  FileSystems, \* the states of the file system the parse may meet
  Registries, \* the states of the package registry it may meet
  Volatile,   \* those between which it changes while a parse runs, with the registry
  Absent, Unreadable, Hidden,
  TopKey      \* the key of the document itself, which is on no stack

Extension == <<"properties", "json", "conf">>
Extensions == {"properties", "json", "conf"}
Files == Stems \X Extensions
Keys == Files \cup Packages

\* Unreadable: Stat succeeds, ReadFile fails (permissions, a directory).
\* Hidden: both fail, with an error that is not "does not exist".
FileState == Contents \cup {Absent, Unreadable, Hidden}

FieldItem == [kind : {"field"}, field : Fields]
FileItem == [kind : {"include"}, from : {"base", "cwd"}, path : Paths,
             ext : Extensions \cup {"none"}, required : BOOLEAN]
PackageItem == [kind : {"package"}, pkg : Packages]
Item == FieldItem \cup FileItem \cup PackageItem

ASSUME SourceAssumption ==
  /\ Cwd \in Dirs
  /\ Locate \in [Dirs \X Paths -> Stems]
  /\ DirOf \in [Stems -> Dirs]
  /\ Malformed \subseteq Contents
  /\ Body \in [Contents -> Seq(Item)]
  /\ Props \in [Contents -> Seq(Fields)]
  /\ Top \in Files

ASSUME WorldAssumption ==
  /\ FileSystems \subseteq [Files -> FileState]
  /\ Registries \subseteq [Packages -> Contents \cup {Absent}]
  /\ Volatile \subseteq FileSystems
  /\ {Absent, Unreadable, Hidden} \cap Contents = {}
  /\ Absent # Unreadable /\ Absent # Hidden /\ Unreadable # Hidden

\* "package:<n>:..." never equals an absolute path, and neither is the top.
ASSUME KeyAssumption == Files \cap Packages = {} /\ TopKey \notin Keys

VARIABLES
  fs,        \* the file system
  registry,  \* the package registry, as the lookup callback sees it
  document,  \* the text given to parseWithOptions and its BaseDir
  status,    \* "idle", "building", "failing" (unwinding), "failed", "done"
  frames,    \* the activations of resolveObject, outermost first
  stack,     \* includeStack
  error,     \* why the parse fails: a record, or NoError
  built      \* what the parse returned

vars == <<fs, registry, document, status, frames, stack, error, built>>
world == <<fs, registry>>

NoDocument == [text |-> Absent, base |-> Cwd]
NoError == [kind |-> "none", key |-> TopKey, required |-> TRUE]
ErrorKinds == {"none", "circular", "absent", "unreadable", "stat",
               "malformed", "unregistered"}

\* probe: 0 while scanning fields, otherwise the extension tried next by an
\* include without one (4: all tried); statted: its file was seen to exist.
Frame == [key : Keys \cup {TopKey}, base : Dirs, todo : Seq(Item),
          probe : 0..4, statted : BOOLEAN, found : BOOLEAN, out : Seq(Fields)]

NewFrame(key, base, content) ==
  [key |-> key, base |-> base, todo |-> Body[content],
   probe |-> 0, statted |-> FALSE, found |-> FALSE, out |-> <<>>]

frame == frames[Len(frames)]
item == Head(frame.todo)
SetFrame(f) == [frames EXCEPT ![Len(frames)] = f]
Advance(f) == [f EXCEPT !.todo = Tail(@), !.probe = 0, !.statted = FALSE,
                        !.found = FALSE]
Emit(f, tokens) == [f EXCEPT !.out = @ \o tokens]

Fail(kind, key, required) ==
  /\ status' = "failing"
  /\ error' = [kind |-> kind, key |-> key, required |-> required]
  /\ UNCHANGED <<world, document, frames, stack, built>>

\* Mutant: only the including source is looked at.
InStackTopOnly(key) == stack # <<>> /\ stack[Len(stack)] = key

InStack(key) == \E i \in 1..Len(stack) : stack[i] = key

-----------------------------------------------------------------------------
(* The start of a parse *)

Scanning == status = "building" /\ frame.probe = 0

\* parseWithOptions: parse the text, then BuildTree with an empty stack.
ParseDocument(text, base) ==
  IF text \in Malformed THEN Fail("malformed", TopKey, TRUE)
  ELSE /\ status' = "building"
       /\ document' = [text |-> text, base |-> base]
       /\ frames' = <<NewFrame(TopKey, base, text)>>
       /\ UNCHANGED <<world, stack, error, built>>

\* ParseFile: the top file is read, but it is not pushed on includeStack.
ParseFile ==
  /\ status = "idle"
  /\ IF fs[Top] \in Contents
     THEN ParseDocument(fs[Top], DirOf[Top[1]])
     ELSE Fail("unreadable", TopKey, TRUE)

\* ParseString: no path, so BaseDir defaults to the working directory.
ParseString(text) ==
  /\ status = "idle"
  /\ ParseDocument(text, Cwd)

-----------------------------------------------------------------------------
(* resolveObject: one field after the other *)

ApplyField ==
  /\ Scanning /\ frame.todo # <<>> /\ item.kind = "field"
  /\ frames' = SetFrame(Advance(Emit(frame, <<item.field>>)))
  /\ UNCHANGED <<world, document, status, stack, error, built>>

\* Mutant: the extension after a file that was found is not tried.
ResumedSkipping == IF frame.probe = 0 THEN Advance(frame)
                   ELSE [frame EXCEPT !.probe = @ + 2, !.statted = FALSE, !.found = TRUE]

\* The parent of an include reads on once the included source returned.
Resumed == IF frame.probe = 0 THEN Advance(frame)
           ELSE [frame EXCEPT !.probe = @ + 1, !.statted = FALSE, !.found = TRUE]

\* loadIncludeFile: cycle check, push, read, parse, recur; a failed load is
\* popped by its deferred function, so that a load which returns at once
\* (missing and optional, .properties) leaves the stack as it was.
LoadFile(file, required) ==
  IF InStack(file) THEN Fail("circular", file, item.required)
  ELSE IF fs[file] = Absent /\ ~required
  THEN /\ frames' = SetFrame(Resumed)
       /\ UNCHANGED <<world, document, status, stack, error, built>>
  ELSE IF fs[file] \notin Contents
  THEN Fail(IF fs[file] = Absent THEN "absent" ELSE "unreadable", file, item.required)
  ELSE IF fs[file] \in Malformed THEN Fail("malformed", file, item.required)
  ELSE IF file[2] = "properties"
  THEN /\ frames' = SetFrame(Emit(Resumed, Props[fs[file]]))
       /\ UNCHANGED <<world, document, status, stack, error, built>>
  ELSE /\ stack' = Append(stack, file)
       /\ frames' = Append(SetFrame(Resumed), NewFrame(file, DirOf[file[1]], fs[file]))
       /\ UNCHANGED <<world, document, status, error, built>>

\* Mutant: file("...") is relative to the BaseDir too.
TargetInBase == Locate[<<frame.base, item.path>>]

\* file("...") is relative to the working directory, "..." to the BaseDir.
Target == Locate[<<IF item.from = "cwd" THEN Cwd ELSE frame.base, item.path>>]

IncludeFile ==
  /\ Scanning /\ frame.todo # <<>> /\ item.kind = "include" /\ item.ext # "none"
  /\ LoadFile(<<Target, item.ext>>, item.required)

\* An include without extension tries .properties, .json and .conf in turn.
StartProbe ==
  /\ Scanning /\ frame.todo # <<>> /\ item.kind = "include" /\ item.ext = "none"
  /\ frames' = SetFrame([frame EXCEPT !.probe = 1])
  /\ UNCHANGED <<world, document, status, stack, error, built>>

Probing == status = "building" /\ frame.probe \in 1..3
Candidate == <<Target, Extension[frame.probe]>>

\* Mutant: an absent candidate is tried again.
StatAgain ==
  /\ Probing /\ ~frame.statted
  /\ frames' = SetFrame(IF fs[Candidate] = Absent THEN frame
                        ELSE [frame EXCEPT !.statted = TRUE])
  /\ UNCHANGED <<world, document, status, stack, error, built>>

Stat ==
  /\ Probing /\ ~frame.statted
  /\ IF fs[Candidate] = Hidden
     THEN Fail("stat", Candidate, item.required)
     ELSE /\ frames' = SetFrame(IF fs[Candidate] = Absent
                                THEN [frame EXCEPT !.probe = @ + 1]
                                ELSE [frame EXCEPT !.statted = TRUE])
          /\ UNCHANGED <<world, document, status, stack, error, built>>

\* The file seen by Stat is loaded as a required one.
LoadProbed ==
  /\ Probing /\ frame.statted
  /\ LoadFile(Candidate, TRUE)

EndProbe ==
  /\ status = "building" /\ frame.probe = 4
  /\ IF ~frame.found /\ item.required
     THEN Fail("absent", <<Target, "conf">>, TRUE)
     ELSE /\ frames' = SetFrame(Advance(frame))
          /\ UNCHANGED <<world, document, status, stack, error, built>>

\* loadPackageInclude: a miss is an error even for an optional include; the
\* text inherits the BaseDir of the source that includes it.
IncludePackage ==
  /\ Scanning /\ frame.todo # <<>> /\ item.kind = "package"
  /\ LET pkg == item.pkg IN
     IF InStack(pkg) THEN Fail("circular", pkg, TRUE)
     ELSE IF registry[pkg] = Absent THEN Fail("unregistered", pkg, TRUE)
     ELSE IF registry[pkg] \in Malformed THEN Fail("malformed", pkg, TRUE)
     ELSE /\ stack' = Append(stack, pkg)
          /\ frames' = Append(SetFrame(Advance(frame)),
                              NewFrame(pkg, frame.base, registry[pkg]))
          /\ UNCHANGED <<world, document, status, error, built>>

-----------------------------------------------------------------------------
(* Returning, with a result or with an error *)

Pop(s) == SubSeq(s, 1, Len(s) - 1)

\* Mutant: the deferred pop is missing on success.
ReturnIncludeNoPop ==
  /\ Scanning /\ frame.todo = <<>> /\ Len(frames) > 1
  /\ frames' = [Pop(frames) EXCEPT ![Len(frames) - 1] = Emit(@, frame.out)]
  /\ UNCHANGED <<world, document, status, stack, error, built>>

\* The end of an included source: pop includeStack, hand the fields over.
ReturnInclude ==
  /\ Scanning /\ frame.todo = <<>> /\ Len(frames) > 1
  /\ stack' = Pop(stack)
  /\ frames' = [Pop(frames) EXCEPT ![Len(frames) - 1] = Emit(@, frame.out)]
  /\ UNCHANGED <<world, document, status, error, built>>

ReturnTop ==
  /\ Scanning /\ frame.todo = <<>> /\ Len(frames) = 1
  /\ status' = "done"
  /\ built' = frame.out
  /\ frames' = <<>>
  /\ UNCHANGED <<world, document, stack, error>>

\* Mutant: the pop is missing on the error path.
UnwindNoPop ==
  /\ status = "failing" /\ Len(frames) > 1
  /\ frames' = Pop(frames)
  /\ UNCHANGED <<world, document, status, stack, error, built>>

\* An error returns through every activation; each deferred pop runs.
Unwind ==
  /\ status = "failing" /\ Len(frames) > 1
  /\ stack' = Pop(stack)
  /\ frames' = Pop(frames)
  /\ UNCHANGED <<world, document, status, error, built>>

Failed ==
  /\ status = "failing" /\ Len(frames) <= 1
  /\ status' = "failed"
  /\ frames' = <<>>
  /\ UNCHANGED <<world, document, stack, error, built>>

-----------------------------------------------------------------------------
(* The world outside the parse *)

FileChanges ==
  /\ fs \in Volatile
  /\ fs' \in Volatile
  /\ UNCHANGED <<registry, document, status, frames, stack, error, built>>

PackageChanges ==
  /\ fs \in Volatile
  /\ registry' \in Registries
  /\ UNCHANGED <<fs, document, status, frames, stack, error, built>>

-----------------------------------------------------------------------------
Init ==
  /\ fs \in FileSystems
  /\ registry \in Registries
  /\ document = NoDocument
  /\ status = "idle"
  /\ frames = <<>>
  /\ stack = <<>>
  /\ error = NoError
  /\ built = <<>>

Parser ==
  \/ ParseFile
  \/ \E c \in Contents : ParseString(c)
  \/ ApplyField
  \/ IncludeFile
  \/ StartProbe
  \/ Stat
  \/ LoadProbed
  \/ EndProbe
  \/ IncludePackage
  \/ ReturnInclude
  \/ ReturnTop
  \/ Unwind
  \/ Failed

Next == Parser \/ FileChanges \/ PackageChanges

Spec == Init /\ [][Next]_vars

\* The parse runs on one goroutine that blocks on nothing but system calls.
FairSpec == Spec /\ WF_vars(Parser)

-----------------------------------------------------------------------------
(* Type invariant *)
TypeOK ==
  /\ fs \in [Files -> FileState]
  /\ registry \in [Packages -> Contents \cup {Absent}]
  /\ document \in [text : Contents \cup {Absent}, base : Dirs]
  /\ status \in {"idle", "building", "failing", "failed", "done"}
  /\ frames \in Seq(Frame)
  /\ stack \in Seq(Keys)
  /\ error \in [kind : ErrorKinds, key : Keys \cup {TopKey}, required : BOOLEAN]
  /\ built \in Seq(Fields)

(* What the activations look like between two steps. *)
Shape ==
  /\ status = "building" => frames # <<>>
  /\ status \in {"idle", "failed", "done"} => frames = <<>>
  /\ \A i \in 1..Len(frames) :
       frames[i].probe # 0 => frames[i].todo # <<>> /\ Head(frames[i].todo).kind = "include"

(* includeStack lists exactly the sources that are being expanded, in order,
   at every moment of a parse, and it is empty before and after one: the
   deferred pops of loadIncludeFile and loadPackageInclude run on success, on
   an error and on an early return, neither too often nor too late. *)
StackIsOpenSources ==
  IF frames = <<>> THEN stack = <<>>
  ELSE /\ Len(frames) = Len(stack) + 1
       /\ frames[1].key = TopKey
       /\ \A i \in 1..Len(stack) : stack[i] = frames[i + 1].key

(* No source is expanded inside its own expansion, whatever the files and the
   registry become while the parse runs: this is what bounds the recursion of
   resolveObject by the number of sources. *)
NoSourceTwice ==
  \A i, j \in 1..Len(frames) : frames[i].key = frames[j].key => i = j

(* The inductive invariant. *)
IncludeInv == TypeOK /\ Shape /\ StackIsOpenSources /\ NoSourceTwice

(* "circular include" is raised only about a source that is being expanded at
   that moment: including the same file twice, one after the other or on two
   branches, is legal and is never reported. *)
CircularIsReal ==
  [][error'.kind = "circular" /\ error.kind = "none"
       => \E i \in 1..Len(frames) : frames[i].key = error'.key]_vars

(* "Required=false means missing files are silently ignored" (ast.go:139): no
   parse fails because a file that is only included optionally is not there. *)
MissingOptionalIgnored ==
  ~(error.kind = "absent" /\ ~error.required)

(* Every parse ends, with a result or with an error, even while the files it
   reads are replaced, removed and restored without end. *)
ParseEnds == <>(status \in {"failed", "done"})
=============================================================================
