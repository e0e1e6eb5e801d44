--------------------------- MODULE InliningProofs ---------------------------
(***************************************************************************)
(* The expansion of includes keeps its bookkeeping right for every set of  *)
(* sources and every behaviour of the file system and of the registry, and *)
(* computes the inlining of its document for every finite set of sources:  *)
(* the activations of resolveObject are read as the parts of the inlined   *)
(* text that are still to come.                                            *)
(***************************************************************************)
EXTENDS Inlining, SequenceTheorems, FiniteSetTheorems, Induction, TLAPS

-----------------------------------------------------------------------------
(* The data of one activation *)

\* What the three kinds of items hold.
LEMMA ItemFields ==
  ASSUME NEW i \in Item
  PROVE  /\ i.kind \in {"field", "include", "package"}
         /\ i.kind = "field" => i.field \in Fields
         /\ i.kind = "include" => /\ i.path \in Paths
                                  /\ i.from \in {"base", "cwd"}
                                  /\ i.ext \in Extensions \cup {"none"}
                                  /\ i.required \in BOOLEAN
         /\ i.kind = "package" => i.pkg \in Packages
<1>1. CASE i \in FieldItem BY <1>1 DEF FieldItem
<1>2. CASE i \in FileItem BY <1>2 DEF FileItem
<1>3. CASE i \in PackageItem BY <1>3 DEF PackageItem
<1> QED BY <1>1, <1>2, <1>3 DEF Item

\* One assignment to a field of an activation keeps its type.
LEMMA FrameAssignments ==
  ASSUME NEW f \in Frame
  PROVE  /\ \A t \in Seq(Item) : [f EXCEPT !.todo = t] \in Frame
         /\ \A n \in 0..4 : [f EXCEPT !.probe = n] \in Frame
         /\ \A b \in BOOLEAN : [f EXCEPT !.statted = b] \in Frame
         /\ \A b \in BOOLEAN : [f EXCEPT !.found = b] \in Frame
         /\ \A t \in Seq(Fields) : [f EXCEPT !.out = t] \in Frame
<1>1. \A t \in Seq(Item) : [f EXCEPT !.todo = t] \in Frame BY DEF Frame
<1>2. \A n \in 0..4 : [f EXCEPT !.probe = n] \in Frame BY DEF Frame
<1>3. \A b \in BOOLEAN : [f EXCEPT !.statted = b] \in Frame BY DEF Frame
<1>4. \A b \in BOOLEAN : [f EXCEPT !.found = b] \in Frame BY DEF Frame
<1>5. \A t \in Seq(Fields) : [f EXCEPT !.out = t] \in Frame BY DEF Frame
<1> QED BY <1>1, <1>2, <1>3, <1>4, <1>5

\* The changes resolveObject makes to its own activation keep its type and key.
LEMMA EmitStep ==
  ASSUME NEW f \in Frame, NEW t \in Seq(Fields)
  PROVE  /\ Emit(f, t) \in Frame
         /\ Emit(f, t).key = f.key
         /\ Emit(f, t).probe = f.probe
         /\ Emit(f, t).todo = f.todo
<1>1. f.out \o t \in Seq(Fields) BY ConcatProperties DEF Frame
<1> QED BY <1>1, FrameAssignments DEF Emit, Frame

LEMMA AdvanceStep ==
  ASSUME NEW f \in Frame, f.todo # <<>>
  PROVE  /\ Advance(f) \in Frame
         /\ Advance(f).key = f.key
         /\ Advance(f).probe = 0
<1> DEFINE g == [f EXCEPT !.todo = Tail(f.todo)]
           h == [g EXCEPT !.probe = 0]
           k == [h EXCEPT !.statted = FALSE]
<1>1. Tail(f.todo) \in Seq(Item) BY HeadTailProperties DEF Frame
<1>2. g \in Frame BY <1>1, FrameAssignments
<1> HIDE DEF g
<1>3. h \in Frame
  <2>1. 0 \in 0..4 OBVIOUS
  <2> QED BY <1>2, <2>1, FrameAssignments
<1> HIDE DEF h
<1>4. k \in Frame BY <1>3, FrameAssignments
<1> HIDE DEF k
<1>5. [k EXCEPT !.found = FALSE] \in Frame BY <1>4, FrameAssignments
<1>6. Advance(f).key = f.key /\ Advance(f).probe = 0 BY DEF Advance, Frame
<1> QED BY <1>5, <1>6 DEF Advance, g, h, k

\* The activation that includes a source, at the moment the source is loaded.
LEMMA ResumedStep ==
  ASSUME NEW f \in Frame, f = frame, f.todo # <<>>, f.probe # 4
  PROVE  /\ Resumed \in Frame
         /\ Resumed.key = f.key
         /\ Resumed.probe # 0 => Resumed.todo = f.todo
<1>1. CASE f.probe = 0
  BY <1>1, AdvanceStep DEF Resumed
<1>2. CASE f.probe # 0
  <2> DEFINE g == [f EXCEPT !.probe = f.probe + 1]
             h == [g EXCEPT !.statted = FALSE]
  <2>1. f.probe + 1 \in 0..4 BY <1>2 DEF Frame
  <2>2. g \in Frame BY <2>1, FrameAssignments
  <2> HIDE DEF g
  <2>3. h \in Frame BY <2>2, FrameAssignments
  <2> HIDE DEF h
  <2>4. [h EXCEPT !.found = TRUE] \in Frame BY <2>3, FrameAssignments
  <2>5. Resumed = [h EXCEPT !.found = TRUE] BY <1>2 DEF Resumed, g, h
  <2>6. Resumed.key = f.key /\ Resumed.todo = f.todo BY <2>5 DEF Frame, g, h
  <2> QED BY <2>4, <2>5, <2>6
<1> QED BY <1>1, <1>2

\* A fresh activation.
LEMMA NewFrameType ==
  ASSUME NEW k \in Keys \cup {TopKey}, NEW b \in Dirs, NEW c \in Contents
  PROVE  /\ NewFrame(k, b, c) \in Frame
         /\ NewFrame(k, b, c).key = k
         /\ NewFrame(k, b, c).probe = 0
<1>1. Body[c] \in Seq(Item) BY SourceAssumption
<1> QED BY <1>1 DEF NewFrame, Frame

-----------------------------------------------------------------------------
(* The three ways in which a step changes the activations *)

\* The innermost activation, and the item it is at.
LEMMA FrameIsTop ==
  ASSUME IncludeInv, frames # <<>>
  PROVE  /\ Len(frames) \in 1..Len(frames)
         /\ frame \in Frame
         /\ frame.todo # <<>> => item \in Item
<1>1. Len(frames) \in Nat \ {0} BY EmptySeq DEF IncludeInv, TypeOK
<1>2. frame \in Frame BY <1>1, ElementOfSeq DEF IncludeInv, TypeOK, frame
<1>3. frame.todo # <<>> => item \in Item
  BY <1>2, HeadTailProperties DEF Frame, item
<1> QED BY <1>1, <1>2, <1>3

\* The innermost activation changes and keeps its key.
LEMMA SetFrameKeepsInv ==
  ASSUME IncludeInv, NEW f \in Frame, frames # <<>>,
         f.key = frame.key,
         f.probe # 0 => f.todo # <<>> /\ Head(f.todo).kind = "include"
  PROVE  LET fs2 == SetFrame(f) IN
         /\ fs2 \in Seq(Frame) /\ Len(fs2) = Len(frames) /\ fs2 # <<>>
         /\ \A i \in 1..Len(fs2) : fs2[i].key = frames[i].key
         /\ \A i \in 1..Len(fs2) : fs2[i].probe # 0
              => fs2[i].todo # <<>> /\ Head(fs2[i].todo).kind = "include"
<1> DEFINE fs2 == SetFrame(f)
<1>1. Len(frames) \in 1..Len(frames) /\ frames \in Seq(Frame)
  BY FrameIsTop DEF IncludeInv, TypeOK
<1>2. /\ fs2 \in Seq(Frame) /\ Len(fs2) = Len(frames)
      /\ \A i \in 1..Len(frames) : fs2[i] = IF i = Len(frames) THEN f ELSE frames[i]
  BY <1>1, ExceptSeq DEF SetFrame
<1>3. fs2 # <<>> BY <1>1, <1>2
<1> HIDE DEF fs2
<1>4. \A i \in 1..Len(fs2) : fs2[i].key = frames[i].key
  BY <1>2 DEF frame
<1>5. \A i \in 1..Len(fs2) : fs2[i].probe # 0
         => fs2[i].todo # <<>> /\ Head(fs2[i].todo).kind = "include"
  BY <1>2 DEF IncludeInv, Shape
<1> QED BY <1>2, <1>3, <1>4, <1>5 DEF fs2

\* The part of the invariant that speaks of the activations.
FramesOK ==
  /\ frames \in Seq(Frame)
  /\ stack \in Seq(Keys)
  /\ \A i \in 1..Len(frames) :
       frames[i].probe # 0 => frames[i].todo # <<>> /\ Head(frames[i].todo).kind = "include"
  /\ StackIsOpenSources
  /\ NoSourceTwice

LEMMA FrameKept ==
  ASSUME IncludeInv, NEW f \in Frame, frames # <<>>,
         f.key = frame.key,
         f.probe # 0 => f.todo # <<>> /\ Head(f.todo).kind = "include",
         frames' = SetFrame(f), stack' = stack
  PROVE  FramesOK' /\ frames' # <<>>
<1>1. /\ frames' \in Seq(Frame) /\ Len(frames') = Len(frames) /\ frames' # <<>>
      /\ \A i \in 1..Len(frames') : frames'[i].key = frames[i].key
      /\ \A i \in 1..Len(frames') : frames'[i].probe # 0
            => frames'[i].todo # <<>> /\ Head(frames'[i].todo).kind = "include"
  BY SetFrameKeepsInv
<1>2. Len(frames) \in Nat /\ Len(stack) \in Nat
  BY LenProperties DEF IncludeInv, TypeOK
<1>3. StackIsOpenSources'
  <2>1. /\ Len(frames) = Len(stack) + 1 /\ frames[1].key = TopKey
        /\ \A i \in 1..Len(stack) : stack[i] = frames[i + 1].key
    BY DEF StackIsOpenSources, IncludeInv
  <2>2. ASSUME NEW i \in 1..Len(stack) PROVE stack[i] = frames'[i + 1].key
    <3>1. i + 1 \in 1..Len(frames') BY <1>1, <1>2, <2>1
    <3>2. frames'[i + 1].key = frames[i + 1].key BY <3>1, <1>1
    <3> QED BY <3>2, <2>1
  <2>3. frames'[1].key = TopKey BY <1>1, <1>2, <2>1
  <2> QED BY <1>1, <2>1, <2>2, <2>3 DEF StackIsOpenSources
<1>4. NoSourceTwice'
  BY <1>1 DEF NoSourceTwice, IncludeInv
<1> QED BY <1>1, <1>3, <1>4 DEF FramesOK, IncludeInv, TypeOK

LEMMA FramePushed ==
  ASSUME IncludeInv, frames # <<>>, NEW f \in Frame,
         f.key = frame.key,
         f.probe # 0 => f.todo # <<>> /\ Head(f.todo).kind = "include",
         NEW key \in Keys, ~InStack(key),
         NEW g \in Frame, g.key = key, g.probe = 0,
         frames' = Append(SetFrame(f), g), stack' = Append(stack, key)
  PROVE  FramesOK' /\ frames' # <<>>
<1> DEFINE fs2 == SetFrame(f)
<1>1. /\ fs2 \in Seq(Frame) /\ Len(fs2) = Len(frames)
      /\ \A i \in 1..Len(fs2) : fs2[i].key = frames[i].key
      /\ \A i \in 1..Len(fs2) : fs2[i].probe # 0
            => fs2[i].todo # <<>> /\ Head(fs2[i].todo).kind = "include"
  BY SetFrameKeepsInv
<1>2. Len(frames) \in Nat /\ Len(stack) \in Nat /\ stack \in Seq(Keys)
  BY LenProperties DEF IncludeInv, TypeOK
<1>3. /\ frames' \in Seq(Frame) /\ frames' # <<>> /\ Len(frames') = Len(frames) + 1
      /\ \A i \in 1..Len(frames) : frames'[i] = fs2[i]
      /\ frames'[Len(frames) + 1] = g
  BY <1>1, AppendProperties
<1>4. /\ stack' \in Seq(Keys) /\ Len(stack') = Len(stack) + 1
      /\ \A i \in 1..Len(stack) : stack'[i] = stack[i]
      /\ stack'[Len(stack) + 1] = key
  BY <1>2, AppendProperties
<1>5. /\ Len(frames) = Len(stack) + 1 /\ frames[1].key = TopKey
      /\ \A i \in 1..Len(stack) : stack[i] = frames[i + 1].key
  BY DEF IncludeInv, StackIsOpenSources
<1> HIDE DEF fs2
<1>6. StackIsOpenSources'
  <2>1. Len(frames') = Len(stack') + 1 BY <1>3, <1>4, <1>5
  <2>2. frames'[1].key = TopKey BY <1>1, <1>2, <1>3, <1>5
  <2>3. ASSUME NEW i \in 1..Len(stack') PROVE stack'[i] = frames'[i + 1].key
    <3>1. CASE i = Len(stack) + 1
      <4>1. i + 1 = Len(frames) + 1 BY <3>1, <1>2, <1>5
      <4>2. frames'[i + 1] = g BY <4>1, <1>3
      <4> QED BY <3>1, <4>2, <1>4
    <3>2. CASE i \in 1..Len(stack)
      <4>1. i + 1 \in 1..Len(frames) BY <3>2, <1>2, <1>5
      <4>2. frames'[i + 1].key = frames[i + 1].key BY <4>1, <1>1, <1>3
      <4>3. stack'[i] = stack[i] /\ stack[i] = frames[i + 1].key BY <3>2, <1>4, <1>5
      <4> QED BY <4>2, <4>3
    <3>3. i = Len(stack) + 1 \/ i \in 1..Len(stack) BY <1>2, <1>4
    <3> QED BY <3>1, <3>2, <3>3
  <2> QED BY <2>1, <2>2, <2>3, <1>3 DEF StackIsOpenSources
<1>7. \A i \in 1..Len(frames) : frames'[i].key = frames[i].key /\ frames[i].key # key
  <2>1. \A i \in 1..Len(frames) : frames'[i].key = frames[i].key BY <1>1, <1>3
  <2>2. ASSUME NEW i \in 1..Len(frames) PROVE frames[i].key # key
    <3>1. CASE i = 1 BY <3>1, <1>5, KeyAssumption
    <3>2. CASE i # 1
      <4>1. i - 1 \in 1..Len(stack) /\ (i - 1) + 1 = i BY <3>2, <1>2, <1>5
      <4>2. stack[i - 1] # key BY <4>1 DEF InStack
      <4> QED BY <4>1, <4>2, <1>5
    <3> QED BY <3>1, <3>2
  <2> QED BY <2>1, <2>2
<1>8. NoSourceTwice'
  <2>1. ASSUME NEW i \in 1..Len(frames'), NEW j \in 1..Len(frames'),
               frames'[i].key = frames'[j].key
        PROVE  i = j
    <3>1. CASE i \in 1..Len(frames) /\ j \in 1..Len(frames)
      BY <3>1, <2>1, <1>7 DEF NoSourceTwice, IncludeInv
    <3>2. CASE i = Len(frames) + 1 /\ j \in 1..Len(frames)
      BY <3>2, <2>1, <1>3, <1>7
    <3>3. CASE i \in 1..Len(frames) /\ j = Len(frames) + 1
      BY <3>3, <2>1, <1>3, <1>7
    <3>4. CASE i = Len(frames) + 1 /\ j = Len(frames) + 1
      BY <3>4
    <3> QED BY <3>1, <3>2, <3>3, <3>4, <1>2, <1>3
  <2> QED BY <2>1 DEF NoSourceTwice
<1>9. \A i \in 1..Len(frames') :
        frames'[i].probe # 0 => frames'[i].todo # <<>> /\ Head(frames'[i].todo).kind = "include"
  BY <1>1, <1>2, <1>3
<1> QED BY <1>3, <1>4, <1>6, <1>8, <1>9 DEF FramesOK

LEMMA FramePopped ==
  ASSUME IncludeInv, Len(frames) > 1,
         frames' \in Seq(Frame), Len(frames') = Len(frames) - 1,
         \A i \in 1..Len(frames') :
           /\ frames'[i].key = frames[i].key
           /\ frames'[i].probe = frames[i].probe
           /\ frames'[i].todo = frames[i].todo,
         stack' = Pop(stack)
  PROVE  FramesOK' /\ frames' # <<>>
<1>1. Len(frames) \in Nat /\ Len(stack) \in Nat /\ stack \in Seq(Keys)
  BY LenProperties DEF IncludeInv, TypeOK
<1>2. frames # <<>> BY EmptySeq
<1>3. /\ Len(frames) = Len(stack) + 1 /\ frames[1].key = TopKey
      /\ \A i \in 1..Len(stack) : stack[i] = frames[i + 1].key
  BY <1>2 DEF IncludeInv, StackIsOpenSources
<1>4. /\ stack' \in Seq(Keys) /\ Len(stack') = Len(stack) - 1
      /\ \A i \in 1..Len(stack') : stack'[i] = stack[i]
  <2>1. \A i \in 1..(Len(stack) - 1) : stack[i] \in Keys BY <1>1, ElementOfSeq
  <2> QED BY <2>1, <1>1, <1>3, SubSeqProperties DEF Pop
<1>5. frames' # <<>> BY <1>1
<1>6. StackIsOpenSources'
  <2>1. Len(frames') = Len(stack') + 1 BY <1>1, <1>3, <1>4
  <2>2. frames'[1].key = TopKey BY <1>1, <1>3
  <2>3. ASSUME NEW i \in 1..Len(stack') PROVE stack'[i] = frames'[i + 1].key
    <3>1. i + 1 \in 1..Len(frames') /\ i \in 1..Len(stack) BY <1>1, <1>3, <1>4
    <3>2. frames'[i + 1].key = frames[i + 1].key BY <3>1
    <3> QED BY <3>1, <3>2, <1>3, <1>4
  <2> QED BY <2>1, <2>2, <2>3, <1>5 DEF StackIsOpenSources
<1>7. 1..Len(frames') \subseteq 1..Len(frames) BY <1>1
<1>8. NoSourceTwice'
  BY <1>7 DEF NoSourceTwice, IncludeInv
<1>9. \A i \in 1..Len(frames') :
        frames'[i].probe # 0 => frames'[i].todo # <<>> /\ Head(frames'[i].todo).kind = "include"
  BY <1>7 DEF IncludeInv, Shape
<1> QED BY <1>4, <1>5, <1>6, <1>8, <1>9 DEF FramesOK

-----------------------------------------------------------------------------
(* One step keeps the invariant *)

LEMMA LoadedFile ==
  ASSUME IncludeInv, status = "building", frames # <<>>, frame.probe # 4,
         frame.todo # <<>>, item.kind = "include",
         NEW file \in Files, NEW required \in BOOLEAN, LoadFile(file, required)
  PROVE  IncludeInv'
<1>1. frame \in Frame /\ item \in FileItem \cup Item /\ item.required \in BOOLEAN
  BY FrameIsTop, ItemFields
<1>2. /\ Resumed \in Frame /\ Resumed.key = frame.key
      /\ Resumed.probe # 0 => Resumed.todo # <<>> /\ Head(Resumed.todo).kind = "include"
  BY <1>1, ResumedStep DEF item
<1>3. file \in Keys /\ file[1] \in Stems /\ fs[file] \in FileState
  BY DEF Keys, Files, IncludeInv, TypeOK
<1>4. CASE \E kind \in ErrorKinds : Fail(kind, file, item.required)
  BY <1>4, <1>1, <1>3 DEF Fail, IncludeInv, TypeOK, Shape, StackIsOpenSources,
                         NoSourceTwice, world
<1>5. ASSUME NEW f \in Frame, f.key = Resumed.key, f.probe = Resumed.probe,
             f.todo = Resumed.todo, frames' = SetFrame(f),
             UNCHANGED <<world, document, status, stack, error, built>>
      PROVE  IncludeInv'
  <2>1. FramesOK' /\ frames' # <<>> BY <1>5, <1>2, FrameKept
  <2> QED BY <2>1, <1>5 DEF FramesOK, IncludeInv, TypeOK, Shape, world
<1>6. CASE frames' = SetFrame(Resumed) /\ UNCHANGED <<world, document, status, stack, error, built>>
  BY <1>6, <1>5, <1>2
<1>7. CASE /\ fs[file] \in Contents
           /\ frames' = SetFrame(Emit(Resumed, Props[fs[file]]))
           /\ UNCHANGED <<world, document, status, stack, error, built>>
  <2>1. Props[fs[file]] \in Seq(Fields) BY <1>7, SourceAssumption
  <2> QED BY <1>7, <1>5, <1>2, <2>1, EmitStep
<1>8. CASE /\ fs[file] \in Contents /\ ~InStack(file)
           /\ stack' = Append(stack, file)
           /\ frames' = Append(SetFrame(Resumed), NewFrame(file, DirOf[file[1]], fs[file]))
           /\ UNCHANGED <<world, document, status, error, built>>
  <2>1. DirOf[file[1]] \in Dirs BY <1>3, SourceAssumption
  <2>2. FramesOK' /\ frames' # <<>> BY <1>8, <1>2, <1>3, <2>1, NewFrameType, FramePushed
  <2> QED BY <2>2, <1>8 DEF FramesOK, IncludeInv, TypeOK, Shape, world
<1> QED BY <1>4, <1>6, <1>7, <1>8 DEF LoadFile, ErrorKinds

\* A failure where nothing is pushed or popped.
LEMMA FailStep ==
  ASSUME IncludeInv, NEW kind \in ErrorKinds, NEW key \in Keys \cup {TopKey},
         NEW required \in BOOLEAN, Fail(kind, key, required)
  PROVE  IncludeInv'
BY DEF Fail, IncludeInv, TypeOK, Shape, StackIsOpenSources, NoSourceTwice, world

\* The innermost activation goes on.
LEMMA KeptStep ==
  ASSUME IncludeInv, status = "building", frames # <<>>, NEW f \in Frame,
         f.key = frame.key,
         f.probe # 0 => f.todo # <<>> /\ Head(f.todo).kind = "include",
         frames' = SetFrame(f),
         UNCHANGED <<world, document, status, stack, error, built>>
  PROVE  IncludeInv'
<1>1. FramesOK' /\ frames' # <<>> BY FrameKept
<1> QED BY <1>1 DEF FramesOK, IncludeInv, TypeOK, Shape, world

LEMMA InvInit == Init => IncludeInv
<1> SUFFICES ASSUME Init PROVE IncludeInv OBVIOUS
<1> USE DEF Init
<1>1. TypeOK
  <2>1. NoError \in [kind : ErrorKinds, key : Keys \cup {TopKey}, required : BOOLEAN]
    BY DEF NoError, ErrorKinds
  <2>2. NoDocument \in [text : Contents \cup {Absent}, base : Dirs]
    BY SourceAssumption DEF NoDocument
  <2>3. fs \in [Files -> FileState] /\ registry \in [Packages -> Contents \cup {Absent}]
    BY WorldAssumption
  <2> QED BY <2>1, <2>2, <2>3 DEF TypeOK
<1>2. Shape BY DEF Shape
<1>3. StackIsOpenSources /\ NoSourceTwice BY DEF StackIsOpenSources, NoSourceTwice
<1> QED BY <1>1, <1>2, <1>3 DEF IncludeInv

\* parseWithOptions starts the outermost activation.
LEMMA DocumentStep ==
  ASSUME IncludeInv, status = "idle", NEW text \in Contents, NEW base \in Dirs,
         ParseDocument(text, base)
  PROVE  IncludeInv'
<1>1. CASE text \in Malformed
  BY <1>1, FailStep DEF ParseDocument, ErrorKinds
<1>2. CASE text \notin Malformed
  <2> DEFINE f == NewFrame(TopKey, base, text)
  <2>1. f \in Frame /\ f.key = TopKey /\ f.probe = 0 BY NewFrameType
  <2>2. /\ status' = "building" /\ frames' = <<f>> /\ stack' = stack
        /\ document' = [text |-> text, base |-> base]
        /\ UNCHANGED <<world, error, built>>
    BY <1>2 DEF ParseDocument
  <2>3. stack = <<>> BY DEF IncludeInv, Shape, StackIsOpenSources
  <2> HIDE DEF f
  <2>4. frames' \in Seq(Frame) /\ Len(frames') = 1 /\ frames'[1] = f /\ frames' # <<>>
    BY <2>1, <2>2
  <2>5. StackIsOpenSources' BY <2>1, <2>2, <2>3, <2>4 DEF StackIsOpenSources
  <2>6. NoSourceTwice' BY <2>4 DEF NoSourceTwice
  <2>7. Shape' BY <2>1, <2>2, <2>4 DEF Shape
  <2>8. TypeOK' BY <2>2, <2>4 DEF TypeOK, IncludeInv, world
  <2> QED BY <2>5, <2>6, <2>7, <2>8 DEF IncludeInv
<1> QED BY <1>1, <1>2

LEMMA ReturnIncludeStep == ASSUME IncludeInv, ReturnInclude PROVE IncludeInv'
<1>1. /\ Len(frames) > 1 /\ status = "building" /\ frames # <<>>
      /\ stack' = Pop(stack)
      /\ frames' = [Pop(frames) EXCEPT ![Len(frames) - 1] = Emit(@, frame.out)]
      /\ UNCHANGED <<world, document, status, error, built>>
  BY EmptySeq DEF ReturnInclude, Scanning
<1>2. frames \in Seq(Frame) /\ Len(frames) \in Nat BY LenProperties DEF IncludeInv, TypeOK
<1>3. /\ Pop(frames) \in Seq(Frame) /\ Len(Pop(frames)) = Len(frames) - 1
      /\ \A i \in 1..(Len(frames) - 1) : Pop(frames)[i] = frames[i]
  <2>1. \A i \in 1..(Len(frames) - 1) : frames[i] \in Frame BY <1>2, ElementOfSeq
  <2> QED BY <2>1, <1>1, <1>2, SubSeqProperties DEF Pop
<1> DEFINE n == Len(frames) - 1
           e == Emit(frames[n], frame.out)
<1>4. n \in 1..Len(Pop(frames)) /\ n \in 1..Len(frames) BY <1>1, <1>2, <1>3
<1>5. frames[n] \in Frame BY <1>2, <1>4, ElementOfSeq
<1>6. frame.out \in Seq(Fields) BY <1>1, FrameIsTop DEF Frame
<1>7. e \in Frame /\ e.key = frames[n].key /\ e.probe = frames[n].probe /\ e.todo = frames[n].todo
  BY <1>5, <1>6, EmitStep
<1>8. frames' = [Pop(frames) EXCEPT ![n] = e]
  BY <1>1, <1>3, <1>4
<1> HIDE DEF e
<1>9. /\ frames' \in Seq(Frame) /\ Len(frames') = n
      /\ \A i \in 1..n : frames'[i] = IF i = n THEN e ELSE Pop(frames)[i]
  BY <1>3, <1>4, <1>7, <1>8, ExceptSeq
<1>10. \A i \in 1..Len(frames') :
         /\ frames'[i].key = frames[i].key
         /\ frames'[i].probe = frames[i].probe
         /\ frames'[i].todo = frames[i].todo
  BY <1>3, <1>7, <1>9
<1>11. FramesOK' /\ frames' # <<>> BY <1>1, <1>9, <1>10, FramePopped
<1> QED BY <1>1, <1>11 DEF FramesOK, IncludeInv, TypeOK, Shape, world

LEMMA InvNext == IncludeInv /\ [Next]_vars => IncludeInv'
<1> SUFFICES ASSUME IncludeInv, [Next]_vars PROVE IncludeInv' OBVIOUS
<1> USE DEF Scanning, Probing
<1>0. status = "building" =>
        /\ frames # <<>> /\ frame \in Frame
        /\ frame.todo # <<>> => item \in Item
        /\ frame.probe # 0 => frame.todo # <<>> /\ item.kind = "include"
  <2>1. status = "building" => frames # <<>> BY DEF IncludeInv, Shape
  <2>2. frames # <<>> => Len(frames) \in 1..Len(frames) /\ frame \in Frame
                          /\ (frame.todo # <<>> => item \in Item)
    BY FrameIsTop
  <2>3. Len(frames) \in 1..Len(frames) => (frame.probe # 0 => frame.todo # <<>> /\ item.kind = "include")
    BY DEF IncludeInv, Shape, frame, item
  <2> QED BY <2>1, <2>2, <2>3
<1>a. status = "building" /\ frame.todo # <<>> /\ item.kind = "include" => Target \in Stems
  BY <1>0, ItemFields, SourceAssumption DEF Target, Frame
<1>b. status = "building" /\ frame.probe \in 1..3 => Candidate \in Files
  BY <1>0, <1>a DEF Candidate, Files, Extension, Extensions
<1>1. CASE ParseFile
  <2>1. CASE fs[Top] \in Contents
    <3>1. DirOf[Top[1]] \in Dirs BY SourceAssumption DEF Files
    <3> QED BY <1>1, <2>1, <3>1, DocumentStep DEF ParseFile
  <2>2. CASE fs[Top] \notin Contents
    BY <1>1, <2>2, FailStep DEF ParseFile, ErrorKinds
  <2> QED BY <2>1, <2>2
<1>2. CASE \E c \in Contents : ParseString(c)
  BY <1>2, DocumentStep, SourceAssumption DEF ParseString
<1>3. CASE ApplyField
  <2>1. frame \in Frame /\ <<item.field>> \in Seq(Fields) /\ frame.todo # <<>>
        /\ frames # <<>> /\ status = "building"
    BY <1>3, <1>0, ItemFields DEF ApplyField
  <2> DEFINE e == Emit(frame, <<item.field>>)
  <2>2. e \in Frame /\ e.key = frame.key /\ e.todo = frame.todo BY <2>1, EmitStep
  <2> HIDE DEF e
  <2>3. Advance(e) \in Frame /\ Advance(e).key = frame.key /\ Advance(e).probe = 0
    BY <2>1, <2>2, AdvanceStep
  <2> QED BY <1>3, <2>1, <2>3, KeptStep DEF ApplyField, e
<1>4. CASE IncludeFile
  <2>1. <<Target, item.ext>> \in Files
    BY <1>4, <1>0, <1>a, ItemFields DEF IncludeFile, Files
  <2>2. item.required \in BOOLEAN BY <1>4, <1>0, ItemFields DEF IncludeFile
  <2> QED BY <1>4, <1>0, <2>1, <2>2, LoadedFile DEF IncludeFile
<1>5. CASE StartProbe
  <2> DEFINE f == [frame EXCEPT !.probe = 1]
  <2>0. 1 \in 0..4 OBVIOUS
  <2>1. f \in Frame BY <1>5, <1>0, <2>0, FrameAssignments DEF StartProbe
  <2>2. f.key = frame.key /\ f.todo = frame.todo BY <1>5, <1>0 DEF StartProbe, Frame
  <2> HIDE DEF f
  <2> QED BY <1>5, <1>0, <2>1, <2>2, KeptStep DEF StartProbe, f, item
<1>6. CASE Stat
  <2>1. CASE fs[Candidate] = Hidden
    BY <1>6, <2>1, <1>0, <1>b, ItemFields, FailStep DEF Stat, ErrorKinds, Keys
  <2>2. CASE fs[Candidate] # Hidden
    <3> DEFINE f == [frame EXCEPT !.probe = frame.probe + 1]
               g == [frame EXCEPT !.statted = TRUE]
    <3>0. frame.probe + 1 \in 0..4 /\ frame.probe # 0 BY <1>6, <1>0 DEF Stat, Frame
    <3>1. f \in Frame /\ g \in Frame BY <1>6, <1>0, <3>0, FrameAssignments DEF Stat
    <3>2. f.key = frame.key /\ f.todo = frame.todo /\ g.key = frame.key /\ g.todo = frame.todo
      BY <1>6, <1>0 DEF Stat, Frame
    <3>3. frames' = SetFrame(f) \/ frames' = SetFrame(g) BY <1>6, <2>2 DEF Stat
    <3> HIDE DEF f, g
    <3> QED BY <1>6, <1>0, <2>2, <3>0, <3>1, <3>2, <3>3, KeptStep DEF Stat, item
  <2> QED BY <2>1, <2>2
<1>7. CASE LoadProbed
  <2>1. frame.probe # 0 /\ frame.probe # 4 BY <1>7 DEF LoadProbed
  <2>2. Candidate \in Files /\ TRUE \in BOOLEAN BY <1>7, <1>b DEF LoadProbed
  <2> QED BY <1>7, <1>0, <2>1, <2>2, LoadedFile DEF LoadProbed
<1>8. CASE EndProbe
  <2>1. CASE ~frame.found /\ item.required
    <3>1. <<Target, "conf">> \in Keys
      BY <1>8, <1>0, <1>a DEF EndProbe, Keys, Files, Extensions
    <3> QED BY <1>8, <2>1, <3>1, FailStep DEF EndProbe, ErrorKinds
  <2>2. CASE ~(~frame.found /\ item.required)
    <3>1. frames # <<>> /\ frame \in Frame /\ frame.todo # <<>> BY <1>8, <1>0 DEF EndProbe
    <3>2. /\ Advance(frame) \in Frame /\ Advance(frame).key = frame.key
          /\ Advance(frame).probe = 0
      BY <3>1, AdvanceStep
    <3> QED BY <1>8, <2>2, <3>1, <3>2, KeptStep DEF EndProbe
  <2> QED BY <2>1, <2>2
<1>9. CASE IncludePackage
  <2>1. /\ item.pkg \in Packages /\ item.pkg \in Keys /\ frame \in Frame /\ frames # <<>>
        /\ frame.base \in Dirs /\ frame.todo # <<>> /\ status = "building"
    BY <1>9, <1>0, ItemFields DEF IncludePackage, Keys, Frame
  <2>2. CASE \E kind \in ErrorKinds : Fail(kind, item.pkg, TRUE)
    BY <2>1, <2>2, FailStep
  <2>3. CASE /\ ~InStack(item.pkg) /\ registry[item.pkg] # Absent
             /\ stack' = Append(stack, item.pkg)
             /\ frames' = Append(SetFrame(Advance(frame)),
                                 NewFrame(item.pkg, frame.base, registry[item.pkg]))
             /\ UNCHANGED <<world, document, status, error, built>>
    <3>1. registry[item.pkg] \in Contents BY <2>1, <2>3 DEF IncludeInv, TypeOK
    <3> DEFINE f == Advance(frame)
               g == NewFrame(item.pkg, frame.base, registry[item.pkg])
    <3>2. FramesOK' /\ frames' # <<>>
      <4>1. f \in Frame /\ f.key = frame.key /\ f.probe = 0 BY <2>1, AdvanceStep
      <4>2. g \in Frame /\ g.key = item.pkg /\ g.probe = 0 BY <2>1, <3>1, NewFrameType
      <4>3. /\ item.pkg \in Keys /\ ~InStack(item.pkg)
            /\ frames' = Append(SetFrame(f), g) /\ stack' = Append(stack, item.pkg)
        BY <2>1, <2>3
      <4> HIDE DEF f, g
      <4> QED BY <2>1, <4>1, <4>2, <4>3, FramePushed
    <3> QED BY <2>1, <3>2, <2>3 DEF FramesOK, IncludeInv, TypeOK, Shape, world
  <2> QED BY <1>9, <2>2, <2>3 DEF IncludePackage, ErrorKinds
<1>10. CASE ReturnInclude BY <1>10, ReturnIncludeStep
<1>11. CASE ReturnTop
  <2>1. frame.out \in Seq(Fields) BY <1>11, <1>0 DEF ReturnTop, Frame
  <2>2. stack = <<>>
    <3>1. Len(stack) = 0 BY <1>11, <1>0, LenProperties
                         DEF ReturnTop, IncludeInv, TypeOK, StackIsOpenSources
    <3> QED BY <3>1, EmptySeq DEF IncludeInv, TypeOK
  <2> QED BY <1>11, <2>1, <2>2 DEF ReturnTop, IncludeInv, TypeOK, Shape,
                                  StackIsOpenSources, NoSourceTwice, world
<1>12. CASE Unwind
  <2>1. frames \in Seq(Frame) /\ Len(frames) \in Nat /\ Len(frames) > 1
    BY <1>12, LenProperties DEF Unwind, IncludeInv, TypeOK
  <2>2. \A i \in 1..(Len(frames) - 1) : frames[i] \in Frame BY <2>1, ElementOfSeq
  <2>3. /\ frames' \in Seq(Frame) /\ Len(frames') = Len(frames) - 1
        /\ \A i \in 1..Len(frames') : frames'[i] = frames[i]
    BY <1>12, <2>1, <2>2, SubSeqProperties DEF Unwind, Pop
  <2>4. FramesOK' /\ frames' # <<>> BY <1>12, <2>1, <2>3, FramePopped DEF Unwind
  <2> QED BY <1>12, <2>4 DEF Unwind, FramesOK, IncludeInv, TypeOK, Shape, world
<1>13. CASE Failed
  <2>1. stack = <<>>
    <3>1. CASE frames = <<>> BY <3>1 DEF IncludeInv, StackIsOpenSources
    <3>2. CASE frames # <<>>
      <4>1. Len(stack) = 0
        BY <1>13, <3>2, LenProperties DEF Failed, IncludeInv, TypeOK, StackIsOpenSources
      <4> QED BY <4>1, EmptySeq DEF IncludeInv, TypeOK
    <3> QED BY <3>1, <3>2
  <2> QED BY <1>13, <2>1 DEF Failed, IncludeInv, TypeOK, Shape, StackIsOpenSources,
                             NoSourceTwice, world
<1>14. CASE FileChanges
  BY <1>14, WorldAssumption DEF FileChanges, IncludeInv, TypeOK, Shape, StackIsOpenSources,
                                NoSourceTwice
<1>15. CASE PackageChanges
  BY <1>15, WorldAssumption DEF PackageChanges, IncludeInv, TypeOK, Shape, StackIsOpenSources,
                                NoSourceTwice
<1>16. CASE UNCHANGED vars
  BY <1>16 DEF vars, IncludeInv, TypeOK, Shape, StackIsOpenSources, NoSourceTwice
<1> QED BY <1>1, <1>2, <1>3, <1>4, <1>5, <1>6, <1>7, <1>8, <1>9, <1>10, <1>11, <1>12,
           <1>13, <1>14, <1>15, <1>16 DEF Next, Parser

-----------------------------------------------------------------------------
(* The theorems *)

THEOREM IncludeInvariant == Spec => []IncludeInv
<1>1. UNCHANGED vars => [Next]_vars OBVIOUS
<1> QED BY InvInit, InvNext, PTL DEF Spec

(* Every variable keeps its type, in every parse of every set of sources. *)
THEOREM TypeCorrect == Spec => []TypeOK
<1>1. IncludeInv => TypeOK BY DEF IncludeInv
<1> QED BY <1>1, IncludeInvariant, PTL

(* includeStack always lists the sources being expanded: every push of
   loadIncludeFile and loadPackageInclude is undone by exactly one pop. *)
THEOREM StackDiscipline == Spec => []StackIsOpenSources
<1>1. IncludeInv => StackIsOpenSources BY DEF IncludeInv
<1> QED BY <1>1, IncludeInvariant, PTL

(* No source is expanded inside itself, whatever the file system and the
   registry become during the parse. *)
THEOREM NoReentry == Spec => []NoSourceTwice
<1>1. IncludeInv => NoSourceTwice BY DEF IncludeInv
<1> QED BY <1>1, IncludeInvariant, PTL

(* A "circular include" error names a source that is being expanded. *)
THEOREM CircularErrorsAreReal == Spec => CircularIsReal
<1> DEFINE Real == error'.kind = "circular" /\ error.kind = "none"
                     => \E i \in 1..Len(frames) : frames[i].key = error'.key
<1>1. IncludeInv /\ [Next]_vars => [Real]_vars
  <2>0. SUFFICES ASSUME IncludeInv, Next, error'.kind = "circular", error.kind = "none"
                 PROVE  \E i \in 1..Len(frames) : frames[i].key = error'.key
    BY DEF vars
  <2>1. InStack(error'.key)
    <3>1. ASSUME NEW file, NEW required, LoadFile(file, required) PROVE InStack(error'.key)
      BY <2>0, <3>1 DEF LoadFile, Fail
    <3>2. CASE IncludePackage BY <2>0, <3>2 DEF IncludePackage, Fail
    <3>3. CASE IncludeFile \/ LoadProbed BY <3>1, <3>3 DEF IncludeFile, LoadProbed
    <3>4. CASE ParseFile \/ \E c \in Contents : ParseString(c)
      BY <2>0, <3>4 DEF ParseFile, ParseString, ParseDocument, Fail
    <3>5. CASE ApplyField \/ StartProbe \/ Stat \/ EndProbe
      BY <2>0, <3>5 DEF ApplyField, StartProbe, Stat, EndProbe, Fail
    <3>6. CASE ReturnInclude \/ ReturnTop \/ Unwind \/ Failed \/ FileChanges \/ PackageChanges
      BY <2>0, <3>6 DEF ReturnInclude, ReturnTop, Unwind, Failed, FileChanges, PackageChanges
    <3> QED BY <2>0, <3>2, <3>3, <3>4, <3>5, <3>6 DEF Next, Parser
  <2>2. PICK i \in 1..Len(stack) : stack[i] = error'.key
    BY <2>1 DEF InStack
  <2>3. Len(stack) \in Nat /\ frames # <<>>
    BY <2>0, <2>2, LenProperties DEF IncludeInv, TypeOK, StackIsOpenSources
  <2>4. Len(frames) = Len(stack) + 1 /\ frames[i + 1].key = stack[i]
    BY <2>0, <2>2, <2>3 DEF IncludeInv, StackIsOpenSources
  <2>5. i + 1 \in 1..Len(frames) BY <2>3, <2>4
  <2> QED BY <2>2, <2>4, <2>5
<1> QED BY <1>1, IncludeInvariant, PTL DEF Spec, CircularIsReal

(* Includes nest no deeper than there are sources: the recursion of
   resolveObject over includes is bounded by what the file system and the
   registry can hold, not by what the documents say. *)
THEOREM DepthIsBounded ==
  ASSUME IsFiniteSet(Keys)
  PROVE  Spec => [](Len(stack) <= Cardinality(Keys))
<1>1. IncludeInv => Len(stack) <= Cardinality(Keys)
  <2> SUFFICES ASSUME IncludeInv PROVE Len(stack) <= Cardinality(Keys) OBVIOUS
  <2>1. Len(stack) \in Nat /\ stack \in [1..Len(stack) -> Keys]
    BY LenProperties DEF IncludeInv, TypeOK
  <2>2. ASSUME NEW i \in 1..Len(stack), NEW j \in 1..Len(stack), stack[i] = stack[j]
        PROVE  i = j
    <3>1. frames # <<>> BY <2>1 DEF IncludeInv, StackIsOpenSources
    <3>2. /\ Len(frames) = Len(stack) + 1
          /\ stack[i] = frames[i + 1].key /\ stack[j] = frames[j + 1].key
      BY <3>1 DEF IncludeInv, StackIsOpenSources
    <3>3. i + 1 \in 1..Len(frames) /\ j + 1 \in 1..Len(frames) BY <2>1, <3>2
    <3>4. i + 1 = j + 1 BY <2>2, <3>2, <3>3 DEF IncludeInv, NoSourceTwice
    <3> QED BY <3>4
  <2>3. stack \in Injection(1..Len(stack), Keys)
    BY <2>1, <2>2 DEF Injection, IsInjective
  <2>4. Cardinality(1..Len(stack)) <= Cardinality(Keys) BY <2>3, FS_Injection
  <2>5. Cardinality(1..Len(stack)) = Len(stack) BY <2>1, FS_Interval
  <2> QED BY <2>4, <2>5
<1> QED BY <1>1, IncludeInvariant, PTL

-----------------------------------------------------------------------------
(* Fields in a row, or none where one part cannot be had.                   *)

Outcome == Seq(Fields) \cup {Refused}
Then(a, b) == IF a = Refused \/ b = Refused THEN Refused ELSE a \o b

LEMMA ThenProperties ==
  ASSUME NEW a \in Outcome, NEW b \in Outcome, NEW c \in Outcome
  PROVE  /\ Then(a, b) \in Outcome
         /\ Then(Then(a, b), c) = Then(a, Then(b, c))
         /\ Then(<<>>, a) = a /\ Then(a, <<>>) = a
         /\ Then(Refused, a) = Refused /\ Then(a, Refused) = Refused
<1>1. ASSUME a # Refused, b # Refused
      PROVE  a \in Seq(Fields) /\ b \in Seq(Fields) /\ a \o b \in Seq(Fields) /\ a \o b # Refused
  <2>1. a \in Seq(Fields) /\ b \in Seq(Fields) BY <1>1 DEF Outcome
  <2> QED BY <2>1, ConcatProperties, RefusedAssumption
<1>2. ASSUME a # Refused, b # Refused, c # Refused
      PROVE  (a \o b) \o c = a \o (b \o c) /\ b \o c # Refused
  <2>1. a \in Seq(Fields) /\ b \in Seq(Fields) /\ c \in Seq(Fields) 
    BY <1>2 DEF Outcome
  <2>2. (a \o b) \o c = a \o (b \o c) BY <2>1, ConcatAssociative
  <2>3. b \o c \in Seq(Fields) BY <2>1, ConcatProperties
  <2> QED BY <2>2, <2>3, RefusedAssumption
<1>3. <<>> \in Seq(Fields) /\ <<>> # Refused BY EmptySeq, RefusedAssumption
<1>4. a # Refused => <<>> \o a = a /\ a \o <<>> = a BY ConcatEmptySeq DEF Outcome
<1> QED BY <1>1, <1>2, <1>3, <1>4 DEF Then, Outcome

IsJoin(join, parts) ==
  /\ join[Len(parts) + 1] = <<>>
  /\ \A n \in 1..Len(parts) : join[n] = parts[n] \o join[n + 1]

LEMMA JoinExists ==
  ASSUME NEW parts, Len(parts) \in Nat
  PROVE  \E join : /\ IsJoin(join, parts)
                   /\ Joined(parts) = IF \E n \in 1..Len(parts) : parts[n] = Refused THEN Refused
                                      ELSE join[1]
<1> DEFINE m == Len(parts)
           Entry(f, n) == IF n > m THEN <<>> ELSE parts[n] \o f[n + 1]
           join == CHOOSE f : f = [n \in 1..m + 1 |-> Entry(f, n)]
           S == {k \in Nat : k <= m => \E f : f = [n \in (m + 1) - k .. m + 1 |-> Entry(f, n)]}
<1>1. 0 \in S
  <2> DEFINE f == [n \in m + 1 .. m + 1 |-> <<>>]
  <2>1. (m + 1) - 0 = m + 1 /\ \A n \in m + 1 .. m + 1 : n > m OBVIOUS
  <2>2. f = [n \in m + 1 .. m + 1 |-> Entry(f, n)] BY <2>1
  <2> HIDE DEF Entry, f
  <2> QED BY <2>1, <2>2
<1>2. ASSUME NEW k \in Nat, k \in S PROVE k + 1 \in S
  <2> SUFFICES ASSUME k + 1 <= m
               PROVE \E f : f = [n \in (m + 1) - (k + 1) .. m + 1 |-> Entry(f, n)]
    <3> HIDE DEF Entry
    <3> QED OBVIOUS
  <2>1. PICK f : f = [n \in (m + 1) - k .. m + 1 |-> Entry(f, n)]
    <3>1. k <= m BY <1>2
    <3> HIDE DEF Entry
    <3> QED BY <1>2, <3>1
  <2> DEFINE l == (m + 1) - (k + 1)
             g == [n \in l .. m + 1 |-> IF n = l THEN Entry(f, n) ELSE f[n]]
  <2>2. /\ l \in 1..m /\ l + 1 = (m + 1) - k
        /\ \A n \in l .. m + 1 : n # l => n \in l + 1 .. m + 1
    OBVIOUS
  <2>3. ASSUME NEW n \in l .. m + 1 PROVE g[n] = Entry(g, n)
    <3>1. n <= m => n + 1 \in l .. m + 1 /\ n + 1 # l BY <2>2
    <3>2. n <= m => g[n + 1] = f[n + 1] BY <3>1
    <3>3. Entry(g, n) = Entry(f, n)
      <4> HIDE DEF g
      <4> QED BY <2>2, <3>2
    <3>4. n # l => f[n] = Entry(f, n)
      <4> HIDE DEF Entry, l
      <4> QED BY <2>1, <2>2
    <3> HIDE DEF Entry, l
    <3> QED BY <3>3, <3>4
  <2>4. g = [n \in l .. m + 1 |-> Entry(g, n)]
    <3>1. g = [n \in l .. m + 1 |-> g[n]] OBVIOUS
    <3> HIDE DEF g, Entry, l
    <3> QED BY <2>3, <3>1
  <2> HIDE DEF g, Entry
  <2> QED BY <2>4
<1>3. \E f : f = [n \in 1..m + 1 |-> Entry(f, n)]
  <2> HIDE DEF S
  <2>1. m \in S BY <1>1, <1>2, NatInSet
  <2>2. (m + 1) - m = 1 OBVIOUS
  <2> HIDE DEF Entry
  <2> QED BY <2>1, <2>2 DEF S
<1>4. join = [n \in 1..m + 1 |-> Entry(join, n)]
  <2> HIDE DEF Entry
  <2> QED BY <1>3, Zenon
<1>5. Joined(parts) = IF \E n \in 1..m : parts[n] = Refused THEN Refused ELSE join[1]
  BY DEF Joined
<1> HIDE DEF join
<1>6. \A n \in 1..m + 1 : join[n] = Entry(join, n) BY <1>4
<1>7. IsJoin(join, parts)
  <2>1. m + 1 \in 1..m + 1 /\ m + 1 > m OBVIOUS
  <2>2. \A n \in 1..m : n \in 1..m + 1 /\ ~(n > m) OBVIOUS
  <2> QED BY <1>6, <2>1, <2>2 DEF IsJoin
<1> QED BY <1>5, <1>7

LEMMA JoinedNothing == ASSUME NEW parts, Len(parts) = 0 PROVE Joined(parts) = <<>>
<1>1. PICK join : /\ IsJoin(join, parts)
                  /\ Joined(parts) = IF \E n \in 1..Len(parts) : parts[n] = Refused THEN Refused
                                     ELSE join[1]
  BY JoinExists
<1>2. 1..Len(parts) = {} /\ join[1] = <<>> BY <1>1 DEF IsJoin
<1> QED BY <1>1, <1>2

LEMMA JoinType ==
  ASSUME NEW parts, Len(parts) \in Nat, NEW join, IsJoin(join, parts),
         \A n \in 1..Len(parts) : parts[n] \in Seq(Fields)
  PROVE  join[1] \in Seq(Fields)
<1> DEFINE m == Len(parts)
           S == {k \in Nat : k <= m => join[(m + 1) - k] \in Seq(Fields)}
<1>1. 0 \in S
  <2>1. (m + 1) - 0 = m + 1 /\ <<>> \in Seq(Fields) BY EmptySeq
  <2> QED BY <2>1 DEF IsJoin
<1>2. ASSUME NEW k \in Nat, k \in S, k + 1 <= m PROVE join[(m + 1) - (k + 1)] \in Seq(Fields)
  <2> DEFINE n == (m + 1) - (k + 1)
  <2>1. n \in 1..m /\ n + 1 = (m + 1) - k BY <1>2
  <2>2. join[n + 1] \in Seq(Fields) BY <1>2, <2>1
  <2> HIDE DEF n
  <2>3. join[n] = parts[n] \o join[n + 1] /\ parts[n] \in Seq(Fields) BY <2>1 DEF IsJoin
  <2>4. join[n] \in Seq(Fields) BY <2>2, <2>3, ConcatProperties
  <2> QED BY <2>4 DEF n
<1>3. \A k \in Nat : k \in S => k + 1 \in S BY <1>2
<1> HIDE DEF S
<1>4. m \in S BY <1>1, <1>3, NatInSet
<1>5. (m + 1) - m = 1 OBVIOUS
<1> QED BY <1>4, <1>5 DEF S

\* The first part and then the others.
LEMMA JoinedHead ==
  ASSUME NEW parts, NEW rest, NEW m \in Nat, Len(parts) = m + 1, Len(rest) = m,
         \A n \in 1..m + 1 : parts[n] \in Outcome,
         \A n \in 1..m : rest[n] = parts[n + 1]
  PROVE  Joined(parts) = Then(parts[1], Joined(rest))
<1>1. PICK j : /\ IsJoin(j, parts)
               /\ Joined(parts) = IF \E n \in 1..m + 1 : parts[n] = Refused THEN Refused ELSE j[1]
  <2>1. Len(parts) \in Nat OBVIOUS
  <2>2. Len(parts) = m + 1 OBVIOUS
  <2>3. PICK j : /\ IsJoin(j, parts)
                 /\ Joined(parts) = IF \E n \in 1..Len(parts) : parts[n] = Refused THEN Refused
                                    ELSE j[1]
    BY <2>1, JoinExists
  <2> QED BY <2>2, <2>3
<1>2. PICK k : /\ IsJoin(k, rest)
               /\ Joined(rest) = IF \E n \in 1..m : rest[n] = Refused THEN Refused ELSE k[1]
  BY JoinExists
<1>3. \A n \in 1..m + 1 : n = 1 \/ (n - 1 \in 1..m /\ (n - 1) + 1 = n) OBVIOUS
<1>4. j[2] = k[1]
  <2> DEFINE S == {i \in Nat : i <= m => j[(m + 2) - i] = k[(m + 1) - i]}
  <2>1. 0 \in S
    <3>1. (m + 2) - 0 = (m + 1) + 1 /\ (m + 1) - 0 = m + 1 OBVIOUS
    <3> QED BY <1>1, <1>2, <3>1 DEF IsJoin
  <2>2. ASSUME NEW i \in Nat, i \in S, i + 1 <= m
        PROVE  j[(m + 2) - (i + 1)] = k[(m + 1) - (i + 1)]
    <3> DEFINE n == (m + 1) - (i + 1)
    <3>1. /\ n \in 1..m /\ n + 1 \in 1..m + 1 /\ (m + 2) - (i + 1) = n + 1
          /\ (m + 2) - i = (n + 1) + 1 /\ (m + 1) - i = n + 1
      BY <2>2
    <3>2. j[(n + 1) + 1] = k[n + 1] BY <2>2, <3>1
    <3> HIDE DEF n
    <3>3. j[n + 1] = parts[n + 1] \o j[(n + 1) + 1] BY <1>1, <3>1 DEF IsJoin
    <3>4. k[n] = rest[n] \o k[n + 1] BY <1>2, <3>1 DEF IsJoin
    <3>5. j[n + 1] = k[n] BY <3>1, <3>2, <3>3, <3>4
    <3> QED BY <3>1, <3>5 DEF n
  <2>3. \A i \in Nat : i \in S => i + 1 \in S BY <2>2
  <2> HIDE DEF S
  <2>4. m \in S BY <2>1, <2>3, NatInSet
  <2>5. (m + 2) - m = 2 /\ (m + 1) - m = 1 OBVIOUS
  <2> QED BY <2>4, <2>5 DEF S
<1>5. j[1] = parts[1] \o j[2]
  <2>1. 1 \in 1..m + 1 /\ 1 + 1 = 2 OBVIOUS
  <2> QED BY <1>1, <2>1 DEF IsJoin
<1>6. CASE \E n \in 1..m : rest[n] = Refused
  <2>1. PICK n \in 1..m : rest[n] = Refused BY <1>6
  <2>2. n + 1 \in 1..m + 1 /\ parts[n + 1] = Refused BY <2>1
  <2> QED BY <1>1, <1>2, <1>6, <2>2 DEF Then
<1>7. CASE ~(\E n \in 1..m : rest[n] = Refused) /\ parts[1] = Refused
  <2>1. 1 \in 1..m + 1 OBVIOUS
  <2> QED BY <1>1, <1>7, <2>1 DEF Then
<1>8. CASE ~(\E n \in 1..m : rest[n] = Refused) /\ parts[1] # Refused
  <2>1. ~(\E n \in 1..m + 1 : parts[n] = Refused)
    <3> SUFFICES ASSUME NEW n \in 1..m + 1 PROVE parts[n] # Refused OBVIOUS
    <3>1. CASE n = 1 BY <1>8, <3>1
    <3>2. CASE n - 1 \in 1..m /\ (n - 1) + 1 = n
      <4>1. rest[n - 1] = parts[n] /\ rest[n - 1] # Refused BY <1>8, <3>2
      <4> QED BY <4>1
    <3> QED BY <1>3, <3>1, <3>2
  <2>2. \A n \in 1..m : rest[n] \in Seq(Fields)
    <3>1. \A n \in 1..m : n + 1 \in 1..m + 1 OBVIOUS
    <3> QED BY <1>8, <3>1 DEF Outcome
  <2>3. k[1] # Refused BY <1>2, <2>2, JoinType, RefusedAssumption
  <2> QED BY <1>1, <1>2, <1>4, <1>5, <1>8, <2>1, <2>3 DEF Then
<1> QED BY <1>6, <1>7, <1>8

-----------------------------------------------------------------------------
(* The inlining is well defined: a source is expanded in fewer and fewer    *)
(* others, since those it is nested in are refused.                         *)

IsWorld(w) == /\ w.files \in [Files -> FileState]
              /\ w.packages \in [Packages -> Contents \cup {Absent}]

\* What is nested in the sources `open' and in one more.
Beyond(open) == {s \in Sources : open \subseteq s.open /\ s.open # open}
Agree(f, g, open) == \A s \in Beyond(open) : f[s] = g[s]
Typed(f, open) == \A s \in Beyond(open) : f[s] \in Outcome

LEMMA SourceNested ==
  ASSUME NEW f, NEW g, NEW key \in Keys, NEW text, NEW base \in Dirs, NEW open \in SUBSET Keys
  PROVE  /\ Agree(f, g, open) => Source(f, key, text, base, open) = Source(g, key, text, base, open)
         /\ Typed(f, open) => Source(f, key, text, base, open) \in Outcome
<1> DEFINE s == [text |-> text, base |-> base, open |-> open \cup {key}]
<1>1. CASE key \in open \/ text \notin Contents \ Malformed BY <1>1 DEF Source, Outcome
<1>2. CASE ~(key \in open \/ text \notin Contents \ Malformed)
  <2>1. s \in Sources BY <1>2 DEF Sources
  <2>2. open \subseteq s.open /\ s.open # open BY <1>2
  <2>3. s \in Beyond(open)
    <3> HIDE DEF s
    <3> QED BY <2>1, <2>2 DEF Beyond
  <2>4. Source(f, key, text, base, open) = f[s] /\ Source(g, key, text, base, open) = g[s]
    BY <1>2 DEF Source
  <2> HIDE DEF s
  <2> QED BY <2>3, <2>4 DEF Agree, Typed
<1> QED BY <1>1, <1>2

LEMMA FileNested ==
  ASSUME NEW f, NEW g, NEW w, IsWorld(w), NEW file \in Files, NEW open \in SUBSET Keys
  PROVE  /\ Agree(f, g, open) => File(w, f, file, open) = File(w, g, file, open)
         /\ Typed(f, open) => File(w, f, file, open) \in Outcome
<1>1. file \in Keys /\ DirOf[file[1]] \in Dirs BY SourceAssumption DEF Keys, Files
<1>2. w.files[file] \in Contents => Props[w.files[file]] \in Seq(Fields) BY SourceAssumption
<1> QED BY <1>1, <1>2, SourceNested DEF File, Outcome

\* The files an include names.
LEMMA NamedType ==
  ASSUME NEW i \in Item, i.kind = "include", NEW base \in Dirs
  PROVE  \A ext \in Extensions : Named(i, base, ext) \in Files
<1>1. i.path \in Paths BY ItemFields
<1>2. Locate[<<IF i.from = "cwd" THEN Cwd ELSE base, i.path>>] \in Stems BY <1>1, SourceAssumption
<1> QED BY <1>2 DEF Named, Files

LEMMA TriedNested ==
  ASSUME NEW f, NEW g, NEW w, IsWorld(w), NEW i \in Item, i.kind = "include",
         NEW base \in Dirs, NEW open \in SUBSET Keys, NEW n \in 1..3
  PROVE  /\ Agree(f, g, open) => Tried(w, f, i, base, open, n) = Tried(w, g, i, base, open, n)
         /\ Typed(f, open) => Tried(w, f, i, base, open, n) \in Outcome
<1>1. Extension[n] \in Extensions BY DEF Extension, Extensions
<1>2. Named(i, base, Extension[n]) \in Files BY <1>1, NamedType
<1>3. <<>> \in Outcome BY EmptySeq DEF Outcome
<1> QED BY <1>2, <1>3, FileNested DEF Tried

\* What the extensions from the n-th on give.
Tries(w, f, i, base, open, n) ==
  CASE n = 1 -> Then(Tried(w, f, i, base, open, 1),
                     Then(Tried(w, f, i, base, open, 2), Tried(w, f, i, base, open, 3)))
    [] n = 2 -> Then(Tried(w, f, i, base, open, 2), Tried(w, f, i, base, open, 3))
    [] n = 3 -> Tried(w, f, i, base, open, 3)
    [] OTHER -> <<>>

\* What the extensions give from one on is what it gives and what the others give.
LEMMA TriesFrom ==
  ASSUME NEW f, NEW w, NEW i, NEW base, NEW open,
         \A n \in 1..3 : Tried(w, f, i, base, open, n) \in Outcome
  PROVE  \A n \in 1..3 : /\ Tries(w, f, i, base, open, n) \in Outcome
                         /\ Tries(w, f, i, base, open, n)
                              = Then(Tried(w, f, i, base, open, n), Tries(w, f, i, base, open, n + 1))
<1> DEFINE t(n) == Tried(w, f, i, base, open, n)
           u(n) == Tries(w, f, i, base, open, n)
<1>1. t(1) \in Outcome /\ t(2) \in Outcome /\ t(3) \in Outcome /\ <<>> \in Outcome
  BY EmptySeq DEF Outcome
<1>2. /\ u(1) = Then(t(1), Then(t(2), t(3))) /\ u(2) = Then(t(2), t(3))
      /\ u(3) = t(3) /\ u(4) = <<>>
  BY DEF Tries
<1> HIDE DEF t, u
<1>3. /\ Then(t(3), <<>>) = t(3) /\ Then(t(2), t(3)) \in Outcome
      /\ Then(t(1), Then(t(2), t(3))) \in Outcome
  BY <1>1, ThenProperties
<1>4. \A n \in 1..3 : u(n) \in Outcome /\ u(n) = Then(t(n), u(n + 1))
  <2>1. 1 + 1 = 2 /\ 2 + 1 = 3 /\ 3 + 1 = 4 /\ \A n \in 1..3 : n = 1 \/ n = 2 \/ n = 3 OBVIOUS
  <2> QED BY <1>1, <1>2, <1>3, <2>1
<1> QED BY <1>4 DEF t, u

LEMMA TriesJoined ==
  ASSUME NEW f, NEW w, IsWorld(w), NEW i \in Item, i.kind = "include",
         NEW base \in Dirs, NEW open \in SUBSET Keys, Typed(f, open)
  PROVE  /\ Joined([n \in 1..3 |-> Tried(w, f, i, base, open, n)]) = Tries(w, f, i, base, open, 1)
         /\ \A n \in 1..3 : /\ Tried(w, f, i, base, open, n) \in Outcome
                            /\ Tries(w, f, i, base, open, n) \in Outcome
                            /\ Tries(w, f, i, base, open, n)
                                 = Then(Tried(w, f, i, base, open, n), Tries(w, f, i, base, open, n + 1))
<1> DEFINE t(n) == Tried(w, f, i, base, open, n)
<1>1. t(1) \in Outcome /\ t(2) \in Outcome /\ t(3) \in Outcome /\ <<>> \in Outcome
  BY TriedNested, EmptySeq DEF Outcome
<1> HIDE DEF t
<1> DEFINE p == <<t(1), t(2), t(3)>>
           q == <<t(2), t(3)>>
           r == <<t(3)>>
<1>2. Joined(<<>>) = <<>> BY JoinedNothing
<1>3. Joined(r) = Then(t(3), Joined(<<>>))
  <2>1. Len(r) = 0 + 1 /\ Len(<<>>) = 0 /\ \A n \in 1..0 + 1 : r[n] \in Outcome BY <1>1
  <2>2. \A n \in 1..0 : <<>>[n] = r[n + 1] OBVIOUS
  <2>3. r[1] = t(3) OBVIOUS
  <2> HIDE DEF r
  <2> QED BY <2>1, <2>2, <2>3, JoinedHead
<1>4. Joined(q) = Then(t(2), Joined(r))
  <2>1. Len(q) = 1 + 1 /\ Len(r) = 1 /\ \A n \in 1..1 + 1 : q[n] \in Outcome BY <1>1
  <2>2. \A n \in 1..1 : r[n] = q[n + 1] OBVIOUS
  <2>3. q[1] = t(2) OBVIOUS
  <2> HIDE DEF q, r
  <2> QED BY <2>1, <2>2, <2>3, JoinedHead
<1>5. Joined(p) = Then(t(1), Joined(q))
  <2>1. Len(p) = 2 + 1 /\ Len(q) = 2 /\ \A n \in 1..2 + 1 : p[n] \in Outcome BY <1>1
  <2>2. \A n \in 1..2 : q[n] = p[n + 1] OBVIOUS
  <2>3. p[1] = t(1) OBVIOUS
  <2> HIDE DEF p, q
  <2> QED BY <2>1, <2>2, <2>3, JoinedHead
<1>6. p = [n \in 1..3 |-> t(n)] OBVIOUS
<1>7. Then(t(3), <<>>) = t(3) BY <1>1, ThenProperties
<1>8. Joined([n \in 1..3 |-> t(n)]) = Then(t(1), Then(t(2), t(3)))
  <2> HIDE DEF p, q, r
  <2> QED BY <1>2, <1>3, <1>4, <1>5, <1>6, <1>7
<1>9. Tries(w, f, i, base, open, 1) = Then(t(1), Then(t(2), t(3))) BY DEF Tries, t
<1>10. \A n \in 1..3 : Tried(w, f, i, base, open, n) \in Outcome BY TriedNested
<1> QED BY <1>8, <1>9, <1>10, TriesFrom DEF t

LEMMA ContributionNested ==
  ASSUME NEW f, NEW g, NEW w, IsWorld(w), NEW i \in Item, NEW base \in Dirs,
         NEW open \in SUBSET Keys
  PROVE  /\ Agree(f, g, open) => Contribution(w, f, i, base, open) = Contribution(w, g, i, base, open)
         /\ Typed(f, open) => Contribution(w, f, i, base, open) \in Outcome
<1>1. /\ i.kind \in {"field", "include", "package"}
      /\ i.kind = "field" => i.field \in Fields
      /\ i.kind = "package" => i.pkg \in Packages
      /\ i.kind = "include" => i.ext \in Extensions \cup {"none"}
  BY ItemFields
<1>2. <<>> \in Outcome BY EmptySeq DEF Outcome
<1>3. CASE i.kind = "field"
  <2>1. <<i.field>> \in Outcome BY <1>1, <1>3 DEF Outcome
  <2> QED BY <1>3, <2>1 DEF Contribution
<1>4. CASE i.kind = "package"
  <2>1. i.pkg \in Keys BY <1>1, <1>4 DEF Keys
  <2>2. ASSUME NEW h PROVE Contribution(w, h, i, base, open)
                             = Source(h, i.pkg, w.packages[i.pkg], base, open)
    BY <1>4 DEF Contribution
  <2> QED BY <2>1, <2>2, SourceNested
<1>5. CASE i.kind = "include"
  <2>1. ASSUME NEW h PROVE Contribution(w, h, i, base, open) = Include(w, h, i, base, open)
    BY <1>5 DEF Contribution
  <2>2. CASE i.ext # "none"
    <3>1. Named(i, base, i.ext) \in Files BY <1>1, <1>5, <2>2, NamedType
    <3> QED BY <1>2, <2>1, <2>2, <3>1, FileNested DEF Include
  <2>3. CASE i.ext = "none"
    <3> DEFINE given(h) == [n \in 1..3 |-> Tried(w, h, i, base, open, n)]
    <3>1. Agree(f, g, open) => given(f) = given(g) BY <1>5, TriedNested
    <3>2. Typed(f, open) => Joined(given(f)) \in Outcome BY <1>5, TriesJoined
    <3>3. ASSUME NEW h
          PROVE  Include(w, h, i, base, open)
                   = IF i.required /\ \A n \in 1..3 : Missing(w, i, base, n) THEN Refused
                     ELSE Joined(given(h))
      BY <2>3 DEF Include
    <3>4. Refused \in Outcome BY DEF Outcome
    <3> HIDE DEF given
    <3> QED BY <2>1, <3>1, <3>2, <3>3, <3>4
  <2> QED BY <2>2, <2>3
<1> QED BY <1>1, <1>3, <1>4, <1>5

LEMMA ContributionsNested ==
  ASSUME NEW f, NEW g, NEW w, IsWorld(w), NEW items \in Seq(Item), NEW base \in Dirs,
         NEW open \in SUBSET Keys
  PROVE  /\ Agree(f, g, open) =>
              Contributions(w, f, items, base, open) = Contributions(w, g, items, base, open)
         /\ Typed(f, open) => Contributions(w, f, items, base, open) \in Outcome
<1> DEFINE parts(h) == [n \in 1..Len(items) |-> Contribution(w, h, items[n], base, open)]
<1>1. Len(items) \in Nat /\ \A n \in 1..Len(items) : items[n] \in Item OBVIOUS
<1>2. Agree(f, g, open) => parts(f) = parts(g) BY <1>1, ContributionNested
<1>3. ASSUME Typed(f, open) PROVE Joined(parts(f)) \in Outcome
  <2>1. \A n \in 1..Len(items) : parts(f)[n] \in Outcome BY <1>1, <1>3, ContributionNested
  <2>2. Len(parts(f)) = Len(items) BY <1>1
  <2> HIDE DEF parts
  <2>3. PICK j : /\ IsJoin(j, parts(f))
                 /\ Joined(parts(f))
                      = IF \E n \in 1..Len(items) : parts(f)[n] = Refused THEN Refused ELSE j[1]
    <3>1. Len(parts(f)) \in Nat BY <1>1, <2>2
    <3> QED BY <2>2, <3>1, JoinExists
  <2>4. (\A n \in 1..Len(items) : parts(f)[n] \in Seq(Fields)) => j[1] \in Seq(Fields)
    <3>1. Len(parts(f)) \in Nat BY <1>1, <2>2
    <3> QED BY <2>2, <2>3, <3>1, JoinType
  <2> QED BY <2>1, <2>3, <2>4 DEF Outcome
<1> HIDE DEF parts
<1>4. ASSUME NEW h PROVE Contributions(w, h, items, base, open) = Joined(parts(h))
  BY DEF Contributions, parts
<1> QED BY <1>2, <1>3, <1>4

\* The first item and then the others.
LEMMA ContributionsHead ==
  ASSUME NEW f, NEW w, IsWorld(w), NEW items \in Seq(Item), items # <<>>, NEW base \in Dirs,
         NEW open \in SUBSET Keys, Typed(f, open)
  PROVE  /\ Head(items) \in Item /\ Tail(items) \in Seq(Item)
         /\ Contributions(w, f, items, base, open)
              = Then(Contribution(w, f, Head(items), base, open),
                     Contributions(w, f, Tail(items), base, open))
<1> DEFINE m == Len(items) - 1
           rest == Tail(items)
           c(i) == Contribution(w, f, i, base, open)
           parts == [n \in 1..m + 1 |-> c(items[n])]
           others == [n \in 1..m |-> c(rest[n])]
<1>1. /\ m \in Nat /\ Len(items) = m + 1 /\ Len(rest) = m /\ Head(items) = items[1]
      /\ rest \in Seq(Item) /\ \A n \in 1..m : rest[n] = items[n + 1]
  <2>1. Len(items) \in Nat \ {0} BY EmptySeq
  <2> QED BY <2>1, HeadTailProperties
<1>2. \A n \in 1..m + 1 : items[n] \in Item BY <1>1
<1> HIDE DEF m, rest
<1>3. \A n \in 1..m + 1 : c(items[n]) \in Outcome BY <1>2, ContributionNested
<1> HIDE DEF c
<1>4. /\ Len(parts) = m + 1 /\ Len(others) = m
      /\ \A n \in 1..m + 1 : parts[n] \in Outcome
      /\ \A n \in 1..m : others[n] = parts[n + 1]
      /\ parts[1] = c(items[1])
  BY <1>1, <1>3
<1> HIDE DEF parts, others
<1>5. Joined(parts) = Then(parts[1], Joined(others)) BY <1>1, <1>4, JoinedHead
<1>6. /\ Contributions(w, f, items, base, open) = Joined(parts)
      /\ Contributions(w, f, rest, base, open) = Joined(others)
  BY <1>1 DEF Contributions, parts, others, c
<1>7. items[1] \in Item BY <1>1, <1>2
<1> QED BY <1>1, <1>4, <1>5, <1>6, <1>7 DEF c, rest

LEMMA ContributionsNone ==
  ASSUME NEW f, NEW w, NEW base, NEW open
  PROVE  Contributions(w, f, <<>>, base, open) = <<>>
<1> DEFINE parts == [n \in 1..Len(<<>>) |-> Contribution(w, f, <<>>[n], base, open)]
<1>1. Len(parts) = 0 OBVIOUS
<1> HIDE DEF parts
<1>2. Joined(parts) = <<>> BY <1>1, JoinedNothing
<1> QED BY <1>2 DEF parts, Contributions

\* The sources with fewer than n keys left to be nested in them.
Depth(s) == Cardinality(Keys \ s.open)
Deep(n) == {s \in Sources : Depth(s) < n}

LEMMA DepthShrinks ==
  ASSUME NEW s \in Sources, NEW t \in Beyond(s.open)
  PROVE  Depth(s) \in Nat /\ Depth(t) \in Nat /\ Depth(t) < Depth(s)
<1>1. t \in Sources /\ s.open \subseteq t.open /\ t.open # s.open /\ t.open \subseteq Keys
  BY DEF Beyond, Sources
<1>2. IsFiniteSet(Keys \ s.open) /\ IsFiniteSet(Keys \ t.open) BY FiniteAssumption, FS_Difference
<1>3. Keys \ t.open \subseteq Keys \ s.open /\ Keys \ t.open # Keys \ s.open
  <2>1. PICK k \in t.open : k \notin s.open BY <1>1
  <2> QED BY <1>1, <2>1
<1>4. /\ Cardinality(Keys \ t.open) <= Cardinality(Keys \ s.open)
      /\ Cardinality(Keys \ t.open) # Cardinality(Keys \ s.open)
  BY <1>2, <1>3, FS_Subset
<1> QED BY <1>2, <1>4, FS_CardinalityType DEF Depth

(* Every document has exactly one inlining, a text or a refusal, however its  *)
(* files and packages include one another: the reference satisfies its own   *)
(* equation, since resolveObject refuses a source inside itself.             *)
THEOREM InliningIsDefined ==
  ASSUME NEW w, IsWorld(w), NEW s \in Sources
  PROVE  /\ Inline(w)[s] = Contributions(w, Inline(w), Body[s.text], s.base, s.open)
         /\ Inline(w)[s] \in Outcome
<1> DEFINE Entry(f, x) == Contributions(w, f, Body[x.text], x.base, x.open)
           inl == CHOOSE f : f = [x \in Sources |-> Entry(f, x)]
           S == {n \in Nat : \E f : f = [x \in Deep(n) |-> Entry(f, x)]}
<1>1. ASSUME NEW x \in Sources
      PROVE  Body[x.text] \in Seq(Item) /\ x.base \in Dirs /\ x.open \in SUBSET Keys
  BY SourceAssumption DEF Sources
<1>2. ASSUME NEW x \in Sources, NEW f, NEW g, Agree(f, g, x.open) PROVE Entry(f, x) = Entry(g, x)
  BY <1>1, <1>2, ContributionsNested
<1>3. ASSUME NEW x \in Sources, NEW f, Typed(f, x.open) PROVE Entry(f, x) \in Outcome
  BY <1>1, <1>3, ContributionsNested
<1>4. \A x \in Sources : Depth(x) \in Nat
  <2> TAKE x \in Sources
  <2>1. IsFiniteSet(Keys \ x.open) BY FiniteAssumption, FS_Difference
  <2> QED BY <2>1, FS_CardinalityType DEF Depth
<1>5. inl = Inline(w)
  BY DEF Inline
<1> HIDE DEF Entry
<1>6. 0 \in S
  <2>1. Deep(0) = {} BY <1>4 DEF Deep
  <2> DEFINE f == [x \in {} |-> 0]
  <2>2. f = [x \in Deep(0) |-> Entry(f, x)] BY <2>1
  <2> HIDE DEF f
  <2> QED BY <2>2
<1>7. ASSUME NEW n \in Nat, n \in S PROVE n + 1 \in S
  <2>1. PICK f : f = [x \in Deep(n) |-> Entry(f, x)] BY <1>7
  <2> DEFINE g == [x \in Deep(n + 1) |-> Entry(f, x)]
  <2>2. ASSUME NEW x \in Deep(n + 1) PROVE Entry(f, x) = Entry(g, x)
    <3>1. x \in Sources /\ Depth(x) \in Nat /\ Depth(x) < n + 1 BY <1>4 DEF Deep
    <3>2. ASSUME NEW y \in Beyond(x.open) PROVE f[y] = g[y]
      <4>1. Depth(y) \in Nat /\ Depth(y) < Depth(x) /\ y \in Sources
        BY <3>1, DepthShrinks DEF Beyond
      <4>2. Depth(y) < n /\ Depth(y) < n + 1 BY <3>1, <4>1
      <4>3. y \in Deep(n) /\ y \in Deep(n + 1) BY <4>1, <4>2 DEF Deep
      <4>4. f[y] = Entry(f, y) BY <2>1, <4>3
      <4> QED BY <4>3, <4>4
    <3>3. Agree(f, g, x.open)
      <4> HIDE DEF g
      <4> QED BY <3>2 DEF Agree
    <3> HIDE DEF g
    <3> QED BY <1>2, <3>1, <3>3
  <2>3. g = [x \in Deep(n + 1) |-> Entry(g, x)] BY <2>2
  <2> HIDE DEF g
  <2> QED BY <2>3
<1>8. \E f : f = [x \in Sources |-> Entry(f, x)]
  <2> HIDE DEF S
  <2> DEFINE n == Cardinality(Keys) + 1
  <2>1. n \in Nat BY FiniteAssumption, FS_CardinalityType
  <2>2. n \in S BY <1>6, <1>7, <2>1, NatInSet
  <2>3. Sources = Deep(n)
    <3>1. ASSUME NEW x \in Sources PROVE Depth(x) < n
      <4>1. Cardinality(Keys \ x.open) <= Cardinality(Keys) BY FiniteAssumption, FS_Subset
      <4> QED BY <1>4, <4>1, FiniteAssumption, FS_CardinalityType DEF Depth
    <3> HIDE DEF n
    <3> QED BY <3>1 DEF Deep
  <2> HIDE DEF n
  <2> QED BY <2>2, <2>3 DEF S
<1>9. inl = [x \in Sources |-> Entry(inl, x)] BY <1>8, Zenon
<1> HIDE DEF inl
<1>10. \A x \in Sources : inl[x] = Entry(inl, x) BY <1>9
<1>11. inl[s] \in Outcome
  <2> DEFINE T == {n \in Nat : \A x \in Deep(n) : inl[x] \in Outcome}
  <2>1. 0 \in T BY <1>4 DEF Deep
  <2>2. ASSUME NEW n \in Nat, n \in T, NEW x \in Deep(n + 1) PROVE inl[x] \in Outcome
    <3>1. x \in Sources /\ Depth(x) \in Nat /\ Depth(x) < n + 1 BY <1>4 DEF Deep
    <3>2. ASSUME NEW y \in Beyond(x.open) PROVE inl[y] \in Outcome
      <4>1. Depth(y) \in Nat /\ Depth(y) < Depth(x) /\ y \in Sources
        BY <3>1, DepthShrinks DEF Beyond
      <4>2. y \in Deep(n) BY <3>1, <4>1 DEF Deep
      <4> QED BY <2>2, <4>2
    <3>3. Typed(inl, x.open) BY <3>2 DEF Typed
    <3> QED BY <1>3, <1>10, <3>1, <3>3
  <2>3. \A n \in Nat : n \in T => n + 1 \in T BY <2>2
  <2> HIDE DEF T
  <2>4. \A n \in Nat : n \in T BY <2>1, <2>3, NatInSet
  <2>5. Depth(s) + 1 \in Nat /\ Depth(s) < Depth(s) + 1 BY <1>4
  <2>6. s \in Deep(Depth(s) + 1) BY <2>5 DEF Deep
  <2> QED BY <2>4, <2>5, <2>6 DEF T
<1> QED BY <1>5, <1>10, <1>11 DEF Entry

-----------------------------------------------------------------------------
(* What an activation still has to contribute.                              *)

Rest(w, items, base, open) == Contributions(w, Inline(w), items, base, open)

\* An include that tries the extensions from the n-th on; found: one of the
\* earlier ones was there.
Remaining(w, i, base, open, n, found) ==
  IF i.required /\ ~found /\ \A m \in n..3 : Missing(w, i, base, m) THEN Refused
  ELSE Tries(w, Inline(w), i, base, open, n)

Pending(w, f, open) ==
  IF f.probe = 0 THEN Rest(w, f.todo, f.base, open)
  ELSE Then(Remaining(w, Head(f.todo), f.base, open, f.probe, f.found),
            Rest(w, Tail(f.todo), f.base, open))

\* The include that is being tried is one.
Shaped(f) == f.probe # 0 => f.todo # <<>> /\ Head(f.todo).kind = "include"

LEMMA InlineTyped ==
  ASSUME NEW w, IsWorld(w), NEW open
  PROVE  Typed(Inline(w), open)
BY InliningIsDefined DEF Typed, Beyond

LEMMA TriesStep ==
  ASSUME NEW w, IsWorld(w), NEW i \in Item, i.kind = "include", NEW base \in Dirs,
         NEW open \in SUBSET Keys, NEW n \in 1..3
  PROVE  Tries(w, Inline(w), i, base, open, n)
           = Then(Tried(w, Inline(w), i, base, open, n), Tries(w, Inline(w), i, base, open, n + 1))
<1>1. Typed(Inline(w), open) BY InlineTyped
<1>2. \A m \in 1..3 : Tried(w, Inline(w), i, base, open, m) \in Outcome BY <1>1, TriedNested
<1> QED BY <1>2, TriesFrom

LEMMA RestType ==
  ASSUME NEW w, IsWorld(w), NEW items \in Seq(Item), NEW base \in Dirs, NEW open \in SUBSET Keys
  PROVE  Rest(w, items, base, open) \in Outcome
BY InlineTyped, ContributionsNested DEF Rest

LEMMA RemainingType ==
  ASSUME NEW w, IsWorld(w), NEW i \in Item, i.kind = "include", NEW base \in Dirs,
         NEW open \in SUBSET Keys, NEW n \in 1..4, NEW found
  PROVE  Remaining(w, i, base, open, n, found) \in Outcome
<1>1. Refused \in Outcome /\ <<>> \in Outcome BY EmptySeq DEF Outcome
<1>2. CASE n \in 1..3
  <2>1. Tries(w, Inline(w), i, base, open, n) \in Outcome BY <1>2, InlineTyped, TriesJoined
  <2> QED BY <1>1, <2>1 DEF Remaining
<1>3. CASE n = 4 BY <1>1, <1>3 DEF Remaining, Tries
<1> QED BY <1>2, <1>3

LEMMA PendingType ==
  ASSUME NEW w, IsWorld(w), NEW f \in Frame, Shaped(f), NEW open \in SUBSET Keys
  PROVE  Pending(w, f, open) \in Outcome
<1>1. f.todo \in Seq(Item) /\ f.base \in Dirs /\ f.probe \in 0..4 BY DEF Frame
<1>2. CASE f.probe = 0 BY <1>1, <1>2, RestType DEF Pending
<1>3. CASE f.probe # 0
  <2>1. Head(f.todo) \in Item /\ Tail(f.todo) \in Seq(Item)
    BY <1>1, <1>3, HeadTailProperties DEF Shaped
  <2>2. Rest(w, Tail(f.todo), f.base, open) \in Outcome BY <1>1, <2>1, RestType
  <2>3. Remaining(w, Head(f.todo), f.base, open, f.probe, f.found) \in Outcome
    <3>1. f.probe \in 1..4 BY <1>1, <1>3
    <3> QED BY <1>1, <1>3, <2>1, <3>1, RemainingType DEF Shaped
  <2> QED BY <1>3, <2>2, <2>3, ThenProperties DEF Pending
<1> QED BY <1>2, <1>3

\* Nothing is left at the end of a source.
LEMMA PendingNothing ==
  ASSUME NEW w, NEW f \in Frame, f.probe = 0, f.todo = <<>>, NEW open
  PROVE  Pending(w, f, open) = <<>>
BY ContributionsNone DEF Pending, Rest

LEMMA PendingAdvanced ==
  ASSUME NEW w, NEW f \in Frame, f.todo # <<>>, NEW open
  PROVE  Pending(w, Advance(f), open) = Rest(w, Tail(f.todo), f.base, open)
<1>1. /\ Advance(f).probe = 0 /\ Advance(f).todo = Tail(f.todo) /\ Advance(f).base = f.base
  BY DEF Advance, Frame
<1> QED BY <1>1 DEF Pending

\* One item, and then the others.
LEMMA PendingItem ==
  ASSUME NEW w, IsWorld(w), NEW f \in Frame, f.probe = 0, f.todo # <<>>, NEW open \in SUBSET Keys
  PROVE  /\ Pending(w, f, open)
              = Then(Contribution(w, Inline(w), Head(f.todo), f.base, open),
                     Pending(w, Advance(f), open))
         /\ Contribution(w, Inline(w), Head(f.todo), f.base, open) \in Outcome
         /\ Pending(w, Advance(f), open) \in Outcome
<1>1. f.todo \in Seq(Item) /\ f.base \in Dirs BY DEF Frame
<1>2. Typed(Inline(w), open) BY InlineTyped
<1>3. /\ Head(f.todo) \in Item /\ Tail(f.todo) \in Seq(Item)
      /\ Rest(w, f.todo, f.base, open)
           = Then(Contribution(w, Inline(w), Head(f.todo), f.base, open),
                  Rest(w, Tail(f.todo), f.base, open))
  BY <1>1, <1>2, ContributionsHead DEF Rest
<1>4. Contribution(w, Inline(w), Head(f.todo), f.base, open) \in Outcome
  BY <1>1, <1>2, <1>3, ContributionNested
<1>5. Rest(w, Tail(f.todo), f.base, open) \in Outcome BY <1>1, <1>3, RestType
<1> QED BY <1>3, <1>4, <1>5, PendingAdvanced DEF Pending

\* An include without extension begins with the first one.
LEMMA PendingProbe ==
  ASSUME NEW w, IsWorld(w), NEW f \in Frame, f.probe = 0, f.todo # <<>>, NEW open \in SUBSET Keys,
         Head(f.todo).kind = "include", Head(f.todo).ext = "none", ~f.found
  PROVE  Pending(w, [f EXCEPT !.probe = 1], open) = Pending(w, f, open)
<1> DEFINE i == Head(f.todo)
           g == [f EXCEPT !.probe = 1]
<1>1. f.todo \in Seq(Item) /\ f.base \in Dirs BY DEF Frame
<1>2. i \in Item BY <1>1, HeadTailProperties
<1>3. g.probe = 1 /\ g.todo = f.todo /\ g.base = f.base /\ g.found = f.found BY DEF Frame
<1>4. Contribution(w, Inline(w), i, f.base, open)
        = IF i.required /\ \A n \in 1..3 : Missing(w, i, f.base, n) THEN Refused
          ELSE Joined([n \in 1..3 |-> Tried(w, Inline(w), i, f.base, open, n)])
  BY DEF Contribution, Include
<1>5. Joined([n \in 1..3 |-> Tried(w, Inline(w), i, f.base, open, n)])
        = Tries(w, Inline(w), i, f.base, open, 1)
  BY <1>1, <1>2, InlineTyped, TriesJoined
<1>6. Contribution(w, Inline(w), i, f.base, open) = Remaining(w, i, f.base, open, 1, f.found)
  BY <1>4, <1>5 DEF Remaining
<1>7. Pending(w, f, open) = Then(Contribution(w, Inline(w), i, f.base, open),
                                 Pending(w, Advance(f), open))
  BY PendingItem
<1>8. Pending(w, Advance(f), open) = Rest(w, Tail(f.todo), f.base, open) BY PendingAdvanced
<1> HIDE DEF g, i
<1>9. Pending(w, g, open) = Then(Remaining(w, i, f.base, open, 1, f.found),
                                 Rest(w, Tail(f.todo), f.base, open))
  BY <1>3 DEF Pending, i
<1> QED BY <1>6, <1>7, <1>8, <1>9 DEF g

\* An extension that names no file is passed over.
LEMMA PendingMissing ==
  ASSUME NEW w, IsWorld(w), NEW f \in Frame, f.probe \in 1..3, Shaped(f), NEW open \in SUBSET Keys,
         Missing(w, Head(f.todo), f.base, f.probe)
  PROVE  Pending(w, [f EXCEPT !.probe = @ + 1], open) = Pending(w, f, open)
<1> DEFINE i == Head(f.todo)
           g == [f EXCEPT !.probe = @ + 1]
           n == f.probe
<1>1. f.todo \in Seq(Item) /\ f.base \in Dirs /\ f.todo # <<>> /\ i.kind = "include"
  BY DEF Frame, Shaped
<1>2. i \in Item BY <1>1, HeadTailProperties
<1>3. g.probe = n + 1 /\ g.todo = f.todo /\ g.base = f.base /\ g.found = f.found BY DEF Frame
<1> HIDE DEF g, i
<1>4. /\ Tries(w, Inline(w), i, f.base, open, n)
           = Then(Tried(w, Inline(w), i, f.base, open, n), Tries(w, Inline(w), i, f.base, open, n + 1))
  <2>1. n \in 1..3 OBVIOUS
  <2> QED BY <1>1, <1>2, <2>1, TriesStep
<1>5. Tries(w, Inline(w), i, f.base, open, n + 1) \in Outcome
  <2>1. CASE n = 3 BY <2>1, EmptySeq DEF Tries, Outcome
  <2>2. CASE n # 3
    <3>1. n + 1 \in 1..3 BY <2>2
    <3> QED BY <1>1, <1>2, <3>1, InlineTyped, TriesJoined
  <2> QED BY <2>1, <2>2
<1>6. Tried(w, Inline(w), i, f.base, open, n) = <<>> BY DEF Tried, i
<1>7. Tries(w, Inline(w), i, f.base, open, n) = Tries(w, Inline(w), i, f.base, open, n + 1)
  BY <1>4, <1>5, <1>6, ThenProperties
<1>8. (\A m \in n..3 : Missing(w, i, f.base, m)) <=> (\A m \in n + 1..3 : Missing(w, i, f.base, m))
  <2>1. \A m \in n..3 : m = n \/ m \in n + 1..3 OBVIOUS
  <2>2. \A m \in n + 1..3 : m \in n..3 OBVIOUS
  <2> QED BY <2>1, <2>2 DEF i
<1>9. Remaining(w, i, f.base, open, n, f.found) = Remaining(w, i, f.base, open, n + 1, f.found)
  BY <1>7, <1>8 DEF Remaining
<1>10. n # 0 /\ n + 1 # 0 OBVIOUS
<1>11. Pending(w, f, open) = Then(Remaining(w, i, f.base, open, n, f.found),
                                 Rest(w, Tail(f.todo), f.base, open))
  BY <1>10 DEF Pending, i
<1>12. Pending(w, g, open) = Then(Remaining(w, i, f.base, open, n + 1, f.found),
                                 Rest(w, Tail(f.todo), f.base, open))
  BY <1>3, <1>10 DEF Pending, i
<1> QED BY <1>9, <1>11, <1>12 DEF g

\* An extension that names a file gives the fields of the file.
LEMMA PendingFound ==
  ASSUME NEW w, IsWorld(w), NEW f \in Frame, f.probe \in 1..3, Shaped(f), NEW open \in SUBSET Keys,
         ~Missing(w, Head(f.todo), f.base, f.probe),
         NEW g \in Frame, g.probe = f.probe + 1, g.todo = f.todo, g.base = f.base, g.found = TRUE
  PROVE  LET file == Named(Head(f.todo), f.base, Extension[f.probe])
         IN /\ file \in Files /\ File(w, Inline(w), file, open) \in Outcome
            /\ Pending(w, g, open) \in Outcome
            /\ Pending(w, f, open) = Then(File(w, Inline(w), file, open), Pending(w, g, open))
<1> DEFINE i == Head(f.todo)
           n == f.probe
           file == Named(i, f.base, Extension[n])
<1>1. f.todo \in Seq(Item) /\ f.base \in Dirs /\ f.todo # <<>> /\ i.kind = "include"
  BY DEF Frame, Shaped
<1>2. i \in Item /\ Tail(f.todo) \in Seq(Item) BY <1>1, HeadTailProperties
<1>3. file \in Files
  <2>1. Extension[n] \in Extensions BY DEF Extension, Extensions
  <2> QED BY <1>1, <1>2, <2>1, NamedType
<1>4. File(w, Inline(w), file, open) \in Outcome BY <1>3, InlineTyped, FileNested
<1>5. Tried(w, Inline(w), i, f.base, open, n) = File(w, Inline(w), file, open) BY DEF Tried
<1> DEFINE a == File(w, Inline(w), file, open)
           b == Tries(w, Inline(w), i, f.base, open, n + 1)
           c == Rest(w, Tail(f.todo), f.base, open)
<1>6. Tries(w, Inline(w), i, f.base, open, n) = Then(a, b) BY <1>1, <1>2, <1>5, TriesStep
<1>7. b \in Outcome
  <2>1. CASE n = 3 BY <2>1, EmptySeq DEF Tries, Outcome
  <2>2. CASE n # 3
    <3>1. n + 1 \in 1..3 BY <2>2
    <3> QED BY <1>1, <1>2, <3>1, InlineTyped, TriesJoined
  <2> QED BY <2>1, <2>2
<1>8. c \in Outcome BY <1>1, <1>2, RestType
<1>9. n # 0 /\ n + 1 # 0 /\ n \in n..3 OBVIOUS
<1>10. Remaining(w, i, f.base, open, n, f.found) = Then(a, b) BY <1>6, <1>9 DEF Remaining
<1>11. Remaining(w, i, f.base, open, n + 1, TRUE) = b BY DEF Remaining
<1>12. Pending(w, f, open) = Then(Then(a, b), c) BY <1>9, <1>10 DEF Pending
<1>13. Pending(w, g, open) = Then(b, c) BY <1>9, <1>11 DEF Pending
<1>14. Then(Then(a, b), c) = Then(a, Then(b, c)) /\ Then(b, c) \in Outcome
  <2> HIDE DEF a, b, c
  <2> QED BY <1>4, <1>7, <1>8, ThenProperties DEF a
<1> QED BY <1>3, <1>4, <1>12, <1>13, <1>14

\* All extensions were tried.
LEMMA PendingTried ==
  ASSUME NEW w, IsWorld(w), NEW f \in Frame, f.probe = 4, Shaped(f), NEW open \in SUBSET Keys
  PROVE  Pending(w, f, open) = IF Head(f.todo).required /\ ~f.found THEN Refused
                               ELSE Pending(w, Advance(f), open)
<1>1. f.todo \in Seq(Item) /\ f.base \in Dirs /\ f.todo # <<>> BY DEF Frame, Shaped
<1>2. Tail(f.todo) \in Seq(Item) BY <1>1, HeadTailProperties
<1> DEFINE c == Rest(w, Tail(f.todo), f.base, open)
<1>3. c \in Outcome BY <1>1, <1>2, RestType
<1>4. 4..3 = {} OBVIOUS
<1>5. Remaining(w, Head(f.todo), f.base, open, 4, f.found)
        = IF Head(f.todo).required /\ ~f.found THEN Refused ELSE <<>>
  BY <1>4 DEF Remaining, Tries
<1>6. Then(Refused, c) = Refused /\ Then(<<>>, c) = c BY <1>3, ThenProperties
<1> HIDE DEF c
<1>7. Pending(w, f, open) = Then(Remaining(w, Head(f.todo), f.base, open, 4, f.found), c)
  BY DEF Pending, c
<1>8. Pending(w, Advance(f), open) = c BY <1>1, PendingAdvanced DEF c
<1> QED BY <1>5, <1>6, <1>7, <1>8

\* A source that is opened contributes what its own activation has to do.
LEMMA PendingSource ==
  ASSUME NEW w, IsWorld(w), NEW key \in Keys, NEW text \in Contents \ Malformed,
         NEW base \in Dirs, NEW open \in SUBSET Keys, key \notin open
  PROVE  Source(Inline(w), key, text, base, open)
           = Pending(w, NewFrame(key, base, text), open \cup {key})
<1> DEFINE s == [text |-> text, base |-> base, open |-> open \cup {key}]
<1>1. s \in Sources BY DEF Sources
<1>2. Source(Inline(w), key, text, base, open) = Inline(w)[s] BY DEF Source
<1>3. Inline(w)[s] = Contributions(w, Inline(w), Body[s.text], s.base, s.open)
  <2> HIDE DEF s
  <2> QED BY <1>1, InliningIsDefined
<1>4. /\ NewFrame(key, base, text).probe = 0 /\ NewFrame(key, base, text).base = base
      /\ NewFrame(key, base, text).todo = Body[text]
  BY DEF NewFrame
<1> QED BY <1>2, <1>3, <1>4 DEF Pending, Rest

-----------------------------------------------------------------------------
(* The activations, outermost first: what each makes is what it has, then   *)
(* what the source it is at makes, then what it still has to contribute.    *)

\* The sources that are open while the activation at i runs.
Open(fr, i) == {fr[j].key : j \in 2..i}

Makes(w, fr, v) ==
  /\ v \in [1..Len(fr) -> Outcome]
  /\ v[Len(fr)] = Then(fr[Len(fr)].out, Pending(w, fr[Len(fr)], Open(fr, Len(fr))))
  /\ \A i \in 1..Len(fr) - 1 :
       v[i] = Then(fr[i].out, Then(v[i + 1], Pending(w, fr[i], Open(fr, i))))

\* All activations together make this text.
Heading(w, fr, goal) == \E v : Makes(w, fr, v) /\ v[1] = goal

LEMMA OpenKept ==
  ASSUME NEW fr, NEW gr, NEW i \in Nat, \A j \in 1..i : gr[j].key = fr[j].key
  PROVE  Open(gr, i) = Open(fr, i)
<1>1. \A j \in 2..i : j \in 1..i OBVIOUS
<1> QED BY <1>1 DEF Open

\* The innermost activation goes on, and nothing changes in sum.
LEMMA HeadingKept ==
  ASSUME NEW w, NEW fr \in Seq(Frame), fr # <<>>, NEW goal, Heading(w, fr, goal),
         NEW f, f.key = fr[Len(fr)].key,
         Then(f.out, Pending(w, f, Open(fr, Len(fr))))
           = Then(fr[Len(fr)].out, Pending(w, fr[Len(fr)], Open(fr, Len(fr))))
  PROVE  Heading(w, [fr EXCEPT ![Len(fr)] = f], goal)
<1> DEFINE n == Len(fr)
           gr == [fr EXCEPT ![n] = f]
<1>1. n \in Nat \ {0} /\ n \in 1..n BY EmptySeq
<1>2. Len(gr) = n /\ \A i \in 1..n : gr[i] = IF i = n THEN f ELSE fr[i] OBVIOUS
<1> HIDE DEF gr
<1>3. \A j \in 1..n : gr[j].key = fr[j].key BY <1>2
<1>4. \A i \in 1..n : Open(gr, i) = Open(fr, i)
  <2> TAKE i \in 1..n
  <2>1. i \in Nat /\ \A j \in 1..i : j \in 1..n BY <1>1
  <2> QED BY <1>3, <2>1, OpenKept
<1>5. PICK v : Makes(w, fr, v) /\ v[1] = goal BY DEF Heading
<1>6. v[n] = Then(gr[n].out, Pending(w, gr[n], Open(gr, n))) BY <1>1, <1>2, <1>4, <1>5 DEF Makes
<1>7. ASSUME NEW i \in 1..n - 1
      PROVE  v[i] = Then(gr[i].out, Then(v[i + 1], Pending(w, gr[i], Open(gr, i))))
  <2>1. i \in 1..n /\ i # n BY <1>1
  <2>2. gr[i] = fr[i] /\ Open(gr, i) = Open(fr, i) BY <1>2, <1>4, <2>1
  <2>3. v[i] = Then(fr[i].out, Then(v[i + 1], Pending(w, fr[i], Open(fr, i)))) BY <1>5 DEF Makes
  <2> QED BY <2>2, <2>3
<1>8. Makes(w, gr, v) BY <1>2, <1>5, <1>6, <1>7 DEF Makes
<1> QED BY <1>5, <1>8 DEF Heading, gr

\* The innermost activation opens a source.
LEMMA HeadingPushed ==
  ASSUME NEW w, NEW fr \in Seq(Frame), fr # <<>>, NEW goal, Heading(w, fr, goal),
         NEW f \in Frame, f.key = fr[Len(fr)].key, NEW g \in Frame,
         Then(g.out, Pending(w, g, Open(fr, Len(fr)) \cup {g.key})) \in Outcome,
         Then(fr[Len(fr)].out, Pending(w, fr[Len(fr)], Open(fr, Len(fr))))
           = Then(f.out, Then(Then(g.out, Pending(w, g, Open(fr, Len(fr)) \cup {g.key})),
                              Pending(w, f, Open(fr, Len(fr)))))
  PROVE  Heading(w, Append([fr EXCEPT ![Len(fr)] = f], g), goal)
<1> DEFINE n == Len(fr)
           er == [fr EXCEPT ![n] = f]
           gr == Append(er, g)
           made == Then(g.out, Pending(w, g, Open(fr, n) \cup {g.key}))
<1>1. n \in Nat \ {0} /\ n \in 1..n BY EmptySeq
<1>2. er \in Seq(Frame) /\ Len(er) = n /\ \A i \in 1..n : er[i] = IF i = n THEN f ELSE fr[i]
  BY <1>1, ExceptSeq
<1> HIDE DEF er
<1>3. /\ Len(gr) = n + 1 /\ gr[n + 1] = g
      /\ \A i \in 1..n : gr[i] = IF i = n THEN f ELSE fr[i]
  BY <1>2, AppendProperties
<1> HIDE DEF gr
<1>4. \A j \in 1..n : gr[j].key = fr[j].key BY <1>3
<1>5. \A i \in 1..n : Open(gr, i) = Open(fr, i)
  <2> TAKE i \in 1..n
  <2>1. i \in Nat /\ \A j \in 1..i : j \in 1..n BY <1>1
  <2> QED BY <1>4, <2>1, OpenKept
<1>6. Open(gr, n + 1) = Open(fr, n) \cup {g.key}
  <2>1. \A j : j \in 2..n + 1 <=> j \in 2..n \/ j = n + 1 BY <1>1
  <2>2. Open(gr, n + 1) = Open(gr, n) \cup {g.key} BY <1>3, <2>1 DEF Open
  <2> QED BY <1>1, <1>5, <2>2
<1>7. PICK v : Makes(w, fr, v) /\ v[1] = goal BY DEF Heading
<1> DEFINE u == [i \in 1..n + 1 |-> IF i = n + 1 THEN made ELSE v[i]]
<1>8. u[n + 1] = made /\ \A i \in 1..n : u[i] = v[i] BY <1>1
<1>9. u \in [1..n + 1 -> Outcome]
  <2>1. \A i \in 1..n + 1 : i # n + 1 => i \in 1..n BY <1>1
  <2>2. \A i \in 1..n : v[i] \in Outcome BY <1>7 DEF Makes
  <2> HIDE DEF made
  <2>3. made \in Outcome BY DEF made
  <2> QED BY <2>1, <2>2, <2>3
<1> HIDE DEF u
<1>10. u[n + 1] = Then(gr[n + 1].out, Pending(w, gr[n + 1], Open(gr, n + 1))) BY <1>3, <1>6, <1>8
<1>11. ASSUME NEW i \in 1..n
       PROVE  u[i] = Then(gr[i].out, Then(u[i + 1], Pending(w, gr[i], Open(gr, i))))
  <2>1. CASE i = n
    <3>1. u[n] = Then(fr[n].out, Pending(w, fr[n], Open(fr, n))) BY <1>1, <1>7, <1>8 DEF Makes
    <3>2. gr[n] = f /\ Open(gr, n) = Open(fr, n) BY <1>1, <1>3, <1>5
    <3> QED BY <1>8, <2>1, <3>1, <3>2
  <2>2. CASE i # n
    <3>1. i \in 1..n - 1 /\ i + 1 \in 1..n BY <1>1, <2>2
    <3>2. gr[i] = fr[i] /\ Open(gr, i) = Open(fr, i) BY <1>3, <1>5, <2>2
    <3>3. v[i] = Then(fr[i].out, Then(v[i + 1], Pending(w, fr[i], Open(fr, i))))
      BY <1>7, <3>1 DEF Makes
    <3> QED BY <1>8, <3>1, <3>2, <3>3
  <2> QED BY <2>1, <2>2
<1>12. Makes(w, gr, u)
  <2>1. (n + 1) - 1 = n BY <1>1
  <2> QED BY <1>3, <1>9, <1>10, <1>11, <2>1 DEF Makes
<1>13. u[1] = goal BY <1>1, <1>7, <1>8
<1> QED BY <1>12, <1>13 DEF Heading, gr, er

\* The innermost activation has nothing left, and hands over what it has.
\* The order in which parts are put together is immaterial.
LEMMA ThenAssociative ==
  ASSUME NEW a \in Outcome, NEW b \in Outcome, NEW c \in Outcome
  PROVE  Then(a, Then(b, c)) = Then(Then(a, b), c)
BY ThenProperties

LEMMA HeadingPopped ==
  ASSUME NEW w, NEW fr \in Seq(Frame), NEW n \in Nat, Len(fr) = n + 1, n # 0,
         NEW goal, Heading(w, fr, goal),
         Pending(w, fr[n + 1], Open(fr, n + 1)) = <<>>,
         Pending(w, fr[n], Open(fr, n)) \in Outcome,
         NEW gr, Len(gr) = n, \A i \in 1..n - 1 : gr[i] = fr[i],
         gr[n] = Emit(fr[n], fr[n + 1].out),
         Pending(w, gr[n], Open(fr, n)) = Pending(w, fr[n], Open(fr, n))
  PROVE  Heading(w, gr, goal)
<1>1. n \in 1..n + 1 /\ n + 1 \in 1..n + 1 /\ n \in 1..n OBVIOUS
<1>2. fr[n] \in Frame /\ fr[n + 1] \in Frame BY <1>1
<1> DEFINE a == fr[n].out
           b == fr[n + 1].out
           p == Pending(w, fr[n], Open(fr, n))
<1>3. a \in Seq(Fields) /\ b \in Seq(Fields) BY <1>2 DEF Frame
<1>4. a \in Outcome /\ b \in Outcome /\ Then(a, b) = a \o b
  BY <1>3, RefusedAssumption DEF Outcome, Then
<1>5. gr[n].key = fr[n].key /\ gr[n].out = a \o b BY <1>2, <1>3, EmitStep DEF Emit, Frame
<1>6. \A i \in 1..n : Open(gr, i) = Open(fr, i)
  <2> TAKE i \in 1..n
  <2>1. i \in Nat /\ \A j \in 1..i : j = n \/ j \in 1..n - 1 OBVIOUS
  <2> QED BY <1>5, <2>1, OpenKept
<1>7. PICK v : Makes(w, fr, v) /\ v[1] = goal BY DEF Heading
<1>8. v[n + 1] = b
  <2>1. v[n + 1] = Then(b, <<>>) BY <1>7 DEF Makes
  <2> QED BY <1>4, <2>1, ThenProperties
<1>9. v[n] = Then(a \o b, p)
  <2>1. n \in 1..(n + 1) - 1 OBVIOUS
  <2>2. v[n] = Then(a, Then(v[n + 1], p)) BY <1>7, <2>1 DEF Makes
  <2>3. a \in Outcome /\ b \in Outcome /\ p \in Outcome BY <1>4
  <2>4. \A x, y, z \in Outcome : Then(x, Then(y, z)) = Then(Then(x, y), z) BY ThenAssociative
  <2>5. Then(a, Then(b, p)) = Then(Then(a, b), p) 
    <3> HIDE DEF a, b, p
    <3> QED BY <2>3, <2>4
  <2> QED BY <1>4, <1>8, <2>2, <2>5
<1> DEFINE u == [i \in 1..n |-> v[i]]
<1>10. u \in [1..n -> Outcome] /\ \A i \in 1..n : u[i] = v[i]
  <2>1. \A i \in 1..n : i \in 1..n + 1 OBVIOUS
  <2> QED BY <1>7, <2>1 DEF Makes
<1> HIDE DEF u
<1>11. u[n] = Then(gr[n].out, Pending(w, gr[n], Open(gr, n))) BY <1>1, <1>5, <1>6, <1>9, <1>10
<1>12. ASSUME NEW i \in 1..n - 1
       PROVE  u[i] = Then(gr[i].out, Then(u[i + 1], Pending(w, gr[i], Open(gr, i))))
  <2>1. i \in 1..n /\ i + 1 \in 1..n /\ i \in 1..(n + 1) - 1 OBVIOUS
  <2>2. v[i] = Then(fr[i].out, Then(v[i + 1], Pending(w, fr[i], Open(fr, i))))
    BY <1>7, <2>1 DEF Makes
  <2> QED BY <1>6, <1>10, <2>1, <2>2
<1>13. u[1] = goal
  <2>1. 1 \in 1..n OBVIOUS
  <2> QED BY <1>7, <1>10, <2>1
<1> QED BY <1>10, <1>11, <1>12, <1>13 DEF Heading, Makes

\* When the innermost activation has to refuse, the document does.
LEMMA HeadingRefused ==
  ASSUME NEW w, NEW fr \in Seq(Frame), fr # <<>>, NEW goal, Heading(w, fr, goal),
         Pending(w, fr[Len(fr)], Open(fr, Len(fr))) = Refused
  PROVE  goal = Refused
<1> DEFINE n == Len(fr)
<1>1. n \in Nat \ {0} BY EmptySeq
<1>2. PICK v : Makes(w, fr, v) /\ v[1] = goal BY DEF Heading
<1> DEFINE S == {k \in Nat : k <= n - 1 => v[n - k] = Refused}
<1>3. 0 \in S
  <2>1. v[n] = Refused BY <1>2 DEF Makes, Then
  <2>2. n - 0 = n BY <1>1
  <2> QED BY <2>1, <2>2
<1>4. ASSUME NEW k \in Nat, k \in S, k + 1 <= n - 1 PROVE v[n - (k + 1)] = Refused
  <2> DEFINE i == n - (k + 1)
  <2>1. i \in 1..n - 1 /\ i + 1 = n - k /\ k <= n - 1 BY <1>1, <1>4
  <2>2. v[i + 1] = Refused BY <1>4, <2>1
  <2> HIDE DEF i
  <2>3. v[i] = Then(fr[i].out, Then(v[i + 1], Pending(w, fr[i], Open(fr, i)))) BY <1>2, <2>1 DEF Makes
  <2>4. v[i] = Refused BY <2>2, <2>3 DEF Then
  <2> QED BY <2>4 DEF i
<1>5. \A k \in Nat : k \in S => k + 1 \in S BY <1>4
<1>6. n - 1 \in Nat /\ n - (n - 1) = 1 BY <1>1
<1> HIDE DEF S
<1>7. n - 1 \in S BY <1>3, <1>5, <1>6, NatInSet
<1> QED BY <1>2, <1>6, <1>7 DEF S

-----------------------------------------------------------------------------
(* The parse, in a world that stands still.                                 *)

Goal(w, d) == Inline(w)[[text |-> d.text, base |-> d.base, open |-> {}]]

\* Only an extension that is tried can have been seen.
Probed(w, f) ==
  /\ f.probe = 0 => ~f.found /\ ~f.statted
  /\ f.statted => ~Missing(w, Head(f.todo), f.base, f.probe)

Inlined(w, d, st, fr, b) ==
  /\ st = "building" => /\ Heading(w, fr, Goal(w, d))
                        /\ \A i \in 1..Len(fr) : Probed(w, fr[i])
  /\ st \in {"failing", "failed"} /\ d # NoDocument => Goal(w, d) = Refused
  /\ st = "done" => b = Goal(w, d)

\* The inductive invariant.
InlineInv ==
  /\ status = "idle" => document = NoDocument
  /\ fs \notin Volatile => Inlined(World, document, status, frames, built)

\* The sources that are open now.
Here == Open(frames, Len(frames))

\* A parse that builds, in a world that stands still.
Building == IncludeInv /\ InlineInv /\ fs \notin Volatile /\ status = "building"

LEMMA HereIsStack ==
  ASSUME IncludeInv, frames # <<>>
  PROVE  Here \in SUBSET Keys /\ \A key : InStack(key) <=> key \in Here
<1>1. Len(frames) \in Nat /\ Len(stack) \in Nat /\ stack \in Seq(Keys)
  BY LenProperties DEF IncludeInv, TypeOK
<1>2. Len(frames) = Len(stack) + 1 /\ \A i \in 1..Len(stack) : stack[i] = frames[i + 1].key
  BY DEF IncludeInv, StackIsOpenSources
<1>3. ASSUME NEW key, InStack(key) PROVE key \in Here
  <2>1. PICK i \in 1..Len(stack) : stack[i] = key BY <1>3 DEF InStack
  <2>2. i + 1 \in 2..Len(frames) /\ frames[i + 1].key = key BY <1>1, <1>2, <2>1
  <2> QED BY <2>2 DEF Here, Open
<1>4. ASSUME NEW key, key \in Here PROVE InStack(key) /\ key \in Keys
  <2>1. PICK j \in 2..Len(frames) : frames[j].key = key BY <1>4 DEF Here, Open
  <2>2. j - 1 \in 1..Len(stack) /\ (j - 1) + 1 = j BY <1>1, <1>2
  <2>3. stack[j - 1] = key BY <1>2, <2>1, <2>2
  <2>4. stack[j - 1] \in Keys BY <1>1, <2>2, ElementOfSeq
  <2> QED BY <2>2, <2>3, <2>4 DEF InStack
<1> QED BY <1>3, <1>4

LEMMA BuildingFacts ==
  ASSUME Building
  PROVE  /\ IsWorld(World)
         /\ frames \in Seq(Frame) /\ frames # <<>> /\ Len(frames) \in Nat \ {0}
         /\ frame \in Frame /\ Shaped(frame) /\ Probed(World, frame)
         /\ frame.todo # <<>> => item \in Item
         /\ Here \in SUBSET Keys /\ \A key : InStack(key) <=> key \in Here
         /\ Heading(World, frames, Goal(World, document))
         /\ \A i \in 1..Len(frames) : Probed(World, frames[i])
<1>1. frames # <<>> BY DEF Building, IncludeInv, Shape
<1>2. IsWorld(World) BY DEF Building, IncludeInv, TypeOK, IsWorld, World
<1>3. /\ Heading(World, frames, Goal(World, document))
      /\ \A i \in 1..Len(frames) : Probed(World, frames[i])
  BY DEF Building, InlineInv, Inlined
<1>4. /\ Len(frames) \in 1..Len(frames) /\ frame \in Frame
      /\ frame.todo # <<>> => item \in Item
  BY <1>1, FrameIsTop DEF Building
<1>5. frames \in Seq(Frame) /\ Len(frames) \in Nat \ {0}
  BY <1>1, EmptySeq DEF Building, IncludeInv, TypeOK
<1>6. Shaped(frame) BY <1>4 DEF Building, IncludeInv, Shape, Shaped, frame
<1>7. Probed(World, frame) BY <1>3, <1>4 DEF frame
<1>8. Here \in SUBSET Keys /\ \A key : InStack(key) <=> key \in Here
  BY <1>1, HereIsStack DEF Building
<1> QED BY <1>1, <1>2, <1>3, <1>4, <1>5, <1>6, <1>7, <1>8

\* A parse fails where its document has no inlining.
LEMMA FailsRightly ==
  ASSUME Building, Pending(World, frame, Here) = Refused,
         NEW kind, NEW key, NEW required, Fail(kind, key, required)
  PROVE  InlineInv'
<1>1. Goal(World, document) = Refused BY BuildingFacts, HeadingRefused DEF frame, Here
<1>2. World' = World /\ fs' = fs /\ document' = document /\ status' = "failing"
  BY DEF Fail, World, world
<1> QED BY <1>1, <1>2 DEF InlineInv, Inlined

\* The innermost activation goes on.
LEMMA GoesOn ==
  ASSUME Building, NEW f, f.key = frame.key, Probed(World, f),
         Then(f.out, Pending(World, f, Here)) = Then(frame.out, Pending(World, frame, Here)),
         frames' = SetFrame(f), UNCHANGED <<world, document, status, stack, error, built>>
  PROVE  InlineInv'
<1>1. Heading(World, frames', Goal(World, document))
  BY BuildingFacts, HeadingKept DEF frame, Here, SetFrame
<1>2. World' = World /\ fs' = fs /\ document' = document /\ status' = "building"
  BY DEF World, world, Building
<1>3. \A i \in 1..Len(frames') : Probed(World, frames'[i])
  <2>1. Len(frames') = Len(frames)
        /\ \A i \in 1..Len(frames) : frames'[i] = IF i = Len(frames) THEN f ELSE frames[i]
    BY BuildingFacts DEF SetFrame
  <2> QED BY <2>1, BuildingFacts
<1> QED BY <1>1, <1>2, <1>3 DEF InlineInv, Inlined

\* The innermost activation opens a source.
LEMMA Opens ==
  ASSUME Building, NEW f \in Frame, f.key = frame.key, f.out = frame.out, Probed(World, f),
         NEW key \in Keys \ Here, NEW base \in Dirs, NEW text \in Contents \ Malformed,
         Pending(World, frame, Here)
           = Then(Source(Inline(World), key, text, base, Here), Pending(World, f, Here)),
         frames' = Append(SetFrame(f), NewFrame(key, base, text)),
         UNCHANGED <<world, document, status, error, built>>
  PROVE  InlineInv'
<1> DEFINE g == NewFrame(key, base, text)
<1>1. g \in Frame /\ g.key = key /\ g.probe = 0 /\ g.out = <<>> /\ ~g.found /\ ~g.statted
  BY NewFrameType DEF NewFrame
<1>2. Pending(World, g, Here \cup {key}) \in Outcome
  <2>1. Here \cup {key} \in SUBSET Keys BY BuildingFacts
  <2> QED BY <1>1, <2>1, BuildingFacts, PendingType DEF Shaped
<1>3. Source(Inline(World), key, text, base, Here) = Pending(World, g, Here \cup {key})
  BY BuildingFacts, PendingSource
<1> HIDE DEF g
<1>4. Then(g.out, Pending(World, g, Here \cup {g.key})) = Pending(World, g, Here \cup {key})
  BY <1>1, <1>2, ThenProperties
<1>5. Heading(World, frames', Goal(World, document))
  BY <1>1, <1>2, <1>3, <1>4, BuildingFacts, HeadingPushed DEF frame, Here, SetFrame, g
<1>6. World' = World /\ fs' = fs /\ document' = document /\ status' = "building"
  BY DEF World, world, Building
<1>7. \A i \in 1..Len(frames') : Probed(World, frames'[i])
  <2>1. SetFrame(f) \in Seq(Frame) /\ Len(SetFrame(f)) = Len(frames)
        /\ \A i \in 1..Len(frames) : SetFrame(f)[i] = IF i = Len(frames) THEN f ELSE frames[i]
    BY BuildingFacts, ExceptSeq DEF SetFrame
  <2>2. Len(frames') = Len(frames) + 1 /\ frames'[Len(frames) + 1] = g
        /\ \A i \in 1..Len(frames) : frames'[i] = IF i = Len(frames) THEN f ELSE frames[i]
    BY <1>1, <2>1, AppendProperties DEF g
  <2>3. Probed(World, g) BY <1>1 DEF Probed
  <2> QED BY <2>2, <2>3, BuildingFacts
<1> QED BY <1>5, <1>6, <1>7 DEF InlineInv, Inlined

\* What is left depends on where an activation is, not on what it has.
LEMMA PendingSame ==
  ASSUME NEW w, NEW f, NEW g, NEW open,
         g.probe = f.probe, g.todo = f.todo, g.base = f.base, g.found = f.found
  PROVE  Pending(w, g, open) = Pending(w, f, open)
BY DEF Pending

LEMMA EmitMore ==
  ASSUME NEW f \in Frame, NEW t \in Seq(Fields), NEW p \in Outcome
  PROVE  /\ Then(Emit(f, t).out, p) = Then(f.out, Then(t, p))
         /\ Emit(f, t).base = f.base /\ Emit(f, t).found = f.found
         /\ Emit(f, t).statted = f.statted
<1>1. f.out \in Outcome /\ t \in Outcome /\ Then(f.out, t) = f.out \o t
  BY RefusedAssumption DEF Frame, Outcome, Then
<1>2. Emit(f, t).out = f.out \o t /\ Emit(f, t).base = f.base /\ Emit(f, t).found = f.found
      /\ Emit(f, t).statted = f.statted
  BY DEF Emit, Frame
<1>3. Then(f.out, Then(t, p)) = Then(Then(f.out, t), p) BY <1>1, ThenAssociative
<1> QED BY <1>1, <1>2, <1>3

LEMMA ResumedData ==
  ASSUME frame \in Frame, frame.todo # <<>>, frame.probe # 4
  PROVE  /\ Resumed \in Frame /\ Resumed.key = frame.key /\ Resumed.out = frame.out
         /\ ~Resumed.statted /\ Resumed.base = frame.base
         /\ frame.probe = 0 => Resumed = Advance(frame) /\ Resumed.probe = 0 /\ ~Resumed.found
         /\ frame.probe # 0 => /\ Resumed.probe = frame.probe + 1 /\ Resumed.found = TRUE
                               /\ Resumed.todo = frame.todo
<1>1. Resumed \in Frame /\ Resumed.key = frame.key BY ResumedStep
<1>2. CASE frame.probe = 0
  <2>1. Resumed = Advance(frame) BY <1>2 DEF Resumed
  <2>2. /\ Advance(frame).out = frame.out /\ Advance(frame).base = frame.base
        /\ ~Advance(frame).statted /\ ~Advance(frame).found /\ Advance(frame).probe = 0
    BY DEF Advance, Frame
  <2> QED BY <1>1, <1>2, <2>1, <2>2
<1>3. CASE frame.probe # 0
  <2>1. Resumed = [frame EXCEPT !.probe = @ + 1, !.statted = FALSE, !.found = TRUE]
    BY <1>3 DEF Resumed
  <2>2. /\ Resumed.out = frame.out /\ Resumed.base = frame.base /\ Resumed.todo = frame.todo
        /\ Resumed.probe = frame.probe + 1 /\ Resumed.found = TRUE /\ ~Resumed.statted
    BY <2>1 DEF Frame
  <2> QED BY <1>1, <1>3, <2>2
<1> QED BY <1>2, <1>3

\* loadIncludeFile reads a file, or skips or refuses it.
LEMMA LoadInlines ==
  ASSUME Building, frame.todo # <<>>, frame.probe # 4,
         NEW file \in Files, NEW required \in BOOLEAN, LoadFile(file, required),
         Pending(World, Resumed, Here) \in Outcome,
         Pending(World, frame, Here)
           = IF ~InStack(file) /\ fs[file] = Absent /\ ~required
             THEN Pending(World, Resumed, Here)
             ELSE Then(File(World, Inline(World), file, Here), Pending(World, Resumed, Here))
  PROVE  InlineInv'
<1> DEFINE given == File(World, Inline(World), file, Here)
           rest == Pending(World, Resumed, Here)
           base == DirOf[file[1]]
<1>1. /\ Resumed \in Frame /\ Resumed.key = frame.key /\ Resumed.out = frame.out
      /\ ~Resumed.statted /\ Resumed.base = frame.base
      /\ frame.probe = 0 => Resumed.probe = 0 /\ ~Resumed.found
      /\ frame.probe # 0 => Resumed.probe = frame.probe + 1
  BY BuildingFacts, ResumedData
<1>2. Probed(World, Resumed)
  <2>1. frame.probe + 1 # 0 BY BuildingFacts DEF Frame
  <2> QED BY <1>1, <2>1 DEF Probed
<1>3. /\ World.files[file] = fs[file] /\ file \in Keys /\ base \in Dirs
      /\ InStack(file) <=> file \in Here
  BY BuildingFacts, SourceAssumption DEF World, Keys, Files
<1>4. Absent \notin Contents BY WorldAssumption
<1>5. CASE given = Refused /\ \E kind, key, req : Fail(kind, key, req)
           /\ ~(~InStack(file) /\ fs[file] = Absent /\ ~required)
  <2>1. Pending(World, frame, Here) = Refused BY <1>5, ThenProperties
  <2> QED BY <1>5, <2>1, FailsRightly
<1>6. CASE InStack(file)
  <2>1. given = Refused BY <1>3, <1>6 DEF File, Source
  <2> QED BY <1>5, <1>6, <2>1 DEF LoadFile
<1>7. CASE ~InStack(file) /\ fs[file] = Absent /\ ~required
  <2>1. frames' = SetFrame(Resumed) /\ UNCHANGED <<world, document, status, stack, error, built>>
    BY <1>7 DEF LoadFile
  <2>2. Pending(World, frame, Here) = rest BY <1>7
  <2> QED BY <1>1, <1>2, <2>1, <2>2, GoesOn
<1>8. CASE /\ ~InStack(file) /\ ~(fs[file] = Absent /\ ~required)
           /\ fs[file] \notin Contents \ Malformed
  <2>1. given = Refused BY <1>3, <1>8 DEF File, Source
  <2>2. \E kind, key, req : Fail(kind, key, req) BY <1>8 DEF LoadFile
  <2> QED BY <1>5, <1>8, <2>1, <2>2
<1>9. CASE ~InStack(file) /\ fs[file] \in Contents \ Malformed /\ file[2] = "properties"
  <2> DEFINE t == Props[fs[file]]
             f == Emit(Resumed, t)
  <2>1. given = t BY <1>3, <1>9 DEF File
  <2>2. t \in Seq(Fields) BY <1>9, SourceAssumption
  <2>3. /\ frames' = SetFrame(f) /\ UNCHANGED <<world, document, status, stack, error, built>>
    BY <1>4, <1>9 DEF LoadFile
  <2>4. Pending(World, frame, Here) = Then(t, rest) BY <1>4, <1>9, <2>1
  <2>5. /\ f.key = Resumed.key /\ f.probe = Resumed.probe /\ f.todo = Resumed.todo
        /\ f.base = Resumed.base /\ f.found = Resumed.found /\ f.statted = Resumed.statted
        /\ Then(f.out, rest) = Then(Resumed.out, Then(t, rest))
    BY <1>1, <2>2, EmitStep, EmitMore
  <2> HIDE DEF f, t
  <2>6. Pending(World, f, Here) = rest BY <2>5, PendingSame
  <2>7. Probed(World, f) BY <1>2, <2>5 DEF Probed
  <2>8. Then(f.out, Pending(World, f, Here)) = Then(frame.out, Pending(World, frame, Here))
    BY <1>1, <2>4, <2>5, <2>6
  <2>9. f.key = frame.key BY <1>1, <2>5
  <2> QED BY <2>3, <2>7, <2>8, <2>9, GoesOn
<1>10. CASE ~InStack(file) /\ fs[file] \in Contents \ Malformed /\ file[2] # "properties"
  <2>1. given = Source(Inline(World), file, fs[file], base, Here) BY <1>3, <1>10 DEF File
  <2>2. /\ frames' = Append(SetFrame(Resumed), NewFrame(file, base, fs[file]))
        /\ UNCHANGED <<world, document, status, error, built>>
    BY <1>4, <1>10 DEF LoadFile
  <2>3. Pending(World, frame, Here)
          = Then(Source(Inline(World), file, fs[file], base, Here), Pending(World, Resumed, Here))
    BY <1>4, <1>10, <2>1
  <2>4. file \in Keys \ Here BY <1>3, <1>10
  <2> QED BY <1>1, <1>2, <1>3, <1>10, <2>2, <2>3, <2>4, Opens
<1> QED BY <1>6, <1>7, <1>8, <1>9, <1>10

\* An include that names a file with its extension.
LEMMA IncludeFileInlines == ASSUME Building, IncludeFile PROVE InlineInv'
<1>1. /\ frame.probe = 0 /\ frame.todo # <<>> /\ item.kind = "include" /\ item.ext # "none"
      /\ LoadFile(<<Target, item.ext>>, item.required)
  BY DEF IncludeFile, Scanning
<1>2. item \in Item /\ item.ext \in Extensions /\ item.required \in BOOLEAN /\ frame.base \in Dirs
  BY <1>1, BuildingFacts, ItemFields DEF Frame
<1> DEFINE file == Named(item, frame.base, item.ext)
<1>3. file = <<Target, item.ext>> BY DEF Named, Target
<1>4. file \in Files BY <1>1, <1>2, NamedType
<1> HIDE DEF file
<1>5. Resumed = Advance(frame) BY <1>1, BuildingFacts, ResumedData
<1>6. /\ Pending(World, frame, Here)
           = Then(Contribution(World, Inline(World), item, frame.base, Here),
                  Pending(World, Resumed, Here))
      /\ Pending(World, Resumed, Here) \in Outcome
  BY <1>1, <1>5, BuildingFacts, PendingItem DEF item
<1>7. Contribution(World, Inline(World), item, frame.base, Here)
        = IF file \notin Here /\ World.files[file] = Absent /\ ~item.required THEN <<>>
          ELSE File(World, Inline(World), file, Here)
  BY <1>1 DEF Contribution, Include, file
<1>8. Then(<<>>, Pending(World, Resumed, Here)) = Pending(World, Resumed, Here)
  BY <1>6, ThenProperties
<1>9. World.files[file] = fs[file] /\ (file \notin Here <=> ~InStack(file))
  BY BuildingFacts DEF World
<1> QED BY <1>1, <1>2, <1>3, <1>4, <1>6, <1>7, <1>8, <1>9, LoadInlines

\* An extension that was seen to name a file.
LEMMA LoadProbedInlines == ASSUME Building, LoadProbed PROVE InlineInv'
<1>1. /\ frame.probe \in 1..3 /\ frame.statted /\ LoadFile(Candidate, TRUE)
      /\ frame.probe # 0 /\ frame.probe # 4
      /\ frame.todo # <<>> /\ item.kind = "include"
  <2>1. frame.probe \in 1..3 /\ frame.statted /\ LoadFile(Candidate, TRUE)
    BY DEF LoadProbed, Probing
  <2>2. frame.probe # 0 /\ frame.probe # 4 BY <2>1
  <2>3. Shaped(frame) BY BuildingFacts
  <2> QED BY <2>1, <2>2, <2>3 DEF Shaped, item
<1>2. Candidate = Named(item, frame.base, Extension[frame.probe])
  BY DEF Candidate, Named, Target
<1>3. ~Missing(World, item, frame.base, frame.probe)
  BY <1>1, BuildingFacts DEF Probed, item
<1>4. /\ Resumed \in Frame /\ Resumed.probe = frame.probe + 1 /\ Resumed.todo = frame.todo
      /\ Resumed.base = frame.base /\ Resumed.found = TRUE
  BY <1>1, BuildingFacts, ResumedData
<1>5. /\ Candidate \in Files /\ Pending(World, Resumed, Here) \in Outcome
      /\ Pending(World, frame, Here)
           = Then(File(World, Inline(World), Candidate, Here), Pending(World, Resumed, Here))
  BY <1>1, <1>2, <1>3, <1>4, BuildingFacts, PendingFound DEF item
<1>6. frame.todo # <<>> /\ frame.probe # 4 /\ TRUE \in BOOLEAN BY <1>1
<1> QED BY <1>1, <1>5, <1>6, LoadInlines

\* A field is handed over as it is.
LEMMA ApplyFieldInlines == ASSUME Building, ApplyField PROVE InlineInv'
<1> DEFINE t == <<item.field>>
           e == Emit(frame, t)
<1>1. /\ frame \in Frame /\ frame.probe = 0 /\ frame.todo # <<>> /\ item.kind = "field"
      /\ t \in Seq(Fields)
      /\ frames' = SetFrame(Advance(e)) /\ UNCHANGED <<world, document, status, stack, error, built>>
  BY BuildingFacts, ItemFields DEF ApplyField, Scanning
<1>2. /\ Pending(World, frame, Here)
           = Then(Contribution(World, Inline(World), item, frame.base, Here),
                  Pending(World, Advance(frame), Here))
      /\ Pending(World, Advance(frame), Here) \in Outcome
  BY <1>1, BuildingFacts, PendingItem DEF item
<1>3. Contribution(World, Inline(World), item, frame.base, Here) = t BY <1>1 DEF Contribution
<1>4. /\ e \in Frame /\ e.key = frame.key /\ e.todo = frame.todo /\ e.base = frame.base
      /\ Then(e.out, Pending(World, Advance(frame), Here))
           = Then(frame.out, Then(t, Pending(World, Advance(frame), Here)))
  BY <1>1, <1>2, EmitStep, EmitMore
<1> HIDE DEF e, t
<1> DEFINE f == Advance(e)
<1>5. /\ f.probe = 0 /\ ~f.found /\ ~f.statted /\ f.out = e.out /\ f.key = e.key
  BY <1>4 DEF Advance, Frame
<1>6. Pending(World, f, Here) = Pending(World, Advance(frame), Here)
  BY <1>1, <1>4, PendingAdvanced
<1> HIDE DEF f
<1>7. Then(f.out, Pending(World, f, Here)) = Then(frame.out, Pending(World, frame, Here))
  BY <1>2, <1>3, <1>4, <1>5, <1>6
<1>8. Probed(World, f) BY <1>5 DEF Probed
<1>9. f.key = frame.key BY <1>4, <1>5
<1> QED BY <1>1, <1>7, <1>8, <1>9, GoesOn DEF f

\* An include without extension.
LEMMA StartProbeInlines == ASSUME Building, StartProbe PROVE InlineInv'
<1> DEFINE f == [frame EXCEPT !.probe = 1]
<1>1. /\ frame \in Frame /\ frame.probe = 0 /\ frame.todo # <<>> /\ item.kind = "include"
      /\ item.ext = "none" /\ ~frame.found /\ ~frame.statted
      /\ frames' = SetFrame(f) /\ UNCHANGED <<world, document, status, stack, error, built>>
  BY BuildingFacts DEF StartProbe, Scanning, Probed
<1>2. Pending(World, f, Here) = Pending(World, frame, Here)
  BY <1>1, BuildingFacts, PendingProbe DEF item
<1>3. f.key = frame.key /\ f.out = frame.out /\ f.probe = 1 /\ ~f.statted BY <1>1 DEF Frame
<1> HIDE DEF f
<1>4. Probed(World, f) BY <1>3 DEF Probed
<1> QED BY <1>1, <1>2, <1>3, <1>4, GoesOn

LEMMA StatInlines == ASSUME Building, Stat PROVE InlineInv'
<1>1. frame.probe \in 1..3 /\ frame.probe # 0 /\ frame \in Frame /\ Shaped(frame)
  BY BuildingFacts DEF Stat, Probing
<1>2. frame.todo # <<>> /\ item \in Item /\ item.kind = "include" /\ frame.base \in Dirs
      /\ frame.todo \in Seq(Item)
  BY <1>1, BuildingFacts DEF Shaped, item, Frame
<1>3. Candidate = Named(item, frame.base, Extension[frame.probe])
  BY DEF Candidate, Named, Target
<1>4. World.files[Candidate] = fs[Candidate] BY DEF World
<1>5. Missing(World, item, frame.base, frame.probe) <=> fs[Candidate] = Absent
  BY <1>3, <1>4 DEF Missing
<1>6. CASE fs[Candidate] = Hidden
  <2>1. Hidden # Absent /\ Hidden \notin Contents BY WorldAssumption
  <2> DEFINE g == [frame EXCEPT !.probe = @ + 1, !.found = TRUE]
  <2>2. /\ g.probe = frame.probe + 1 /\ g.todo = frame.todo /\ g.base = frame.base
        /\ g.found = TRUE
    BY <1>1 DEF Frame
  <2>3. g \in Frame
    <3> DEFINE h == [frame EXCEPT !.probe = frame.probe + 1]
    <3>1. frame.probe + 1 \in 0..4 BY <1>1
    <3>2. h \in Frame BY <1>1, <3>1, FrameAssignments
    <3>3. g = [h EXCEPT !.found = TRUE] BY <1>1 DEF Frame
    <3> HIDE DEF h
    <3> QED BY <3>2, <3>3, FrameAssignments
  <2> HIDE DEF g
  <2>4. ~Missing(World, item, frame.base, frame.probe) BY <1>5, <1>6, <2>1
  <2>5. /\ Pending(World, g, Here) \in Outcome
        /\ Pending(World, frame, Here)
             = Then(File(World, Inline(World), Candidate, Here), Pending(World, g, Here))
    BY <1>1, <1>3, <2>2, <2>3, <2>4, BuildingFacts, PendingFound DEF item
  <2>6. File(World, Inline(World), Candidate, Here) = Refused
    BY <1>4, <1>6, <2>1 DEF File, Source
  <2>7. Pending(World, frame, Here) = Refused BY <2>5, <2>6, ThenProperties
  <2> QED BY <1>6, <2>7, FailsRightly DEF Stat
<1>7. CASE fs[Candidate] = Absent
  <2> DEFINE f == [frame EXCEPT !.probe = @ + 1]
  <2>1. frames' = SetFrame(f) /\ UNCHANGED <<world, document, status, stack, error, built>>
    BY <1>7, WorldAssumption DEF Stat
  <2>2. Pending(World, f, Here) = Pending(World, frame, Here)
    BY <1>1, <1>5, <1>7, BuildingFacts, PendingMissing DEF item
  <2>3. f.key = frame.key /\ f.out = frame.out /\ f.probe = frame.probe + 1 /\ f.statted = frame.statted
    BY <1>1 DEF Frame
  <2> HIDE DEF f
  <2>4. Probed(World, f)
    <3>1. f.probe # 0 /\ ~f.statted BY <1>1, <2>3 DEF Stat
    <3> QED BY <3>1 DEF Probed
  <2> QED BY <2>1, <2>2, <2>3, <2>4, GoesOn
<1>8. CASE fs[Candidate] # Hidden /\ fs[Candidate] # Absent
  <2> DEFINE f == [frame EXCEPT !.statted = TRUE]
  <2>1. frames' = SetFrame(f) /\ UNCHANGED <<world, document, status, stack, error, built>>
    BY <1>8 DEF Stat
  <2>2. /\ f.key = frame.key /\ f.out = frame.out /\ f.probe = frame.probe /\ f.todo = frame.todo
        /\ f.base = frame.base /\ f.found = frame.found
    BY <1>1 DEF Frame
  <2> HIDE DEF f
  <2>3. Pending(World, f, Here) = Pending(World, frame, Here) BY <2>2, PendingSame
  <2>4. Probed(World, f) BY <1>1, <1>5, <1>8, <2>2 DEF Probed, item
  <2> QED BY <2>1, <2>2, <2>3, <2>4, GoesOn
<1> QED BY <1>6, <1>7, <1>8

LEMMA EndProbeInlines == ASSUME Building, EndProbe PROVE InlineInv'
<1>1. frame.probe = 4 /\ frame.probe # 0 /\ frame \in Frame /\ Shaped(frame)
  BY BuildingFacts DEF EndProbe
<1>2. frame.todo # <<>> BY <1>1 DEF Shaped
<1>3. Pending(World, frame, Here) = IF item.required /\ ~frame.found THEN Refused
                                    ELSE Pending(World, Advance(frame), Here)
  BY <1>1, BuildingFacts, PendingTried DEF item
<1>4. CASE ~frame.found /\ item.required
  BY <1>3, <1>4, FailsRightly DEF EndProbe
<1>5. CASE ~(~frame.found /\ item.required)
  <2> DEFINE f == Advance(frame)
  <2>1. frames' = SetFrame(f) /\ UNCHANGED <<world, document, status, stack, error, built>>
    BY <1>5 DEF EndProbe
  <2>2. f.key = frame.key /\ f.out = frame.out /\ f.probe = 0 /\ ~f.found /\ ~f.statted
    BY <1>1 DEF Advance, Frame
  <2> HIDE DEF f
  <2>3. Probed(World, f) BY <2>2 DEF Probed
  <2>4. Pending(World, f, Here) = Pending(World, frame, Here) BY <1>3, <1>5 DEF f
  <2> QED BY <2>1, <2>2, <2>3, <2>4, GoesOn
<1> QED BY <1>4, <1>5

\* loadPackageInclude.
LEMMA IncludePackageInlines == ASSUME Building, IncludePackage PROVE InlineInv'
<1> DEFINE pkg == item.pkg
           text == registry[pkg]
           f == Advance(frame)
           rest == Pending(World, f, Here)
           given == Source(Inline(World), pkg, text, frame.base, Here)
<1>1. /\ frame \in Frame /\ frame.probe = 0 /\ frame.todo # <<>> /\ item.kind = "package"
      /\ pkg \in Packages /\ pkg \in Keys /\ frame.base \in Dirs
  BY BuildingFacts, ItemFields DEF IncludePackage, Scanning, Keys, Frame
<1>2. text \in Contents \cup {Absent} /\ Absent \notin Contents
  BY <1>1, WorldAssumption DEF Building, IncludeInv, TypeOK
<1>3. /\ Pending(World, frame, Here) = Then(given, rest) /\ rest \in Outcome
  <2>1. World.packages[pkg] = text BY DEF World
  <2>2. Contribution(World, Inline(World), item, frame.base, Here) = given
    BY <1>1, <2>1 DEF Contribution
  <2> QED BY <1>1, <2>2, BuildingFacts, PendingItem DEF item
<1>4. /\ f \in Frame /\ f.key = frame.key /\ f.out = frame.out /\ f.probe = 0
      /\ ~f.found /\ ~f.statted
  BY <1>1, AdvanceStep DEF Advance, Frame
<1>5. Probed(World, f) BY <1>4 DEF Probed
<1>6. pkg \in Here <=> InStack(pkg) BY BuildingFacts
<1>7. CASE InStack(pkg) \/ text \notin Contents \ Malformed
  <2>1. given = Refused BY <1>6, <1>7 DEF Source
  <2>2. Pending(World, frame, Here) = Refused BY <1>3, <2>1, ThenProperties
  <2>3. \E kind, key, req : Fail(kind, key, req) BY <1>2, <1>7 DEF IncludePackage
  <2> QED BY <2>2, <2>3, FailsRightly
<1>8. CASE ~InStack(pkg) /\ text \in Contents \ Malformed
  <2>1. /\ frames' = Append(SetFrame(f), NewFrame(pkg, frame.base, text))
        /\ UNCHANGED <<world, document, status, error, built>>
    BY <1>2, <1>8 DEF IncludePackage
  <2>2. pkg \in Keys \ Here BY <1>1, <1>6, <1>8
  <2> QED BY <1>1, <1>3, <1>4, <1>5, <1>8, <2>1, <2>2, Opens
<1> QED BY <1>7, <1>8

\* The end of an included source.
LEMMA ReturnIncludeInlines == ASSUME Building, ReturnInclude PROVE InlineInv'
<1> DEFINE n == Len(frames) - 1
           e == Emit(frames[n], frame.out)
<1>1. /\ frames \in Seq(Frame) /\ n \in Nat \ {0} /\ Len(frames) = n + 1 /\ n \in 1..n
      /\ frames[n] \in Frame /\ frame = frames[n + 1] /\ frame \in Frame
      /\ frame.probe = 0 /\ frame.todo = <<>>
  BY BuildingFacts DEF ReturnInclude, Scanning, frame
<1>2. /\ Len(Pop(frames)) = n /\ \A i \in 1..n : Pop(frames)[i] = frames[i]
  <2>1. \A i \in 1..n : frames[i] \in Frame BY <1>1
  <2> QED BY <1>1, <2>1, SubSeqProperties DEF Pop
<1>3. /\ frames' = [Pop(frames) EXCEPT ![n] = e]
      /\ UNCHANGED <<world, document, status, error, built>>
  BY <1>1, <1>2 DEF ReturnInclude
<1>4. /\ e.key = frames[n].key /\ e.probe = frames[n].probe /\ e.todo = frames[n].todo
      /\ e.base = frames[n].base /\ e.found = frames[n].found /\ e.statted = frames[n].statted
  BY <1>1, EmitStep, EmitMore DEF Frame, Emit
<1> HIDE DEF e
<1>5. /\ Len(frames') = n /\ \A i \in 1..n : frames'[i] = IF i = n THEN e ELSE frames[i]
  <2>1. Pop(frames) \in Seq(Frame)
    <3>1. \A i \in 1..n : frames[i] \in Frame BY <1>1
    <3> QED BY <1>1, <3>1, SubSeqProperties DEF Pop
  <2>2. e \in Frame BY <1>1, EmitStep DEF e, Frame
  <2>3. n \in 1..Len(Pop(frames)) BY <1>1, <1>2
  <2> HIDE DEF n
  <2>4. /\ Len(frames') = Len(Pop(frames))
        /\ \A i \in 1..Len(Pop(frames)) : frames'[i] = IF i = n THEN e ELSE Pop(frames)[i]
    BY <1>3, <2>1, <2>2, <2>3, ExceptSeq
  <2> QED BY <1>2, <2>4
<1>6. Pending(World, frame, Open(frames, n + 1)) = <<>> BY <1>1, PendingNothing
<1>7. Pending(World, frames[n], Open(frames, n)) \in Outcome
  <2>1. Open(frames, n) \subseteq Open(frames, n + 1)
    <3>1. \A j \in 2..n : j \in 2..n + 1 BY <1>1
    <3> QED BY <3>1 DEF Open
  <2>2. Open(frames, n) \in SUBSET Keys BY <1>1, <2>1, BuildingFacts DEF Here
  <2>3. Shaped(frames[n])
    <3>1. n \in 1..Len(frames) BY <1>1
    <3> QED BY <3>1 DEF Shaped, Building, IncludeInv, Shape
  <2> QED BY <1>1, <2>2, <2>3, BuildingFacts, PendingType
<1>8. Pending(World, frames'[n], Open(frames, n)) = Pending(World, frames[n], Open(frames, n))
  <2>1. frames'[n] = e BY <1>1, <1>5
  <2> QED BY <1>4, <2>1, PendingSame
<1>9. Heading(World, frames', Goal(World, document))
  <2>1. n \in Nat /\ n # 0 /\ Heading(World, frames, Goal(World, document))
    BY <1>1, BuildingFacts
  <2>2. frames'[n] = Emit(frames[n], frames[n + 1].out) BY <1>1, <1>5 DEF e
  <2>3. \A i \in 1..n - 1 : frames'[i] = frames[i]
    <3>1. \A i \in 1..n - 1 : i \in 1..n /\ i # n
      <4>1. n \in Nat BY <1>1
      <4> HIDE DEF n
      <4> QED BY <4>1
    <3> QED BY <1>5, <3>1
  <2>4. Pending(World, frames[n + 1], Open(frames, n + 1)) = <<>> BY <1>1, <1>6
  <2> HIDE DEF n
  <2> QED BY <1>1, <1>5, <1>7, <1>8, <2>1, <2>2, <2>3, <2>4, HeadingPopped
<1>10. World' = World /\ fs' = fs /\ document' = document /\ status' = "building"
  BY <1>3 DEF World, world, Building
<1>11. \A i \in 1..Len(frames') : Probed(World, frames'[i])
  <2>1. \A i \in 1..n : i \in 1..Len(frames) BY <1>1
  <2>2. \A i \in 1..n : Probed(World, frames[i]) BY <2>1, BuildingFacts
  <2>3. Probed(World, e) BY <1>1, <1>4, <2>2 DEF Probed
  <2> QED BY <1>5, <2>2, <2>3
<1> QED BY <1>9, <1>10, <1>11 DEF InlineInv, Inlined

\* The end of the document.
LEMMA ReturnTopInlines == ASSUME Building, ReturnTop PROVE InlineInv'
<1>1. /\ frame \in Frame /\ frame.probe = 0 /\ frame.todo = <<>> /\ Len(frames) = 1
      /\ frame = frames[1] /\ status' = "done" /\ built' = frame.out
      /\ World' = World /\ fs' = fs /\ document' = document
  BY BuildingFacts DEF ReturnTop, Scanning, frame, World, world
<1>2. PICK v : Makes(World, frames, v) /\ v[1] = Goal(World, document)
  BY BuildingFacts DEF Heading
<1>3. v[1] = Then(frame.out, Pending(World, frame, Open(frames, 1))) BY <1>1, <1>2 DEF Makes
<1>4. Pending(World, frame, Open(frames, 1)) = <<>> BY <1>1, PendingNothing
<1>5. frame.out \in Outcome BY <1>1 DEF Frame, Outcome
<1>6. built' = Goal(World, document) BY <1>1, <1>2, <1>3, <1>4, <1>5, ThenProperties
<1> QED BY <1>1, <1>6 DEF InlineInv, Inlined

\* Before anything is read the whole document is still to come.
LEMMA StartInlines ==
  ASSUME IncludeInv, InlineInv, status = "idle", NEW text \in Contents, NEW base \in Dirs,
         ParseDocument(text, base)
  PROVE  InlineInv'
<1>1. document = NoDocument BY DEF InlineInv
<1>2. World' = World /\ fs' = fs BY DEF ParseDocument, Fail, World, world
<1>3. CASE text \in Malformed
  <2>1. status' = "failing" /\ document' = NoDocument /\ NoDocument' = NoDocument
    BY <1>1, <1>3 DEF ParseDocument, Fail, NoDocument
  <2> QED BY <2>1 DEF InlineInv, Inlined
<1>4. CASE text \notin Malformed
  <2> DEFINE f == NewFrame(TopKey, base, text)
             d == [text |-> text, base |-> base]
             s == [text |-> text, base |-> base, open |-> {}]
  <2>1. status' = "building" /\ document' = d /\ frames' = <<f>>
    BY <1>4 DEF ParseDocument
  <2>2. IsWorld(World) BY DEF IncludeInv, TypeOK, IsWorld, World
  <2>3. s \in Sources BY DEF Sources
  <2>4. Inline(World)[s] = Contributions(World, Inline(World), Body[s.text], s.base, s.open)
        /\ Inline(World)[s] \in Outcome
    <3> HIDE DEF s
    <3> QED BY <2>2, <2>3, InliningIsDefined
  <2>5. /\ f.probe = 0 /\ f.base = base /\ f.todo = Body[text] /\ f.out = <<>>
        /\ ~f.found /\ ~f.statted
    BY DEF NewFrame
  <2>6. Goal(World, d) = Inline(World)[s] BY DEF Goal
  <2>7. Pending(World, f, {}) = Goal(World, d) BY <2>4, <2>5, <2>6 DEF Pending, Rest
  <2> HIDE DEF f, d, s
  <2>8. frames'[1] = f /\ Len(frames') = 1 BY <2>1
  <2>9. Open(frames', 1) = {}
    <3>1. 2..1 = {} OBVIOUS
    <3> QED BY <3>1 DEF Open
  <2> DEFINE v == [i \in 1..1 |-> Goal(World, d)]
  <2>10. v[1] = Goal(World, d) /\ v \in [1..1 -> Outcome] BY <2>4, <2>6
  <2> HIDE DEF v
  <2>11. v[1] = Then(f.out, Pending(World, f, {}))
    BY <2>4, <2>5, <2>6, <2>7, <2>10, ThenProperties
  <2>12. 1..1 - 1 = {} OBVIOUS
  <2>13. Makes(World, frames', v) BY <2>8, <2>9, <2>10, <2>11, <2>12 DEF Makes
  <2>14. Heading(World, frames', Goal(World, d)) BY <2>10, <2>13 DEF Heading
  <2>15. Probed(World, f) BY <2>5 DEF Probed
  <2>16. \A i \in 1..Len(frames') : Probed(World, frames'[i])
    <3>1. \A i \in 1..1 : i = 1 OBVIOUS
    <3> QED BY <2>8, <2>15, <3>1
  <2> QED BY <1>2, <2>1, <2>14, <2>16 DEF InlineInv, Inlined
<1> QED BY <1>3, <1>4

\* A parse that cannot read its document has none.
LEMMA NoDocumentInlines ==
  ASSUME InlineInv, status = "idle", NEW kind, NEW key, NEW required, Fail(kind, key, required)
  PROVE  InlineInv'
<1>1. document' = NoDocument /\ NoDocument' = NoDocument /\ status' = "failing"
  BY DEF InlineInv, Fail, NoDocument
<1> QED BY <1>1 DEF InlineInv, Inlined

\* An error returns through the activations.
LEMMA ErrorInlines == ASSUME InlineInv, Unwind \/ Failed PROVE InlineInv'
<1>1. /\ World' = World /\ fs' = fs /\ document' = document /\ status = "failing"
      /\ status' \in {"failing", "failed"}
  BY DEF Unwind, Failed, World, world
<1>2. fs \notin Volatile /\ document # NoDocument => Goal(World, document) = Refused
  BY <1>1 DEF InlineInv, Inlined
<1>3. NoDocument' = NoDocument BY DEF NoDocument
<1> QED BY <1>1, <1>2, <1>3 DEF InlineInv, Inlined

LEMMA InlineInit == Init => InlineInv
<1> SUFFICES ASSUME Init PROVE InlineInv OBVIOUS
<1>1. status = "idle" /\ document = NoDocument BY DEF Init
<1> QED BY <1>1 DEF InlineInv, Inlined

LEMMA InlineNext == IncludeInv /\ InlineInv /\ [Next]_vars => InlineInv'
<1> SUFFICES ASSUME IncludeInv, InlineInv, [Next]_vars PROVE InlineInv' OBVIOUS
<1>1. CASE ParseFile
  <2>1. CASE fs[Top] \in Contents
    <3>1. DirOf[Top[1]] \in Dirs BY SourceAssumption DEF Files
    <3> QED BY <1>1, <2>1, <3>1, StartInlines DEF ParseFile
  <2>2. CASE fs[Top] \notin Contents
    BY <1>1, <2>2, NoDocumentInlines DEF ParseFile
  <2> QED BY <2>1, <2>2
<1>2. CASE \E c \in Contents : ParseString(c)
  BY <1>2, StartInlines, SourceAssumption DEF ParseString
<1>3. CASE fs \in Volatile /\ fs' \in Volatile /\ UNCHANGED <<document, status>>
  <2>1. NoDocument' = NoDocument BY DEF NoDocument
  <2> QED BY <1>3, <2>1 DEF InlineInv
<1> DEFINE Reads == \/ ApplyField \/ IncludeFile \/ StartProbe \/ Stat \/ LoadProbed
                    \/ EndProbe \/ IncludePackage \/ ReturnInclude \/ ReturnTop
<1>4. CASE Reads /\ fs \in Volatile
  <2>1. fs' = fs /\ status = "building" /\ status' # "idle"
    BY <1>4 DEF ApplyField, IncludeFile, StartProbe, Stat, LoadProbed, EndProbe, IncludePackage,
                ReturnInclude, ReturnTop, LoadFile, Fail, Scanning, Probing, world
  <2> QED BY <1>4, <2>1 DEF InlineInv
<1>5. CASE Reads /\ fs \notin Volatile
  <2>1. Building
    BY <1>5 DEF Building, ApplyField, IncludeFile, StartProbe, Stat, LoadProbed, EndProbe,
                IncludePackage, ReturnInclude, ReturnTop, Scanning, Probing
  <2> QED BY <1>5, <2>1, ApplyFieldInlines, IncludeFileInlines, StartProbeInlines, StatInlines,
             LoadProbedInlines, EndProbeInlines, IncludePackageInlines, ReturnIncludeInlines,
             ReturnTopInlines
<1>6. CASE Unwind \/ Failed BY <1>6, ErrorInlines
<1>7. CASE FileChanges BY <1>3, <1>7 DEF FileChanges
<1>8. CASE PackageChanges BY <1>3, <1>8 DEF PackageChanges
<1>9. CASE UNCHANGED vars
  <2>1. World' = World /\ NoDocument' = NoDocument /\ fs' = fs /\ document' = document
        /\ status' = status /\ frames' = frames /\ built' = built
    BY <1>9 DEF vars, World, NoDocument
  <2> QED BY <2>1 DEF InlineInv, Inlined
<1> QED BY <1>1, <1>2, <1>4, <1>5, <1>6, <1>7, <1>8, <1>9 DEF Next, Parser

(* In a world that stands still a parse returns exactly the fields of the     *)
(* inlined document, in order, and fails exactly when there is no inlining:  *)
(* a parse that ends well has read every included file once for each place   *)
(* that includes it, in the directory that place is in.                      *)
THEOREM ExpansionIsInlining == Spec => []ResultIsInlining
<1>1. Init => InlineInv BY InlineInit
<1>2. IncludeInv /\ InlineInv /\ [Next]_vars => InlineInv' BY InlineNext
<1>3. InlineInv => ResultIsInlining
  <2> SUFFICES ASSUME InlineInv, fs \notin Volatile, document # NoDocument,
                      status \in {"done", "failed"}
               PROVE  IF status = "done" THEN built = Goal(World, document)
                      ELSE Goal(World, document) = Refused
    BY DEF ResultIsInlining, Goal
  <2> QED BY DEF InlineInv, Inlined
<1>4. Spec => []InlineInv BY <1>1, <1>2, IncludeInvariant, PTL DEF Spec
<1> QED BY <1>3, <1>4, PTL
=============================================================================
