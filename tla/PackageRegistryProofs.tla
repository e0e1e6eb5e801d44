----------------------- MODULE PackageRegistryProofs ------------------------
(***************************************************************************)
(* The package registry implements the atomic map for any number of        *)
(* goroutines, packages and contents.                                      *)
(***************************************************************************)
EXTENDS PackageRegistry, TLAPS

LEMMA InvInit == Init => RegistryInv
<1> SUFFICES ASSUME Init PROVE RegistryInv OBVIOUS
<1>1. TypeOK BY DEF Init, TypeOK, Labels, Ops
<1>2. LockInv BY MemoryAssumption DEF Init, LockInv, Writing
<1>3. CallInv BY DEF Init, CallInv
<1> QED BY <1>1, <1>2, <1>3 DEF RegistryInv

\* Where a process can be and what its call can be.
LEMMA TypeNext == TypeOK /\ CallInv /\ [Next]_vars => TypeOK'
<1> SUFFICES ASSUME TypeOK, CallInv, [Next]_vars PROVE TypeOK' OBVIOUS
<1> USE DEF TypeOK, Goto, Returns
<1>1. ASSUME NEW p \in Procs, NEW c \in Ops, Begin(p, c) PROVE TypeOK'
  BY <1>1 DEF Begin, Labels
<1>2. ASSUME NEW p \in Procs, BeginInvalid(p) PROVE TypeOK'
  BY <1>2 DEF BeginInvalid
<1>3. ASSUME NEW p \in Procs, NEW c \in Contents, Overwrite(p, c) PROVE TypeOK'
  BY <1>3 DEF Overwrite
<1>4. ASSUME NEW p \in Procs, Lock(p) PROVE TypeOK' BY <1>4 DEF Lock, Labels
<1>5. ASSUME NEW p \in Procs, Drained(p) PROVE TypeOK'
  <2>1. call[p].op \in Labels BY <1>5 DEF Drained, CallInv, Ops, Labels
  <2> QED BY <1>5, <2>1 DEF Drained
<1>6. ASSUME NEW p \in Procs, Unlock(p) PROVE TypeOK' BY <1>6 DEF Unlock, Labels
<1>7. ASSUME NEW p \in Procs, RLock(p) PROVE TypeOK' BY <1>7 DEF RLock, Labels
<1>8. ASSUME NEW p \in Procs, RUnlock(p) PROVE TypeOK' BY <1>8 DEF RUnlock, Labels
<1>9. ASSUME NEW p \in Procs, Check(p) PROVE TypeOK' BY <1>9 DEF Check, Labels
<1>10. ASSUME NEW p \in Procs, Store(p) PROVE TypeOK'
  <2>1. PICK stored \in Free : /\ heap' = [heap EXCEPT ![stored] = heap[p]]
                               /\ m' = [m EXCEPT ![call[p].pkg] = stored]
    BY <1>10 DEF Store
  <2>2. stored \in Blocks BY <2>1 DEF Free
  <2>3. heap' \in [Procs \cup Blocks -> Contents] BY <2>1, <2>2
  <2>4. m' \in [Packages -> Blocks \cup {Nil}] BY <2>1, <2>2
  <2>5. /\ result' = [result EXCEPT ![p] = "ok"] /\ pc' = [pc EXCEPT ![p] = "unlock"]
        /\ UNCHANGED <<writer, readers, call, ref>>
    BY <1>10 DEF Store
  <2> QED BY <2>3, <2>4, <2>5 DEF Labels
<1>11. ASSUME NEW p \in Procs, Unregister(p) PROVE TypeOK' BY <1>11 DEF Unregister, Labels
<1>12. ASSUME NEW p \in Procs, Reset(p) PROVE TypeOK' BY <1>12 DEF Reset, Labels
<1>13. ASSUME NEW p \in Procs, Read(p) PROVE TypeOK'
  <2>1. call[p].pkg \in Packages BY <1>13 DEF Read, CallInv, Ops
  <2> QED BY <1>13, <2>1 DEF Read, Labels
<1>14. ASSUME NEW p \in Procs, Use(p) PROVE TypeOK' BY <1>14 DEF Use, Labels
<1>15. CASE UNCHANGED vars BY <1>15 DEF vars
<1> QED BY <1>1, <1>2, <1>3, <1>4, <1>5, <1>6, <1>7, <1>8, <1>9, <1>10, <1>11, <1>12,
           <1>13, <1>14, <1>15 DEF Next, Step

LEMMA LockNext == RegistryInv /\ [Next]_vars => LockInv'
<1> SUFFICES ASSUME RegistryInv, [Next]_vars PROVE LockInv' OBVIOUS
<1> USE MemoryAssumption DEF RegistryInv, TypeOK, LockInv, Writing, Goto, Returns
<1>1. ASSUME NEW p \in Procs, NEW c \in Ops, Begin(p, c) PROVE LockInv'
  BY <1>1 DEF Begin
<1>2. ASSUME NEW p \in Procs, BeginInvalid(p) PROVE LockInv'
  BY <1>2 DEF BeginInvalid
<1>3. ASSUME NEW p \in Procs, NEW c \in Contents, Overwrite(p, c) PROVE LockInv'
  BY <1>3 DEF Overwrite
<1>4. ASSUME NEW p \in Procs, Lock(p) PROVE LockInv' BY <1>4 DEF Lock
<1>5. ASSUME NEW p \in Procs, Drained(p) PROVE LockInv'
  <2>1. call[p].op \in {"register", "unregister", "reset"}
    BY <1>5 DEF Drained, CallInv, Ops
  <2> QED BY <1>5, <2>1 DEF Drained
<1>6. ASSUME NEW p \in Procs, Unlock(p) PROVE LockInv' BY <1>6 DEF Unlock
<1>7. ASSUME NEW p \in Procs, RLock(p) PROVE LockInv' BY <1>7 DEF RLock
<1>8. ASSUME NEW p \in Procs, RUnlock(p) PROVE LockInv' BY <1>8 DEF RUnlock
<1>9. ASSUME NEW p \in Procs, Check(p) PROVE LockInv' BY <1>9 DEF Check
<1>10. ASSUME NEW p \in Procs, Store(p) PROVE LockInv'
  <2>1. /\ pc[p] = "store" /\ pc' = [pc EXCEPT ![p] = "unlock"]
        /\ UNCHANGED <<writer, readers, call, ref>>
    BY <1>10 DEF Store
  <2>2. \A q \in Procs : pc'[q] # "store" BY <2>1
  <2> QED BY <2>1, <2>2
<1>11. ASSUME NEW p \in Procs, Unregister(p) PROVE LockInv' BY <1>11 DEF Unregister
<1>12. ASSUME NEW p \in Procs, Reset(p) PROVE LockInv' BY <1>12 DEF Reset
<1>13. ASSUME NEW p \in Procs, Read(p) PROVE LockInv' BY <1>13 DEF Read
<1>14. ASSUME NEW p \in Procs, Use(p) PROVE LockInv' BY <1>14 DEF Use
<1>15. CASE UNCHANGED vars BY <1>15 DEF vars
<1> QED BY <1>1, <1>2, <1>3, <1>4, <1>5, <1>6, <1>7, <1>8, <1>9, <1>10, <1>11, <1>12,
           <1>13, <1>14, <1>15 DEF Next, Step

LEMMA CallNext == TypeOK /\ CallInv /\ [Next]_vars => CallInv'
<1> SUFFICES ASSUME TypeOK, CallInv, [Next]_vars PROVE CallInv' OBVIOUS
<1> USE DEF TypeOK, CallInv, Goto, Returns
<1>1. ASSUME NEW p \in Procs, NEW c \in Ops, Begin(p, c) PROVE CallInv'
  BY <1>1 DEF Begin
<1>2. ASSUME NEW p \in Procs, BeginInvalid(p) PROVE CallInv'
  BY <1>2 DEF BeginInvalid
<1>3. ASSUME NEW p \in Procs, NEW c \in Contents, Overwrite(p, c) PROVE CallInv'
  BY <1>3 DEF Overwrite
<1>4. ASSUME NEW p \in Procs, Lock(p) PROVE CallInv' BY <1>4 DEF Lock
<1>5. ASSUME NEW p \in Procs, Drained(p) PROVE CallInv'
  <2>1. call[p].op \in {"register", "unregister", "reset"} BY <1>5 DEF Drained, Ops
  <2> QED BY <1>5, <2>1 DEF Drained
<1>6. ASSUME NEW p \in Procs, Unlock(p) PROVE CallInv' BY <1>6 DEF Unlock
<1>7. ASSUME NEW p \in Procs, RLock(p) PROVE CallInv' BY <1>7 DEF RLock
<1>8. ASSUME NEW p \in Procs, RUnlock(p) PROVE CallInv' BY <1>8 DEF RUnlock
<1>9. ASSUME NEW p \in Procs, Check(p) PROVE CallInv' BY <1>9 DEF Check
<1>10. ASSUME NEW p \in Procs, Store(p) PROVE CallInv'
  BY <1>10 DEF Store
<1>11. ASSUME NEW p \in Procs, Unregister(p) PROVE CallInv' BY <1>11 DEF Unregister
<1>12. ASSUME NEW p \in Procs, Reset(p) PROVE CallInv' BY <1>12 DEF Reset
<1>13. ASSUME NEW p \in Procs, Read(p) PROVE CallInv' BY <1>13 DEF Read
<1>14. ASSUME NEW p \in Procs, Use(p) PROVE CallInv' BY <1>14 DEF Use
<1>15. CASE UNCHANGED vars BY <1>15 DEF vars
<1> QED BY <1>1, <1>2, <1>3, <1>4, <1>5, <1>6, <1>7, <1>8, <1>9, <1>10, <1>11, <1>12,
           <1>13, <1>14, <1>15 DEF Next, Step

LEMMA InvNext == RegistryInv /\ [Next]_vars => RegistryInv'
BY TypeNext, LockNext, CallNext DEF RegistryInv

-----------------------------------------------------------------------------
(* Refinement: every step of the registry is a step of the map, or none *)

\* A call as the map sees it.
LEMMA AsCallType ==
  ASSUME NEW c \in Ops, NEW bytes \in Contents
  PROVE  /\ AsCall(c, bytes) \in Map!Call /\ AsCall(c, bytes) # NoCall
         /\ AsCall(c, bytes).op = c.op
         /\ c.op # "reset" => AsCall(c, bytes).pkg = c.pkg /\ AsCall(c, bytes).content = bytes
<1>1. CASE c.op = "reset"
  <2>1. c \in [op : {"reset"}] BY <1>1 DEF Ops
  <2> QED BY <1>1, <2>1, MemoryAssumption DEF AsCall, Map!Call
<1>2. CASE c.op # "reset"
  <2>1. c.op \in {"register", "lookup", "unregister"} /\ c.pkg \in Packages
    BY <1>2 DEF Ops
  <2> QED BY <1>2, <2>1, MemoryAssumption DEF AsCall, Map!Call
<1> QED BY <1>1, <1>2

\* The calls that have not taken effect, after a step of p.
LEMMA PendingAfter ==
  ASSUME TypeOK, NEW p \in Procs, NEW label, pc' = [pc EXCEPT ![p] = label],
         \A q \in Procs \ {p} : heap'[q] = heap[q] /\ call'[q] = call[q]
  PROVE  pendingOf' = [pendingOf EXCEPT ![p] = IF label \in Returned THEN NoCall
                                              ELSE AsCall(call'[p], heap'[p])]
<1> DEFINE g == [pendingOf EXCEPT ![p] = IF label \in Returned THEN NoCall
                                        ELSE AsCall(call'[p], heap'[p])]
<1>1. ASSUME NEW q \in Procs PROVE pendingOf'[q] = g[q]
  BY DEF pendingOf, TypeOK
<1>2. pendingOf' = [q \in Procs |-> pendingOf'[q]] BY DEF pendingOf
<1>3. g = [q \in Procs |-> g[q]] BY DEF pendingOf
<1> HIDE DEF g
<1> QED BY <1>1, <1>2, <1>3 DEF g

\* The answers to the last calls, after a step of p.
LEMMA ReplyAfter ==
  ASSUME TypeOK, NEW p \in Procs, NEW r, result' = [result EXCEPT ![p] = r],
         \A q \in Procs \ {p} : Bytes(ref[q])' = Bytes(ref[q])
  PROVE  replyOf' = [replyOf EXCEPT ![p] = [result |-> r, content |-> Bytes(ref[p])']]
<1> DEFINE g == [replyOf EXCEPT ![p] = [result |-> r, content |-> Bytes(ref[p])']]
<1>1. ASSUME NEW q \in Procs PROVE replyOf'[q] = g[q]
  BY DEF replyOf, TypeOK
<1>2. replyOf' = [q \in Procs |-> replyOf'[q]] BY DEF replyOf
<1>3. g = [q \in Procs |-> g[q]] BY DEF replyOf
<1> HIDE DEF g
<1> QED BY <1>1, <1>2, <1>3 DEF g

\* Changing a block that nothing refers to changes no content that is seen.
LEMMA SeenBytes ==
  ASSUME TypeOK
  PROVE  /\ \A k \in Packages : mapOf[k] \in Contents \cup {Missing}
         /\ \A k \in Packages : mapOf[k] = Missing <=> m[k] = Nil
         /\ \A p \in Procs : Bytes(ref[p]) \in Contents \cup {Missing}
BY MemoryAssumption DEF TypeOK, mapOf, Bytes

LEMMA StoreStep ==
  ASSUME RegistryInv, NEW p \in Procs, Store(p)
  PROVE  Map!Register(p)
<1> USE DEF RegistryInv, TypeOK
<1>1. PICK stored \in Free : /\ heap' = [heap EXCEPT ![stored] = heap[p]]
                             /\ m' = [m EXCEPT ![call[p].pkg] = stored]
  BY DEF Store
<1>2. /\ pc[p] = "store" /\ pc' = [pc EXCEPT ![p] = "unlock"]
      /\ result' = [result EXCEPT ![p] = "ok"]
      /\ UNCHANGED <<writer, readers, call, ref>>
  BY DEF Store, Goto, Returns
<1>3. /\ stored \in Blocks /\ stored \notin Procs /\ stored # Nil
      /\ \A k \in Packages : m[k] # stored
      /\ \A q \in Procs : ref[q] # stored
  BY <1>1, MemoryAssumption DEF Free
<1>4. call[p].op = "register" /\ call[p].pkg \in Packages /\ m[call[p].pkg] = Nil
  BY <1>2 DEF CallInv, LockInv, Ops
<1> DEFINE k == call[p].pkg
<1>5. mapOf' = [mapOf EXCEPT ![k] = heap[p]]
  <2> DEFINE g == [mapOf EXCEPT ![k] = heap[p]]
  <2>1. ASSUME NEW j \in Packages PROVE mapOf'[j] = g[j]
    BY <1>1, <1>3, <1>4 DEF mapOf, Bytes
  <2>2. mapOf' = [j \in Packages |-> mapOf'[j]] /\ g = [j \in Packages |-> g[j]] BY DEF mapOf
  <2> HIDE DEF g
  <2> QED BY <2>1, <2>2 DEF g
<1>6. \A q \in Procs : heap'[q] = heap[q] BY <1>1, <1>3
<1>7. \A q \in Procs : Bytes(ref[q])' = Bytes(ref[q]) BY <1>1, <1>2, <1>3 DEF Bytes
<1>8. pendingOf' = [pendingOf EXCEPT ![p] = NoCall]
  BY <1>2, <1>6, PendingAfter DEF Returned
<1>9. replyOf' = [replyOf EXCEPT ![p] = [result |-> "ok", content |-> Missing]]
  <2>1. ref[p] = Nil BY <1>2 DEF CallInv
  <2> QED BY <1>2, <1>7, <2>1, ReplyAfter DEF Bytes
<1>10. pendingOf[p] = AsCall(call[p], heap[p]) BY <1>2 DEF pendingOf, Returned
<1>11. mapOf[k] = Missing BY <1>4, SeenBytes
<1>12. /\ pendingOf[p] # NoCall /\ pendingOf[p].op = "register"
       /\ pendingOf[p].pkg = k /\ pendingOf[p].content = heap[p]
  BY <1>4, <1>10, AsCallType
<1> HIDE DEF k
<1> QED BY <1>5, <1>8, <1>9, <1>11, <1>12 DEF Map!Register, Map!Done, Map!Answer

\* A step that moves p on without touching memory, and without effect.
LEMMA SilentStep ==
  ASSUME RegistryInv, NEW p \in Procs, NEW label, pc' = [pc EXCEPT ![p] = label],
         label \in Returned <=> pc[p] \in Returned,
         UNCHANGED <<heap, m, call, ref, result>>
  PROVE  UNCHANGED Map!mapVars
<1> USE DEF RegistryInv, TypeOK
<1>1. pendingOf' = pendingOf
  <2>1. ASSUME NEW q \in Procs PROVE pendingOf'[q] = pendingOf[q] BY DEF pendingOf
  <2>2. pendingOf' = [q \in Procs |-> pendingOf'[q]] /\ pendingOf = [q \in Procs |-> pendingOf[q]]
    BY DEF pendingOf
  <2> QED BY <2>1, <2>2
<1>2. mapOf' = mapOf /\ replyOf' = replyOf BY DEF mapOf, replyOf, Bytes
<1> QED BY <1>1, <1>2 DEF Map!mapVars

\* Buffers are not what the map or a lookup refers to.
LEMMA OverwriteStep ==
  ASSUME RegistryInv, NEW p \in Procs, NEW c \in Contents, Overwrite(p, c)
  PROVE  UNCHANGED Map!mapVars
<1> USE DEF RegistryInv, TypeOK, Overwrite
<1>1. pendingOf' = pendingOf
  <2>1. ASSUME NEW q \in Procs PROVE pendingOf'[q] = pendingOf[q] BY DEF pendingOf, Returned
  <2>2. pendingOf' = [q \in Procs |-> pendingOf'[q]] /\ pendingOf = [q \in Procs |-> pendingOf[q]]
    BY DEF pendingOf
  <2> QED BY <2>1, <2>2
<1>2. \A b \in Blocks : heap'[b] = heap[b] BY MemoryAssumption
<1>3. mapOf' = mapOf BY <1>2 DEF mapOf, Bytes
<1>4. replyOf' = replyOf BY <1>2 DEF replyOf, Bytes
<1> QED BY <1>1, <1>3, <1>4 DEF Map!mapVars

LEMMA BeginStep ==
  ASSUME RegistryInv, NEW p \in Procs, NEW c \in Ops, Begin(p, c)
  PROVE  \E request \in Map!Call : Map!Request(p, request)
<1> USE DEF RegistryInv, TypeOK, Begin, Goto, Returns
<1> DEFINE request == AsCall(c, heap[p])
<1>1. request \in Map!Call BY AsCallType
<1>2. pendingOf' = [pendingOf EXCEPT ![p] = request]
  <2>1. /\ call'[p] = c /\ heap' = heap
        /\ \A q \in Procs \ {p} : heap'[q] = heap[q] /\ call'[q] = call[q]
    OBVIOUS
  <2> DEFINE label == IF c.op = "lookup" THEN "rlock" ELSE "lock"
  <2>2. pc' = [pc EXCEPT ![p] = label] /\ label \notin Returned BY DEF Returned
  <2> HIDE DEF label
  <2>3. pendingOf' = [pendingOf EXCEPT ![p] = IF label \in Returned THEN NoCall
                                             ELSE AsCall(call'[p], heap'[p])]
    BY <2>1, <2>2, PendingAfter
  <2> QED BY <2>1, <2>2, <2>3
<1>3. replyOf' = [replyOf EXCEPT ![p] = [result |-> "none", content |-> Missing]]
  <2>1. Bytes(ref[p])' = Missing /\ \A q \in Procs \ {p} : Bytes(ref[q])' = Bytes(ref[q])
    BY DEF Bytes
  <2> QED BY <2>1, ReplyAfter
<1>4. mapOf' = mapOf BY DEF mapOf, Bytes
<1>5. pendingOf[p] = NoCall BY DEF pendingOf, Returned
<1> HIDE DEF request
<1> QED BY <1>1, <1>2, <1>3, <1>4, <1>5 DEF Map!Request, Map!Answer

LEMMA BeginInvalidStep ==
  ASSUME RegistryInv, NEW p \in Procs, BeginInvalid(p)
  PROVE  Map!Refuse(p)
<1> USE DEF RegistryInv, TypeOK, BeginInvalid, Returns
<1>1. replyOf' = [replyOf EXCEPT ![p] = [result |-> "invalid", content |-> Missing]]
  <2>1. Bytes(ref[p])' = Missing /\ \A q \in Procs \ {p} : Bytes(ref[q])' = Bytes(ref[q])
    BY DEF Bytes
  <2> QED BY <2>1, ReplyAfter
<1>2. mapOf' = mapOf /\ pendingOf' = pendingOf BY DEF mapOf, pendingOf, Bytes
<1>3. pendingOf[p] = NoCall BY DEF pendingOf, Returned
<1> QED BY <1>1, <1>2, <1>3 DEF Map!Refuse, Map!Answer

LEMMA CheckStep ==
  ASSUME RegistryInv, NEW p \in Procs, Check(p), m[call[p].pkg] # Nil
  PROVE  Map!Register(p)
<1> USE DEF RegistryInv, TypeOK
<1> DEFINE k == call[p].pkg
           r == IF heap[m[k]] = heap[p] THEN "ok" ELSE "collision"
<1>1. /\ pc[p] = "register" /\ pc' = [pc EXCEPT ![p] = "unlock"]
      /\ result' = [result EXCEPT ![p] = r]
      /\ UNCHANGED <<heap, m, writer, readers, call, ref>>
  BY DEF Check, Goto, Returns
<1>2. call[p].op = "register" /\ k \in Packages /\ ref[p] = Nil BY <1>1 DEF CallInv, Ops
<1>3. mapOf' = mapOf BY <1>1 DEF mapOf, Bytes
<1>4. pendingOf' = [pendingOf EXCEPT ![p] = NoCall]
  BY <1>1, PendingAfter DEF Returned
<1> HIDE DEF r
<1>5. replyOf' = [replyOf EXCEPT ![p] = [result |-> r, content |-> Missing]]
  <2>1. Bytes(ref[p])' = Missing /\ \A q \in Procs : Bytes(ref[q])' = Bytes(ref[q])
    BY <1>1, <1>2 DEF Bytes
  <2> QED BY <1>1, <2>1, ReplyAfter
<1>6. /\ pendingOf[p] # NoCall /\ pendingOf[p].op = "register"
      /\ pendingOf[p].pkg = k /\ pendingOf[p].content = heap[p]
  BY <1>1, <1>2, AsCallType DEF pendingOf, Returned
<1>7. mapOf[k] = heap[m[k]] /\ mapOf[k] # Missing
  BY <1>2, SeenBytes DEF mapOf, Bytes
<1>8. CASE r = "ok"
  <2>1. mapOf[k] = pendingOf[p].content BY <1>6, <1>7, <1>8 DEF r
  <2> HIDE DEF k
  <2> QED BY <2>1, <1>3, <1>4, <1>5, <1>6, <1>8 DEF Map!Register, Map!Done, Map!Answer
<1>9. CASE r = "collision"
  <2>1. mapOf[k] \notin {pendingOf[p].content, Missing} BY <1>6, <1>7, <1>9 DEF r
  <2> HIDE DEF k
  <2> QED BY <2>1, <1>3, <1>4, <1>5, <1>6, <1>9 DEF Map!Register, Map!Done, Map!Answer
<1> QED BY <1>8, <1>9 DEF r

LEMMA RemoveStep ==
  ASSUME RegistryInv, NEW p \in Procs, Unregister(p) \/ Reset(p)
  PROVE  Map!Unregister(p) \/ Map!Reset(p)
<1> USE DEF RegistryInv, TypeOK
<1>1. /\ pc[p] \in {"unregister", "reset"} /\ pc' = [pc EXCEPT ![p] = "unlock"]
      /\ pc[p] = call[p].op /\ ref[p] = Nil
      /\ result' = [result EXCEPT ![p] = "ok"]
      /\ UNCHANGED <<heap, call, ref>>
  BY DEF Unregister, Reset, Goto, Returns, CallInv
<1>2. pendingOf' = [pendingOf EXCEPT ![p] = NoCall]
  BY <1>1, PendingAfter DEF Returned
<1>3. replyOf' = [replyOf EXCEPT ![p] = [result |-> "ok", content |-> Missing]]
  <2>1. Bytes(ref[p])' = Missing /\ \A q \in Procs : Bytes(ref[q])' = Bytes(ref[q])
    BY <1>1 DEF Bytes
  <2> QED BY <1>1, <2>1, ReplyAfter
<1>4. pendingOf[p] = AsCall(call[p], heap[p]) /\ pendingOf[p] # NoCall
      /\ pendingOf[p].op = call[p].op
  BY <1>1, AsCallType DEF pendingOf, Returned
<1>5. CASE Unregister(p)
  <2>1. call[p].op = "unregister" /\ call[p].pkg \in Packages /\ pendingOf[p].pkg = call[p].pkg
    BY <1>5, <1>1, <1>4, AsCallType DEF Unregister, Ops
  <2>2. m' = [m EXCEPT ![call[p].pkg] = Nil] BY <1>5 DEF Unregister
  <2> DEFINE g == [mapOf EXCEPT ![call[p].pkg] = Missing]
  <2>3. ASSUME NEW j \in Packages PROVE mapOf'[j] = g[j]
    BY <1>1, <2>1, <2>2 DEF mapOf, Bytes
  <2>4. mapOf' = [j \in Packages |-> mapOf'[j]] /\ g = [j \in Packages |-> g[j]] BY DEF mapOf
  <2> HIDE DEF g
  <2>5. mapOf' = g BY <2>3, <2>4
  <2> QED BY <2>1, <2>5, <1>2, <1>3, <1>4 DEF g, Map!Unregister, Map!Done, Map!Answer
<1>6. CASE Reset(p)
  <2>1. mapOf' = [j \in Packages |-> Missing] BY <1>6 DEF Reset, mapOf, Bytes
  <2>2. pendingOf[p].op = "reset" BY <1>6, <1>1, <1>4 DEF Reset
  <2> QED BY <2>1, <2>2, <1>2, <1>3, <1>4 DEF Map!Reset, Map!Done, Map!Answer
<1> QED BY <1>5, <1>6

LEMMA ReadStep ==
  ASSUME RegistryInv, NEW p \in Procs, Read(p)
  PROVE  Map!Lookup(p)
<1> USE DEF RegistryInv, TypeOK
<1> DEFINE k == call[p].pkg
           r == IF m[k] = Nil THEN "miss" ELSE "found"
<1>1. /\ pc[p] = "read" /\ pc' = [pc EXCEPT ![p] = "runlock"]
      /\ ref' = [ref EXCEPT ![p] = m[k]]
      /\ result' = [result EXCEPT ![p] = r]
      /\ UNCHANGED <<heap, m, call>>
  BY DEF Read, Goto, Returns
<1>2. call[p].op = "lookup" /\ k \in Packages BY <1>1 DEF CallInv, Ops
<1>3. mapOf' = mapOf BY <1>1 DEF mapOf, Bytes
<1>4. pendingOf' = [pendingOf EXCEPT ![p] = NoCall]
  BY <1>1, PendingAfter DEF Returned
<1> HIDE DEF r
<1>5. replyOf' = [replyOf EXCEPT ![p] = [result |-> r, content |-> mapOf[k]]]
  <2>1. Bytes(ref[p])' = mapOf[k] /\ \A q \in Procs \ {p} : Bytes(ref[q])' = Bytes(ref[q])
    BY <1>1, <1>2 DEF Bytes, mapOf
  <2> QED BY <1>1, <2>1, ReplyAfter
<1>6. /\ pendingOf[p] # NoCall /\ pendingOf[p].op = "lookup" /\ pendingOf[p].pkg = k
  BY <1>1, <1>2, AsCallType DEF pendingOf, Returned
<1>7. r = IF mapOf[k] = Missing THEN "miss" ELSE "found"
  BY <1>2, SeenBytes DEF r
<1> HIDE DEF k
<1> QED BY <1>3, <1>4, <1>5, <1>6, <1>7 DEF Map!Lookup, Map!Done, Map!Answer

LEMMA MapInitially == Init => Map!MapInit
<1> SUFFICES ASSUME Init PROVE Map!MapInit OBVIOUS
<1>1. mapOf = [k \in Packages |-> Missing] BY DEF Init, mapOf, Bytes
<1>2. pendingOf = [p \in Procs |-> NoCall] BY DEF Init, pendingOf, Returned
<1>3. replyOf = [p \in Procs |-> [result |-> "none", content |-> Missing]]
  BY DEF Init, replyOf, Bytes
<1> QED BY <1>1, <1>2, <1>3 DEF Map!MapInit

LEMMA MapStep == RegistryInv /\ [Next]_vars => [Map!MapNext]_(Map!mapVars)
<1> SUFFICES ASSUME RegistryInv, [Next]_vars PROVE [Map!MapNext]_(Map!mapVars) OBVIOUS
<1>1. CASE UNCHANGED vars
  BY <1>1 DEF vars, Map!mapVars, mapOf, pendingOf, replyOf, Bytes
<1>2. ASSUME NEW p \in Procs, NEW c \in Ops, Begin(p, c) PROVE Map!MapNext
  BY <1>2, BeginStep DEF Map!MapNext
<1>3. ASSUME NEW p \in Procs, BeginInvalid(p) PROVE Map!MapNext
  BY <1>3, BeginInvalidStep DEF Map!MapNext
<1>4. ASSUME NEW p \in Procs, NEW c \in Contents, Overwrite(p, c)
      PROVE  UNCHANGED Map!mapVars
  BY <1>4, OverwriteStep
<1>5. ASSUME NEW p \in Procs,
             Lock(p) \/ Drained(p) \/ Unlock(p) \/ RLock(p) \/ RUnlock(p) \/ Use(p)
      PROVE  UNCHANGED Map!mapVars
  <2>1. PICK label : /\ pc' = [pc EXCEPT ![p] = label]
                     /\ label \in Returned <=> pc[p] \in Returned
    <3>1. CASE Drained(p)
      <4>1. call[p].op \in {"register", "unregister", "reset"}
        BY <3>1 DEF Drained, RegistryInv, TypeOK, CallInv, Ops
      <4> QED BY <3>1, <4>1 DEF Drained, Goto, Returned
    <3>2. CASE Lock(p) \/ Unlock(p) \/ RLock(p) \/ Use(p)
      BY <3>2 DEF Lock, Unlock, RLock, Use, Goto, Returned
    <3>3. CASE RUnlock(p) BY <3>3 DEF RUnlock, Goto, Returned
    <3> QED BY <1>5, <3>1, <3>2, <3>3
  <2>2. UNCHANGED <<heap, m, call, ref, result>>
    BY <1>5 DEF Lock, Drained, Unlock, RLock, RUnlock, Use
  <2> QED BY <2>1, <2>2, SilentStep
<1>6. ASSUME NEW p \in Procs, Check(p) PROVE [Map!MapNext]_(Map!mapVars)
  <2>1. CASE m[call[p].pkg] = Nil
    <3>1. pc' = [pc EXCEPT ![p] = "store"] /\ "store" \notin Returned /\ pc[p] \notin Returned
          /\ UNCHANGED <<heap, m, call, ref, result>>
      BY <1>6, <2>1 DEF Check, Goto, Returned
    <3> QED BY <3>1, SilentStep
  <2>2. CASE m[call[p].pkg] # Nil
    BY <1>6, <2>2, CheckStep DEF Map!MapNext
  <2> QED BY <2>1, <2>2
<1>7. ASSUME NEW p \in Procs, Store(p) PROVE Map!MapNext
  BY <1>7, StoreStep DEF Map!MapNext
<1>8. ASSUME NEW p \in Procs, Unregister(p) \/ Reset(p) PROVE Map!MapNext
  BY <1>8, RemoveStep DEF Map!MapNext
<1>9. ASSUME NEW p \in Procs, Read(p) PROVE Map!MapNext
  BY <1>9, ReadStep DEF Map!MapNext
<1> QED BY <1>1, <1>2, <1>3, <1>4, <1>5, <1>6, <1>7, <1>8, <1>9 DEF Next, Step

-----------------------------------------------------------------------------
(* The theorems *)

THEOREM RegistryInvariant == Spec => []RegistryInv
BY InvInit, InvNext, PTL DEF Spec

(* Every variable keeps its type. *)
THEOREM TypeCorrect == Spec => []TypeOK
<1>1. RegistryInv => TypeOK BY DEF RegistryInv
<1> QED BY <1>1, RegistryInvariant, PTL

(* mu is held by one writer or by readers, and what RegisterPackage found in
   the map still holds when it stores. *)
THEOREM LockDiscipline == Spec => []LockInv
<1>1. RegistryInv => LockInv BY DEF RegistryInv
<1> QED BY <1>1, RegistryInvariant, PTL

(* The registry, with its lock, its copies and the slices it hands out,
   implements the atomic map. *)
THEOREM Refinement == Spec => ImplementsMap
<1>1. Spec => Map!MapInit /\ [][Map!MapNext]_(Map!mapVars)
  BY MapInitially, MapStep, RegistryInvariant, PTL DEF Spec
<1> QED BY <1>1 DEF ImplementsMap, Map!MapSpec

(* A registered content stays until it is removed. *)
THEOREM FirstContent == Spec => FirstContentStays
<1> DEFINE Stays == \A k \in Packages : mapOf[k] # Missing => mapOf'[k] \in {mapOf[k], Missing}
<1>1. RegistryInv /\ [Next]_vars => [Stays]_vars
  <2> SUFFICES ASSUME RegistryInv, [Next]_vars, NEW k \in Packages, mapOf[k] # Missing
               PROVE  mapOf'[k] \in {mapOf[k], Missing}
    OBVIOUS
  <2>1. [Map!MapNext]_(Map!mapVars) BY MapStep
  <2>2. CASE UNCHANGED Map!mapVars BY <2>2 DEF Map!mapVars
  <2>3. ASSUME NEW p \in Procs, Map!Register(p) PROVE mapOf'[k] = mapOf[k]
    BY <2>3 DEF Map!Register, mapOf
  <2>4. ASSUME NEW p \in Procs, Map!Unregister(p) \/ Map!Reset(p)
        PROVE  mapOf'[k] \in {mapOf[k], Missing}
    BY <2>4 DEF Map!Unregister, Map!Reset, mapOf
  <2>5. ASSUME NEW p \in Procs, NEW call_1 \in Map!Call, Map!Request(p, call_1) PROVE mapOf' = mapOf
    BY <2>5 DEF Map!Request
  <2>6. ASSUME NEW p \in Procs, Map!Refuse(p) \/ Map!Lookup(p) PROVE mapOf' = mapOf
    BY <2>6 DEF Map!Refuse, Map!Lookup
  <2> QED BY <2>1, <2>2, <2>3, <2>4, <2>5, <2>6 DEF Map!MapNext
<1> QED BY <1>1, RegistryInvariant, PTL DEF Spec, FirstContentStays
=============================================================================
