-------------------------- MODULE PackageRegistry ---------------------------
(***************************************************************************)
(* registry.go: the process-wide registry behind `include package(...)'.   *)
(* Goroutines register, remove and look up contents concurrently.  Byte    *)
(* slices are modelled as memory blocks: a caller keeps its own buffer and *)
(* may overwrite it between two calls, a lookup hands out the block that   *)
(* the map refers to, and the parser reads that block without any lock.    *)
(***************************************************************************)
EXTENDS FiniteSets

CONSTANTS Procs,     \* goroutines; p is also the name of the buffer p owns
          Blocks,    \* memory blocks the registry allocates
          Packages, Contents,
          Missing, NoCall,
          Nil, None

ASSUME MemoryAssumption ==
  /\ Procs \cap Blocks = {}
  /\ Nil \notin Procs \cup Blocks
  /\ None \notin Procs
  /\ Missing \notin Contents
  /\ NoCall \notin [op : {"register", "lookup", "unregister"}, pkg : Packages,
                    content : Contents] \cup [op : {"reset"}]

VARIABLES
  heap,     \* block -> bytes
  m,        \* package -> block, or Nil
  writer,   \* who holds mu for writing, or is next to
  readers,  \* who holds mu for reading
  pc,       \* process -> where it is in its call
  call,     \* process -> its call
  ref,      \* process -> the block its last lookup returned, or Nil
  result    \* process -> what its last call returned

vars == <<heap, m, writer, readers, pc, call, ref, result>>

Goto(p, label) == pc' = [pc EXCEPT ![p] = label]
Returns(p, r) == result' = [result EXCEPT ![p] = r]

-----------------------------------------------------------------------------
(* Callers *)

Ops == [op : {"register", "lookup", "unregister"}, pkg : Packages]
       \cup [op : {"reset"}]

Begin(p, c) ==
  /\ pc[p] = "idle"
  /\ call' = [call EXCEPT ![p] = c]
  /\ ref' = [ref EXCEPT ![p] = Nil]
  /\ Returns(p, "none")
  /\ Goto(p, IF c.op = "lookup" THEN "rlock" ELSE "lock")
  /\ UNCHANGED <<heap, m, writer, readers>>

\* RegisterPackage validates its arguments before it takes the lock.
BeginInvalid(p) ==
  /\ pc[p] = "idle"
  /\ ref' = [ref EXCEPT ![p] = Nil]
  /\ Returns(p, "invalid")
  /\ UNCHANGED <<heap, m, writer, readers, pc, call>>

\* Between two calls a caller reuses the buffer it registered from.
Overwrite(p, c) ==
  /\ pc[p] = "idle"
  /\ heap' = [heap EXCEPT ![p] = c]
  /\ UNCHANGED <<m, writer, readers, pc, call, ref, result>>

-----------------------------------------------------------------------------
(* sync.RWMutex: a writer that waits keeps new readers out *)

\* Mutant: RegisterPackage decides and stores under a lock that is shared.
LockShared(p) ==
  /\ pc[p] = "lock"
  /\ writer' = p
  /\ Goto(p, "drain")
  /\ UNCHANGED <<heap, m, readers, call, ref, result>>

Lock(p) ==
  /\ pc[p] = "lock" /\ writer = None
  /\ writer' = p
  /\ Goto(p, "drain")
  /\ UNCHANGED <<heap, m, readers, call, ref, result>>

Drained(p) ==
  /\ pc[p] = "drain" /\ readers = {}
  /\ Goto(p, call[p].op)
  /\ UNCHANGED <<heap, m, writer, readers, call, ref, result>>

Unlock(p) ==
  /\ pc[p] = "unlock"
  /\ writer' = None
  /\ Goto(p, "idle")
  /\ UNCHANGED <<heap, m, readers, call, ref, result>>

RLock(p) ==
  /\ pc[p] = "rlock" /\ writer = None
  /\ readers' = readers \cup {p}
  /\ Goto(p, "read")
  /\ UNCHANGED <<heap, m, writer, call, ref, result>>

RUnlock(p) ==
  /\ pc[p] = "runlock"
  /\ readers' = readers \ {p}
  /\ Goto(p, IF ref[p] = Nil THEN "idle" ELSE "use")
  /\ UNCHANGED <<heap, m, writer, call, ref, result>>

-----------------------------------------------------------------------------
(* The operations, under the lock *)

\* Mutant: the early return forgets to unlock.
CheckNoUnlock(p) ==
  /\ pc[p] = "register"
  /\ LET existing == m[call[p].pkg] IN
     IF existing = Nil
     THEN Goto(p, "store") /\ UNCHANGED result
     ELSE /\ Returns(p, IF heap[existing] = heap[p] THEN "ok" ELSE "collision")
          /\ Goto(p, "idle")
  /\ UNCHANGED <<heap, m, writer, readers, call, ref>>

\* RegisterPackage: an existing entry is kept, equal or not.
Check(p) ==
  /\ pc[p] = "register"
  /\ LET existing == m[call[p].pkg] IN
     IF existing = Nil
     THEN Goto(p, "store") /\ UNCHANGED result
     ELSE /\ Returns(p, IF heap[existing] = heap[p] THEN "ok" ELSE "collision")
          /\ Goto(p, "unlock")
  /\ UNCHANGED <<heap, m, writer, readers, call, ref>>

\* What is neither in the map nor in the hands of a lookup can be allocated.
Free == Blocks \ ({m[k] : k \in Packages} \cup {ref[p] : p \in Procs})

\* Mutant: the caller's slice itself is stored.
StoreAlias(p) ==
  /\ pc[p] = "store"
  /\ m' = [m EXCEPT ![call[p].pkg] = p]
  /\ Returns(p, "ok")
  /\ Goto(p, "unlock")
  /\ UNCHANGED <<heap, writer, readers, call, ref>>

\* The content is copied "to avoid aliasing with caller's slice".
Store(p) ==
  /\ pc[p] = "store" /\ Free # {}
  /\ LET stored == CHOOSE b \in Free : TRUE IN
     /\ heap' = [heap EXCEPT ![stored] = heap[p]]
     /\ m' = [m EXCEPT ![call[p].pkg] = stored]
  /\ Returns(p, "ok")
  /\ Goto(p, "unlock")
  /\ UNCHANGED <<writer, readers, call, ref>>

Unregister(p) ==
  /\ pc[p] = "unregister"
  /\ m' = [m EXCEPT ![call[p].pkg] = Nil]
  /\ Returns(p, "ok")
  /\ Goto(p, "unlock")
  /\ UNCHANGED <<heap, writer, readers, call, ref>>

Reset(p) ==
  /\ pc[p] = "reset"
  /\ m' = [k \in Packages |-> Nil]
  /\ Returns(p, "ok")
  /\ Goto(p, "unlock")
  /\ UNCHANGED <<heap, writer, readers, call, ref>>

\* lookup returns the slice that is in the map, not a copy of it.
Read(p) ==
  /\ pc[p] = "read"
  /\ ref' = [ref EXCEPT ![p] = m[call[p].pkg]]
  /\ Returns(p, IF m[call[p].pkg] = Nil THEN "miss" ELSE "found")
  /\ Goto(p, "runlock")
  /\ UNCHANGED <<heap, m, writer, readers, call>>

\* The include is parsed from that slice after RUnlock.
Use(p) ==
  /\ pc[p] = "use"
  /\ Goto(p, "idle")
  /\ UNCHANGED <<heap, m, writer, readers, call, ref, result>>

-----------------------------------------------------------------------------
Init ==
  /\ heap \in [Procs \cup Blocks -> Contents]
  /\ \A b1, b2 \in Blocks : heap[b1] = heap[b2]
  /\ m = [k \in Packages |-> Nil]
  /\ writer = None
  /\ readers = {}
  /\ pc = [p \in Procs |-> "idle"]
  /\ call = [p \in Procs |-> [op |-> "reset"]]
  /\ ref = [p \in Procs |-> Nil]
  /\ result = [p \in Procs |-> "none"]

\* The steps of a call, once it began.
Step(p) ==
  \/ Lock(p) \/ Drained(p) \/ Unlock(p) \/ RLock(p) \/ RUnlock(p)
  \/ Check(p) \/ Store(p) \/ Unregister(p) \/ Reset(p) \/ Read(p) \/ Use(p)

Next ==
  \E p \in Procs :
    \/ \E c \in Ops : Begin(p, c)
    \/ BeginInvalid(p)
    \/ \E c \in Contents : Overwrite(p, c)
    \/ Step(p)

Spec == Init /\ [][Next]_vars

\* A goroutine that can run does; a waiting Lock or RLock is served in the
\* end (a sync.Mutex that starves a waiter hands itself over to it, and
\* Unlock lets the waiting readers in).
Fairness == \A p \in Procs : WF_vars(Step(p)) /\ SF_vars(Lock(p)) /\ SF_vars(RLock(p))
FairSpec == Spec /\ Fairness

-----------------------------------------------------------------------------
Labels == {"idle", "lock", "drain", "register", "store", "unregister", "reset",
           "unlock", "rlock", "read", "runlock", "use"}
Writing == {"drain", "register", "store", "unregister", "reset", "unlock"}

TypeOK ==
  /\ heap \in [Procs \cup Blocks -> Contents]
  /\ m \in [Packages -> Blocks \cup {Nil}]
  /\ writer \in Procs \cup {None}
  /\ readers \subseteq Procs
  /\ pc \in [Procs -> Labels]
  /\ call \in [Procs -> Ops]
  /\ ref \in [Procs -> Blocks \cup {Nil}]
  /\ result \in [Procs -> {"none", "ok", "collision", "invalid", "found", "miss"}]

(* One writer, or readers, and the map as the writer left it when it looked. *)
LockInv ==
  /\ \A p \in Procs : pc[p] \in Writing <=> writer = p
  /\ \A p \in Procs : p \in readers <=> pc[p] \in {"read", "runlock"}
  /\ \A p \in Procs : pc[p] \in Writing \ {"drain"} => readers = {}
  /\ \A p \in Procs : pc[p] = "store" => m[call[p].pkg] = Nil

\* Each process is where its call takes it.
CallInv ==
  \A p \in Procs :
    /\ pc[p] \notin {"idle", "runlock", "use"} => ref[p] = Nil
    /\ pc[p] \in {"register", "store"} => call[p].op = "register"
    /\ pc[p] \in {"unregister", "reset"} => pc[p] = call[p].op
    /\ pc[p] \in {"rlock", "read"} => call[p].op = "lookup"
    /\ pc[p] \in {"lock", "drain"} => call[p].op # "lookup"

RegistryInv == TypeOK /\ LockInv /\ CallInv

(* The registry behaves like PackageMap: each call takes effect at one
   instant, a content never changes in place, neither in the map nor in what
   a lookup returned, whoever overwrites or removes what meanwhile. *)
Bytes(block) == IF block = Nil THEN Missing ELSE heap[block]

mapOf == [k \in Packages |-> Bytes(m[k])]

\* A call is pending until its effect; a buffer is read at that moment.
Returned == {"idle", "unlock", "runlock", "use"}
AsCall(c, bytes) == IF c.op = "reset" THEN c
                    ELSE [op |-> c.op, pkg |-> c.pkg, content |-> bytes]
pendingOf == [p \in Procs |-> IF pc[p] \in Returned THEN NoCall
                              ELSE AsCall(call[p], heap[p])]
replyOf == [p \in Procs |-> [result |-> result[p], content |-> Bytes(ref[p])]]

Map == INSTANCE PackageMap WITH map <- mapOf, pending <- pendingOf, reply <- replyOf
ImplementsMap == Map!MapSpec

(* A registered content is replaced by nothing but its removal: two packages
   that claim one key never silently overwrite each other. *)
FirstContentStays ==
  [][\A k \in Packages : mapOf[k] # Missing => mapOf'[k] \in {mapOf[k], Missing}]_vars

(* Every call returns, however the other goroutines use the registry. *)
CallsReturn == \A p \in Procs : pc[p] # "idle" ~> pc[p] = "idle"
=============================================================================
