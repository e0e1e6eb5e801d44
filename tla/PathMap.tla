------------------------------ MODULE PathMap -------------------------------
(***************************************************************************)
(* adapters/internal/pathmap: the nested map built out of flat entries.    *)
(* An adapter collects entries and calls Build, which looks at all of them *)
(* before it inserts the first: a path that is also the parent of another  *)
(* path loses its value.  The nested map is kept as the set of the paths   *)
(* that hold an object and a function from the other paths to values.      *)
(***************************************************************************)
EXTENDS Naturals, Sequences

CONSTANTS NUL,      \* the character joinKey writes between two segments
          NoFault   \* no error was returned

VARIABLES pc,       \* "collect", "scan", "insert", "done" or "failed"
          at,       \* the entry a loop of Build is at
          entries,  \* what the adapter collected: path, value, source
          scopes,   \* the keys of the paths that are parents
          objects,  \* the paths at which root holds an object
          leaves,   \* path -> the value root holds there
          fault     \* the error of Build or of its caller

mapVars == <<pc, at, entries, scopes, objects, leaves, fault>>

\* The proper, nonempty prefixes of a path.
Parents(path) == {SubSeq(path, 1, n) : n \in 1 .. Len(path) - 1}

\* Segments run together (a mutant of joinKey).
joinedBare(path) ==
  LET join[n \in 0 .. Len(path)] == IF n = 0 THEN <<>> ELSE join[n - 1] \o path[n]
  IN join[Len(path)]

\* A segment is a sequence of characters, and so is a key.
joinKey(path) ==
  LET join[n \in 0 .. Len(path)] ==
        CASE n = 0 -> <<>>
          [] n = 1 -> path[1]
          [] OTHER -> join[n - 1] \o <<NUL>> \o path[n]
  IN join[Len(path)]

\* No path is held back (a mutant of IsScope).
IsScopeNever(path) == FALSE

IsScope(path) == joinKey(path) \in scopes

Fail(f) ==
  /\ pc' = "failed"
  /\ fault' = f
  /\ UNCHANGED <<at, entries, scopes, objects, leaves>>

----------------------------------------------------------------------------
(* The caller: any adapter that hands its entries over, or gives up.       *)

MapInit ==
  /\ pc = "collect"
  /\ at = 1
  /\ entries = <<>>
  /\ scopes = {}
  /\ objects = {}
  /\ leaves = [p \in {} |-> <<>>]
  /\ fault = NoFault

Collect ==
  /\ pc = "collect"
  /\ UNCHANGED <<pc, at, scopes, objects, leaves, fault>>
  /\ entries' # entries
  /\ entries' = Append(entries, entries'[Len(entries) + 1])

Call ==
  /\ pc = "collect"
  /\ pc' = "scan"
  /\ UNCHANGED <<at, entries, scopes, objects, leaves, fault>>

\* The caller's own errors name no clash: only insert reports that.
GiveUp ==
  /\ pc = "collect"
  /\ Fail(fault')
  /\ fault'.kind # "clash"

----------------------------------------------------------------------------
(* Build: the first loop validates every entry and records the scopes.     *)

WellFormed(path) == path # <<>> /\ \A i \in 1 .. Len(path) : path[i] # <<>>

Scan ==
  /\ pc = "scan" /\ at <= Len(entries)
  /\ WellFormed(entries[at].path)
  /\ scopes' = scopes \cup {joinKey(p) : p \in Parents(entries[at].path)}
  /\ at' = at + 1
  /\ UNCHANGED <<pc, entries, objects, leaves, fault>>

ScanRefuses ==
  /\ pc = "scan" /\ at <= Len(entries)
  /\ ~WellFormed(entries[at].path)
  /\ Fail([kind |-> "segment", name |-> entries[at].source])

ScanEnds ==
  /\ pc = "scan" /\ at > Len(entries)
  /\ pc' = "insert" /\ at' = 1
  /\ UNCHANGED <<entries, scopes, objects, leaves, fault>>

(* The second loop inserts the entries whose path is no scope.             *)

\* Nothing in root lies at or below a path once a value is written there.
Under(path, p) == p = path \/ path \in Parents(p)

\* The first value stays (a mutant of Write).
WriteOnce(path, value) ==
  /\ objects' = objects \cup Parents(path)
  /\ leaves' = [p \in DOMAIN leaves \cup {path} |->
                  IF p \in DOMAIN leaves THEN leaves[p] ELSE value]

Write(path, value) ==
  /\ objects' = (objects \cup Parents(path)) \ {p \in objects : Under(path, p)}
  /\ leaves' = [p \in {q \in DOMAIN leaves : ~Under(path, q)} \cup {path} |->
                  IF p = path THEN value ELSE leaves[p]]

Skip ==
  /\ pc = "insert" /\ at <= Len(entries)
  /\ IsScope(entries[at].path)
  /\ at' = at + 1
  /\ UNCHANGED <<pc, entries, scopes, objects, leaves, fault>>

Insert ==
  /\ pc = "insert" /\ at <= Len(entries)
  /\ ~IsScope(entries[at].path)
  /\ Parents(entries[at].path) \cap DOMAIN leaves = {}
  /\ Write(entries[at].path, entries[at].value)
  /\ at' = at + 1
  /\ UNCHANGED <<pc, entries, scopes, fault>>

\* insert meets a value where it needs an object.
Clash ==
  /\ pc = "insert" /\ at <= Len(entries)
  /\ ~IsScope(entries[at].path)
  /\ Parents(entries[at].path) \cap DOMAIN leaves # {}
  /\ Fail([kind |-> "clash", name |-> entries[at].source])

InsertEnds ==
  /\ pc = "insert" /\ at > Len(entries)
  /\ pc' = "done"
  /\ UNCHANGED <<at, entries, scopes, objects, leaves, fault>>

Build == Scan \/ ScanRefuses \/ ScanEnds \/ Skip \/ Insert \/ Clash \/ InsertEnds

MapNext == Collect \/ Call \/ GiveUp \/ Build
MapSpec == MapInit /\ [][MapNext]_mapVars

----------------------------------------------------------------------------

Paths == {entries[k].path : k \in 1 .. Len(entries)}
AllParents == UNION {Parents(p) : p \in Paths}

\* insert's error branch is dead: no path that must be an object ever holds a
\* value, because the scan filtered it out (the "Unreachable" of insert).
NoClash == fault = NoFault \/ fault.kind # "clash"

\* The last entry for a path wins (rule F0.7 at Build): the paths with a value
\* are those the scan did not hold back, and the value is the one of the last
\* entry with the path, whatever was inserted between.
LastWins ==
  pc = "done" =>
    /\ DOMAIN leaves = {p \in Paths : ~IsScope(p)}
    /\ \A p \in DOMAIN leaves : \E k \in 1 .. Len(entries) :
         /\ entries[k].path = p /\ entries[k].value = leaves[p]
         /\ \A j \in k + 1 .. Len(entries) : entries[j].path # p

\* Objects win (rule F2.5 at Build), in every order of the entries: the paths
\* with a value are exactly those that no other path passes through, and the
\* objects are exactly the parents.
ObjectsWin ==
  pc = "done" => /\ DOMAIN leaves = Paths \ AllParents
                 /\ objects = AllParents

\* Two paths of the input never have one key.
KeysDistinct ==
  \A p, q \in Paths \cup AllParents : joinKey(p) = joinKey(q) => p = q

\* As far as the keys tell the paths apart, the paths with a value are those
\* that are no parent of another path.
ValuesAreLeaves ==
  pc = "done" /\ KeysDistinct => DOMAIN leaves = Paths \ AllParents
=============================================================================
