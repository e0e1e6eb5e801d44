----------------------------- MODULE PackageMap -----------------------------
(***************************************************************************)
(* What the package registry promises its callers: a map from packages to  *)
(* contents in which every call takes effect at one instant between its    *)
(* start and its return, and in which the first content registered for a   *)
(* package stays until it is removed.                                      *)
(***************************************************************************)
CONSTANTS Procs,     \* goroutines
          Packages,  \* (identifier, file) pairs
          Contents,  \* byte strings
          Missing, NoCall

Call == [op : {"register", "lookup", "unregister"}, pkg : Packages, content : Contents]
        \cup [op : {"reset"}]
Reply == [result : {"none", "ok", "collision", "invalid", "found", "miss"},
          content : Contents \cup {Missing}]

VARIABLES map,      \* package -> content, or Missing
          pending,  \* process -> its call, until the call takes effect
          reply     \* process -> the answer to its last call

mapVars == <<map, pending, reply>>

Answer(p, result, content) ==
  reply' = [reply EXCEPT ![p] = [result |-> result, content |-> content]]

MapInit ==
  /\ map = [k \in Packages |-> Missing]
  /\ pending = [p \in Procs |-> NoCall]
  /\ reply = [p \in Procs |-> [result |-> "none", content |-> Missing]]

Request(p, call) ==
  /\ pending[p] = NoCall
  /\ pending' = [pending EXCEPT ![p] = call]
  /\ Answer(p, "none", Missing)
  /\ UNCHANGED map

\* A call with an invalid identifier or file is refused at once.
Refuse(p) ==
  /\ pending[p] = NoCall
  /\ Answer(p, "invalid", Missing)
  /\ UNCHANGED <<map, pending>>

Done(p) == pending' = [pending EXCEPT ![p] = NoCall]

Register(p) ==
  /\ pending[p] # NoCall /\ pending[p].op = "register"
  /\ Done(p)
  /\ LET k == pending[p].pkg
         c == pending[p].content
     IN \/ map[k] = Missing /\ map' = [map EXCEPT ![k] = c] /\ Answer(p, "ok", Missing)
        \/ map[k] = c /\ UNCHANGED map /\ Answer(p, "ok", Missing)
        \/ map[k] \notin {c, Missing} /\ UNCHANGED map /\ Answer(p, "collision", Missing)

Lookup(p) ==
  /\ pending[p] # NoCall /\ pending[p].op = "lookup"
  /\ Done(p)
  /\ UNCHANGED map
  /\ LET c == map[pending[p].pkg]
     IN Answer(p, IF c = Missing THEN "miss" ELSE "found", c)

Unregister(p) ==
  /\ pending[p] # NoCall /\ pending[p].op = "unregister"
  /\ Done(p)
  /\ map' = [map EXCEPT ![pending[p].pkg] = Missing]
  /\ Answer(p, "ok", Missing)

Reset(p) ==
  /\ pending[p] # NoCall /\ pending[p].op = "reset"
  /\ Done(p)
  /\ map' = [k \in Packages |-> Missing]
  /\ Answer(p, "ok", Missing)

MapNext ==
  \E p \in Procs :
    \/ \E call \in Call : Request(p, call)
    \/ Refuse(p)
    \/ Register(p) \/ Lookup(p) \/ Unregister(p) \/ Reset(p)

MapSpec == MapInit /\ [][MapNext]_mapVars
=============================================================================
