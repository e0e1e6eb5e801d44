------------------------------ MODULE Inlining ------------------------------
(***************************************************************************)
(* The reference for IncludeExpansion: a document with includes stands for *)
(* the text in which each include directive is replaced by the fields of   *)
(* the source it names.  A world is a state of the file system and of the  *)
(* registry, and what a document stands for is a function of it.           *)
(***************************************************************************)
EXTENDS IncludeExpansion, FiniteSets

CONSTANT Refused   \* stands for the text of a document that cannot be inlined

\* A disk and a registry hold finitely many sources.
ASSUME FiniteAssumption == IsFiniteSet(Keys)
ASSUME RefusedAssumption == Refused \notin Seq(Fields)

World == [files |-> fs, packages |-> registry]

\* A text, the BaseDir of its includes and the sources it is nested in.
Sources == [text : Contents, base : Dirs, open : SUBSET Keys]

Joined(parts) ==
  LET join[n \in 1..Len(parts) + 1] ==
        IF n > Len(parts) THEN <<>> ELSE parts[n] \o join[n + 1]
  IN IF \E n \in 1..Len(parts) : parts[n] = Refused THEN Refused ELSE join[1]

(* The fields of one source; inl: the inlining of the sources nested in it. *)

Source(inl, key, text, base, open) ==
  IF key \in open \/ text \notin Contents \ Malformed THEN Refused
  ELSE inl[[text |-> text, base |-> base, open |-> open \cup {key}]]

File(w, inl, f, open) ==
  IF f[2] = "properties" /\ f \notin open /\ w.files[f] \in Contents \ Malformed
  THEN Props[w.files[f]]
  ELSE Source(inl, f, w.files[f], DirOf[f[1]], open)

Named(i, base, ext) == <<Locate[<<IF i.from = "cwd" THEN Cwd ELSE base, i.path>>], ext>>
Missing(w, i, base, n) == w.files[Named(i, base, Extension[n])] = Absent

\* The file with the n-th extension, for an include that names none.
Tried(w, inl, i, base, open, n) ==
  IF Missing(w, i, base, n) THEN <<>> ELSE File(w, inl, Named(i, base, Extension[n]), open)

Include(w, inl, i, base, open) ==
  LET f == Named(i, base, i.ext)
  IN CASE i.ext # "none" ->
            IF f \notin open /\ w.files[f] = Absent /\ ~i.required THEN <<>>
            ELSE File(w, inl, f, open)
       [] OTHER ->
            IF i.required /\ \A n \in 1..3 : Missing(w, i, base, n) THEN Refused
            ELSE Joined([n \in 1..3 |-> Tried(w, inl, i, base, open, n)])

Contribution(w, inl, i, base, open) ==
  CASE i.kind = "field" -> <<i.field>>
    [] i.kind = "package" -> Source(inl, i.pkg, w.packages[i.pkg], base, open)
    [] i.kind = "include" -> Include(w, inl, i, base, open)

Contributions(w, inl, items, base, open) ==
  Joined([n \in 1..Len(items) |-> Contribution(w, inl, items[n], base, open)])

Inline(w) ==
  LET inl[s \in Sources] == Contributions(w, inl, Body[s.text], s.base, s.open) IN inl

(* In a world that stands still a parse returns the fields of the inlined
   document, in order, and fails exactly when it has no inlining: the BaseDir
   of each source, the extensions tried, diamonds and cycles included. *)
ResultIsInlining ==
  fs \notin Volatile /\ document # NoDocument /\ status \in {"done", "failed"} =>
    LET expected == Inline(World)[[text |-> document.text, base |-> document.base, open |-> {}]]
    IN IF status = "done" THEN built = expected ELSE expected = Refused
=============================================================================
