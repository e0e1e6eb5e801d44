------------------------- MODULE MCIncludeExpansion -------------------------
(* Small documents, file systems and registries for IncludeExpansion. *)
EXTENDS Inlining, TLC

CONSTANT lib   \* a package

MCDirs == {"root", "sub"}
MCPaths == {"main", "a", "b", "sub/a"}
\* "main" and "a" live in the root directory, "sub/a" and "sub/b" in sub.
MCStems == {"main", "a", "b", "sub/a"}
MCDirOf == [s \in MCStems |-> IF s = "sub/a" THEN "sub" ELSE "root"]
\* The path "b" names the same file from both directories (an absolute path).
MCLocate == [dp \in MCDirs \X MCPaths |->
               IF dp[1] = "sub" /\ dp[2] = "a" THEN "sub/a" ELSE dp[2]]
MCFields == {"f1", "f2", "f3", "p1"}

field(f) == [kind |-> "field", field |-> f]
include(path, ext, required) ==
  [kind |-> "include", from |-> "base", path |-> path, ext |-> ext, required |-> required]
fileInclude(path, ext) ==
  [kind |-> "include", from |-> "cwd", path |-> path, ext |-> ext, required |-> FALSE]
package(p) == [kind |-> "package", pkg |-> p]

MCBody ==
  [c0 |-> <<field("f1")>>,
   c1 |-> <<field("f1"), include("a", "conf", FALSE), include("a", "none", FALSE),
            package(lib), field("f2")>>,
   c2 |-> <<include("sub/a", "conf", TRUE), include("b", "json", FALSE), field("f3")>>,
   c3 |-> <<field("f3"), package(lib), fileInclude("a", "none")>>,
   c4 |-> <<fileInclude("a", "conf"), field("f2"), include("a", "none", TRUE)>>,
   bad |-> <<>>]
MCContents == DOMAIN MCBody
MCProps == [c \in MCContents |-> <<"p1">>]
MCTop == <<"main", "conf">>

\* The file systems that choose one of these states for each of five files,
\* with this main.json; the others are absent.
Worlds(main, unused, props, conf, json, sub) ==
  {(<<"main", "conf">> :> w[1] @@ <<"a", "properties">> :> w[2] @@
    <<"a", "conf">> :> w[3] @@ <<"b", "json">> :> w[4] @@
    <<"sub/a", "conf">> :> w[5] @@ <<"main", "json">> :> unused)
     @@ [f \in MCStems \X Extensions |-> Absent] :
     w \in main \X props \X conf \X json \X sub}

StillFileSystems ==
  Worlds({"c1", "c2"}, Absent, {Absent, "bad", "c0"}, {Absent, "c0", "c2"},
         {Absent, Hidden, "c4"}, {Absent, Unreadable, "c3", "c4"})

\* main.json, which nothing includes, tells the file systems that change from
\* those that stand still.
VolatileFileSystems ==
  Worlds({"c1"}, "c0", {Absent, "c0"}, {Absent, "c2"}, {"c4"}, {Absent, "c3"})

MCFileSystems == StillFileSystems \cup VolatileFileSystems
MCRegistries == [{lib} -> {Absent, "c0", "c4", "bad"}]
=============================================================================
