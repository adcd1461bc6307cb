--------------------------- MODULE MCModuleLoader ---------------------------
(* Instances: the texts of MCSourceProgram, and programs of several modules:  *)
(* the source app/main.gloin beside files, links, directories and a package,  *)
(* with two imports in every spelling, and with every choice of imports in    *)
(* its modules, so that some import each other, themselves, or a file both    *)
(* alone and in its directory.                                                *)
EXTENDS ModuleLoader, MCSourceProgram

Main == <<"app", "main.gloin">>
Lib == <<"lib">>

NoDisk == [files |-> <<>>, links |-> <<>>, dirs |-> {<<"app">>, <<"lib">>}]
Importing(list) == Chars(FoldLeft(LAMBDA a, s : a \o "import \"" \o s \o "\"; ", "", list))
App(name) == <<"app", name \o ".gloin">>

\* The file system in which a, b, d/p and d/q import what is given.
Disk(a, b, p, q) ==
    [files |-> (App("a") :> a) @@ (App("b") :> b) @@ (App("broken") :> Broken) @@ (App("d") :> <<"./broken">>)
               @@ (<<"app", "d", "p.gloin">> :> p) @@ (<<"app", "d", "q.gloin">> :> q)
               @@ (<<"app", "packages", "k", "x.gloin">> :> <<"@s">>) @@ (<<"lib", "s.gloin">> :> <<>>),
     links |-> (App("l") :> App("a")) @@ (<<"lib", "t.gloin">> :> <<"lib", "s.gloin">>)
               @@ (<<"app", "g", "p.gloin">> :> <<"app", "d", "p.gloin">>)
               @@ (<<"app", "h", "x.gloin">> :> App("b")) @@ (<<"app", "h", "y.gloin">> :> App("b"))
               @@ (<<"app", "o", "m.gloin">> :> Main),
     dirs |-> {<<"app", "e">>, <<"app", "r", "dir.gloin">>}]

Spellings == {"./a", "./a.gloin", "./l", "./b", "./d", "./d.gloin", "./d/p", "./g", "./h", "./e", "./o", "./r", "./broken",
              "./missing", "./if", "./d/", "./a.txt", "../lib/s", "../app/b", "@s", "@t", "@S", "#k", "#", "x", "./main"}
Roots == {<<"./a">>, <<"./b", "./a">>, <<"./d", "./a">>, <<"@s", "./d/p", "./b">>}
Graphs ==
    {Disk(a, b, p, q) :
        a \in {<<>>, <<"./b">>, <<"./d">>, <<"./d/p">>, <<"./g", "./b">>, <<"./main">>},
        b \in {<<>>, <<"./a">>, <<"./d">>, <<"@s", "#k">>, <<"./h">>},
        p \in {<<>>, <<"@s">>, <<"../b">>, <<"./q">>, <<"../../lib/s">>},
        q \in {<<>>, <<"@s">>, <<"../d">>, <<"../b", "../a">>}}

Everything ==
    {[text |-> i.text, mode |-> i.mode, disks |-> {NoDisk}] : i \in AllInputs} \cup
    {[text |-> Importing(l), mode |-> "core", disks |-> {Disk(<<>>, <<"@s">>, <<>>, <<"../b">>)}] :
        l \in Upto(Spellings, 2)} \cup
    {[text |-> Importing(r), mode |-> "core", disks |-> Graphs] : r \in Roots}
=============================================================================
