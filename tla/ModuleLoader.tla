---------------------------- MODULE ModuleLoader ----------------------------
(***************************************************************************)
(* The modules of a program (src/src/module_loader.cpp): the imports of a  *)
(* parsed source are resolved against the file system, every file they     *)
(* name is read, parsed and searched for imports in turn, and a directory  *)
(* is the module of all its files.  Then the order is fixed in which the   *)
(* modules are checked (src/src/sema_modules.cpp).                         *)
(*                                                                         *)
(* A path is the sequence of its names.  `stack` holds the calls of visit  *)
(* and load_directory that have not returned: the keys of its frames are   *)
(* the loader's `active` list.                                             *)
(***************************************************************************)
EXTENDS SourceProgram

CONSTANTS
    Root,          \* the path of the source itself
    Library,       \* the standard library's directory
    Depth          \* how many sources may be active (128 in the code)

VARIABLES
    disk,          \* the file system: its files (what they import, Broken if they are no
                   \* programs), its links and its directories
    stack,         \* the calls that are active, the innermost last
    modules,       \* the cache: the modules loaded so far, by their key
    owners,        \* file_owners: the module each file is part of
    order          \* the modules in the order in which they are checked

loader == <<disk, stack, modules, owners, order>>

-----------------------------------------------------------------------------
(* Paths. *)

Parent(path) == Front(path)
Directories == disk.dirs \cup UNION {{SubSeq(f, 1, n) : n \in 0..Len(f) - 1} :
                                     f \in DOMAIN disk.files \cup DOMAIN disk.links}

Nowhere == <<"", "nowhere">>

\* fs::canonical: every name on the way must be in a directory; a link is followed.
Canonical(path) ==
    LET step(at, name) ==
            IF at \notin Directories THEN Nowhere
            ELSE IF name = "." THEN at
            ELSE IF name = ".." THEN (IF at = <<>> THEN at ELSE Parent(at))
            ELSE Append(at, name)
        there == FoldLeft(step, <<>>, path)
        target == IF there \in DOMAIN disk.links THEN disk.links[there] ELSE there
    IN  IF target \in DOMAIN disk.files \cup Directories THEN target ELSE Nowhere

\* The names of a path written with slashes.
Names(string) ==
    LET cut(names, c) == IF c = "/" THEN Append(names, "") ELSE [names EXCEPT ![Len(names)] = @ \o c]
    IN  SelectSeq(FoldLeft(cut, <<"">>, Chars(string)), LAMBDA name : name # "")

\* fs::path::extension and stem: from the last dot on, unless the name starts with it.
Dot(name) == LET dots == {i \in 2..Len(name) : SubSeq(name, i, i) = "." /\ name # ".."}
             IN  IF dots = {} THEN Len(name) + 1 ELSE Max(dots)
Extension(name) == SubSeq(name, Dot(name), Len(name))
Stem(name) == SubSeq(name, 1, Dot(name) - 1)

Alphabet == Chars("abcdefghijklmnopqrstuvwxyz")
Lower == ToSet(Alphabet)

\* The name of a standard module or a package behind its mark.
Unit(string) ==
    /\ Len(string) >= 2 /\ Chars(string)[2] \in Lower
    /\ \A i \in 3..Len(string) : Chars(string)[i] \in Lower \cup Digit \cup {"_"}

Starts(string, with) == Len(string) >= Len(with) /\ SubSeq(string, 1, Len(with)) = with
UnitName(string) == SubSeq(string, 2, Len(string))

\* What an import names: its alias, the path it stands for, whether that must be a
\* directory, and the standard name it gives.
Target(alias, path, directory, standard) ==
    [alias |-> alias, path |-> path, directory |-> directory, standard |-> standard]
Unresolved == Target("", <<>>, FALSE, "")

Local(string, parent) ==
    LET names == parent \o Names(string)
        name == Last(Names(string))
        file == Target(Stem(name), names, FALSE, "")
        bare == Canonical(names) \in Directories
    IN  IF SubSeq(string, Len(string), Len(string)) = "/" THEN Unresolved
        ELSE IF Extension(name) # "" THEN IF Extension(name) = ".gloin" THEN file ELSE Unresolved
        ELSE IF bare THEN Target(name, names, TRUE, "")
        ELSE Target(name, Append(Front(names), name \o ".gloin"), FALSE, "")

Pointed(string, parent) ==
    IF Nul \in ToSet(Chars(string)) THEN Unresolved
    ELSE IF Starts(string, "@")
         THEN IF Unit(string)
              THEN Target(UnitName(string), Append(Library, UnitName(string) \o ".gloin"), FALSE, UnitName(string))
              ELSE Unresolved
    ELSE IF Starts(string, "#")
         THEN IF Unit(string)
              THEN Target(UnitName(string), Parent(Root) \o <<"packages", UnitName(string)>>, TRUE, "")
              ELSE Unresolved
    ELSE IF Starts(string, "./") \/ Starts(string, "../") THEN Local(string, parent)
    ELSE Unresolved

\* The alias must be a name of the language.
Alias(name) == \E list \in {Tokens(Chars(name))} : Len(list) = 2 /\ list[1].type = "IDENTIFIER"

resolve(string, parent) ==
    LET named(target) == IF Alias(target.alias) THEN target ELSE Unresolved
    IN  named(Pointed(string, parent))

\* The key of what is there: a file, or a directory where one is named.
Key(target) ==
    LET key == Canonical(target.path)
    IN  IF target # Unresolved /\ key \in (IF target.directory THEN Directories ELSE DOMAIN disk.files)
        THEN key ELSE Nowhere

-----------------------------------------------------------------------------
(* Loading. *)

\* A text that is no program.
Broken == <<"no program">>

Strings(program) ==
    LET imports == SelectSeq(program.parts, LAMBDA s : s.kind = "ImportStatement")
    IN  [i \in 1..Len(imports) |-> imports[i].text]

\* What the imports of a source name: resolve, of all of them.
Targets(strings, source) == [i \in 1..Len(strings) |-> resolve(strings[i], Parent(source))]

\* A call of visit over a source's imports, or of load_directory over its files: what
\* is left to do, and the imports already there; `via` is the import it loads for.
Frame(kind, key, todo, via) == [kind |-> kind, key |-> key, todo |-> todo, imports |-> <<>>, via |-> via]

Top == stack[Len(stack)]
active == {stack[i].key : i \in 1..Len(stack)}
Aliases(imports) == {i.alias : i \in ToSet(imports)}
Keys(imports) == {i.key : i \in ToSet(imports)}
Import(target, key) == [alias |-> target.alias, key |-> key]

\* What visit requires of an import before it looks for the module.
Allowed(target, key) ==
    /\ target # Unresolved /\ target.alias \notin Aliases(Top.imports)
    /\ key \notin {Nowhere} \cup Keys(Top.imports) \cup active

Module(name, sources) ==
    [name |-> name, prefix |-> <<"local", Cardinality(DOMAIN modules), name>>, standard |-> "",
     sources |-> sources, imports |-> <<>>]

\* Back in visit with a module: a standard import gives it its name.
Standing(m, target) == target.standard = "" \/ m.standard \in {"", target.standard}
Identified(m, target) ==
    IF target.standard = "" THEN m ELSE [m EXCEPT !.standard = target.standard, !.prefix = <<target.standard>>]
Arrived(frames, target, key) ==
    [frames EXCEPT ![Len(frames)].todo = Tail(@), ![Len(frames)].imports = Append(@, Import(target, key))]

\* std::lexicographical_compare over bytes.
Before(a, b) ==
    LET bytes == Chars(".0123456789_") \o Alphabet
        rank(name) == [i \in 1..Len(name) |-> CHOOSE n \in 1..Len(bytes) : bytes[n] = SubSeq(name, i, i)]
        differ == {i \in 1..Min({Len(a), Len(b)}) : SubSeq(a, i, i) # SubSeq(b, i, i)}
    IN  IF differ = {} THEN Len(a) < Len(b) ELSE rank(a)[Min(differ)] < rank(b)[Min(differ)]

\* The entries of a directory in the order of their names, and the files they are.
Entries(key) ==
    LET all == DOMAIN disk.files \cup DOMAIN disk.links \cup Directories
        names == {e[Len(e)] : e \in {f \in all : f # <<>> /\ Parent(f) = key /\ Extension(f[Len(f)]) = ".gloin"}}
        sorted == SetToSortSeq(names, Before)
    IN  [i \in 1..Len(sorted) |-> Canonical(Append(key, sorted[i]))]

\* A directory's files are files, each once, in use nowhere else.
Fits(key, files) ==
    /\ files # <<>> /\ IsInjective(files)
    /\ \A f \in ToSet(files) : /\ f \in DOMAIN disk.files
                               /\ f \notin active
                               /\ f \in DOMAIN owners => owners[f] = key

\* A module not seen before needs a place among the active, and a file one owner.
Room == Len(stack) < Depth
Alone_Anywhere(key) == TRUE

Alone(key) == key \in DOMAIN owners => owners[key] = key

\* The imports of a directory are those of its files, each once.
Merged(all, imports) ==
    LET add(m, i) ==
            IF i \in ToSet(m.imports) THEN m
            ELSE [ok |-> m.ok /\ i.alias \notin Aliases(m.imports) /\ i.key \notin Keys(m.imports),
                  imports |-> Append(m.imports, i)]
    IN  FoldLeft(add, [ok |-> TRUE, imports |-> all], imports)

Step(what) == what /\ UNCHANGED <<text, mode, tokens, tree, disk>>
Refused == phase' = "refused" /\ UNCHANGED <<stack, modules, owners, order>>

\* load: the source is a file as the others are.
Load ==
    /\ phase = "parsed" /\ mode = "core"
    /\ disk' = [disk EXCEPT !.files = (Root :> Strings(tree)) @@ @]
    /\ phase' = "loading"
    /\ stack' = <<Frame("source", Root, Targets(Strings(tree), Root), Unresolved)>>
    /\ UNCHANGED <<text, mode, tokens, tree, modules, owners, order>>

\* A module of the cache.
Reuse(target, key) ==
    /\ key \in DOMAIN modules
    /\ IF Standing(modules[key], target)
       THEN /\ stack' = Arrived(stack, target, key)
            /\ modules' = [modules EXCEPT ![key] = Identified(@, target)]
            /\ UNCHANGED <<phase, owners, order>>
       ELSE Refused

\* The file read next, if it may be: the one an import names that no module has, or
\* the next of a directory.
Entering ==
    IF Top.kind = "directory"
    THEN [kind : {"member"}, key : {Head(Top.todo)}, via : {Unresolved}]
    ELSE LET target == Head(Top.todo)
         IN  [kind : {"file"}, via : {target},
              key : {k \in {Key(target)} : Allowed(target, k) /\ k \notin DOMAIN modules /\ ~target.directory}]

\* load_file, and the same of a directory's member, as far as its own imports.
LoadFile ==
    /\ phase = "loading" /\ Top.todo # <<>>
    /\ \E e \in Entering : \E program \in {disk.files[e.key]} :
           IF ~Room \/ (e.kind = "file" /\ ~Alone(e.key)) \/ program = Broken THEN Refused
           ELSE /\ stack' = Append(stack, Frame(e.kind, e.key, Targets(program, e.key), e.via))
                /\ modules' = IF e.kind = "file"
                              THEN modules @@ (e.key :> Module(e.via.alias, {e.key})) ELSE modules
                /\ owners' = IF e.kind = "file" THEN (e.key :> e.key) @@ owners ELSE owners
                /\ UNCHANGED <<phase, order>>

\* load_directory, as far as its first file.
LoadDirectory(target, key) ==
    /\ key \notin DOMAIN modules /\ target.directory
    /\ \E files \in {Entries(key)} :
           IF Room /\ Fits(key, files)
           THEN /\ owners' = [f \in ToSet(files) |-> key] @@ owners
                /\ modules' = modules @@ (key :> Module(target.alias, ToSet(files)))
                /\ stack' = Append(stack, Frame("directory", key, files, target))
                /\ UNCHANGED <<phase, order>>
           ELSE Refused

\* visit: the next import of the source on top.
Visit ==
    /\ phase = "loading" /\ Top.kind # "directory" /\ Top.todo # <<>>
    /\ \E target \in {Head(Top.todo)} : \E key \in {Key(target)} :
           IF ~Allowed(target, key) THEN Refused
           ELSE Reuse(target, key) \/ LoadDirectory(target, key)

Returning(kind) == phase = "loading" /\ Top.kind = kind /\ Top.todo = <<>>

\* A file of a directory is done: its declarations join the others.
EndMember ==
    /\ Returning("member")
    /\ LET rest == Front(stack)
           merged == Merged(Last(rest).imports, Top.imports)
       IN  IF merged.ok
           THEN /\ stack' = [rest EXCEPT ![Len(rest)].todo = Tail(@), ![Len(rest)].imports = merged.imports]
                /\ UNCHANGED <<phase, modules, owners, order>>
           ELSE Refused

EndModule ==
    /\ Returning("file") \/ Returning("directory")
    /\ stack' = Arrived(Front(stack), Top.via, Top.key)
    /\ modules' = [modules EXCEPT ![Top.key] = Identified([@ EXCEPT !.imports = Top.imports], Top.via)]
    /\ UNCHANGED <<phase, owners, order>>

RECURSIVE Ordered(_, _)

\* prepare_modules: every module behind those that it imports.
Ordered(list, imports) ==
    LET visit(o, i) ==
            IF i.key \in o.seen THEN o
            ELSE LET inner == Ordered([o EXCEPT !.seen = @ \cup {i.key}], modules[i.key].imports)
                 IN  [inner EXCEPT !.order = Append(@, i.key)]
    IN  FoldLeft(visit, list, imports)

Prepare ==
    /\ Returning("source")
    /\ order' = Ordered([seen |-> {}, order |-> <<>>], Top.imports).order
    /\ phase' = "loaded"
    /\ UNCHANGED <<stack, modules, owners>>

LoadNext ==
    \/ Load \/ Step(Visit) \/ Step(LoadFile) \/ Step(EndMember)
    \/ Step(EndModule) \/ Step(Prepare)

LoadInit ==
    /\ \E input \in Inputs : Given(input) /\ disk \in input.disks
    /\ stack = <<>>
    /\ modules = <<>>
    /\ owners = <<>>
    /\ order = <<>>

LoadSpec == LoadInit /\ [][(Next /\ UNCHANGED loader) \/ LoadNext]_<<vars, loader>>

-----------------------------------------------------------------------------
(* What a program with modules is, said of its files and not of the search. *)

\* What every file says, with the modules its imports lead to, and every directory's files.
Said(list, f) ==
    LET target(t) == [alias |-> t.alias, standard |-> t.standard, key |-> Key(t)]
    IN  [i \in 1..Len(list) |-> target(Targets(list, f)[i])]
World ==
    [says |-> [f \in DOMAIN disk.files |-> IF disk.files[f] = Broken THEN <<>> ELSE Said(disk.files[f], f)],
     has |-> [d \in Directories |-> Entries(d)]]

Imports(w, files) == UNION {ToSet(w.says[f]) : f \in files}

\* The sources and directories that one leads to, and all of them.
Uses(w, u) == (IF u \in DOMAIN w.has THEN ToSet(w.has[u]) ELSE Keys(w.says[u])) \ {Nowhere}

RECURSIVE Reached(_, _)
Reached(w, units) ==
    LET more == units \cup UNION {Uses(w, u) : u \in units}
    IN  IF more = units THEN units ELSE Reached(w, more)

RECURSIVE Height(_, _)
Height(w, u) == 1 + Max({0} \cup {Height(w, v) : v \in Uses(w, u)})

\* A file's imports have names and modules of their own.
SoundFile(w, f) ==
    /\ disk.files[f] # Broken
    /\ Nowhere \notin Keys(w.says[f])
    /\ \A i, j \in 1..Len(w.says[f]) :
           i # j => w.says[f][i].alias # w.says[f][j].alias /\ w.says[f][i].key # w.says[f][j].key

\* So have a directory's, whose files are in no other module.
SoundDirectory(w, sources, dirs, d) ==
    \A files \in {ToSet(w.has[d])} :
        /\ w.has[d] # <<>> /\ IsInjective(w.has[d]) /\ files \subseteq DOMAIN w.says
        /\ files \cap ({Root} \cup {i.key : i \in Imports(w, sources)}) = {}
        /\ \A e \in dirs \ {d} : ToSet(w.has[e]) \cap files = {}
        /\ \A i, j \in Imports(w, files) : (i.alias = j.alias) = (i.key = j.key)

\* No source leads to itself, and no file has two standard names.
WellFormed(w, sources, dirs) ==
    /\ \A f \in sources : SoundFile(w, f)
    /\ \A d \in dirs : SoundDirectory(w, sources, dirs, d)
    /\ \A u \in sources \cup dirs : u \notin Reached(w, Uses(w, u))
    /\ \A i, j \in Imports(w, sources) :
           i.key = j.key => "" \in {i.standard, j.standard} \/ i.standard = j.standard

\* One module for each directory and each file imported alone, every file in one of
\* them, with the name a standard import gives it, behind the modules it imports.
Loaded(w, sources) ==
    LET named(k) == {i.standard : i \in {j \in Imports(w, sources) : j.key = k}} \ {""}
    IN  /\ DOMAIN modules = {i.key : i \in Imports(w, sources)}
        /\ IsInjective(order) /\ ToSet(order) = DOMAIN modules
        /\ UNION {modules[k].sources : k \in DOMAIN modules} = sources \ {Root}
        /\ \A k, l \in DOMAIN modules :
               k # l => /\ modules[k].sources \cap modules[l].sources = {}
                        /\ modules[k].prefix # modules[l].prefix
        /\ \A k \in DOMAIN modules :
               /\ {modules[k].standard} \ {""} = named(k)
               /\ Keys(modules[k].imports) = {i.key : i \in Imports(w, modules[k].sources)}
        /\ \A i, j \in 1..Len(order) : order[j] \in Keys(modules[order[i]].imports) => j < i

\* The modules of a program are what its files say, however they were found, and it is
\* refused only where its files contradict each other or lead too deep
\* (docs/modules.md).
ModulesExact ==
    phase = "loaded" \/ (phase = "refused" /\ stack # <<>>) =>
        \A w \in {World} : \A all \in {Reached(w, {Root})} :
            LET dirs == all \cap DOMAIN w.has
                sound == WellFormed(w, all \ dirs, dirs)
            IN  IF phase = "loaded" THEN sound /\ Loaded(w, all \ dirs)
                ELSE sound => Height(w, Root) > Depth

=============================================================================
