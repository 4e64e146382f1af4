-------------------------- MODULE MCModuleResolver --------------------------
(***************************************************************************)
(* A root and three modules that may import each other, themselves or a    *)
(* name that is no filename stem; module 2 may be imported with three      *)
(* parameter assignments, two of them == to each other; files may be       *)
(* missing, broken or import a module twice.  The root is a device with a  *)
(* name of its own, a device with the name of module 2, or module 3.       *)
(***************************************************************************)
EXTENDS ModuleResolver, TLC

CONSTANTS none, one, true

MCModules == 1..5
MCPyClass == (none :> 0) @@ (one :> 1) @@ (true :> 1)

Import(m, p) == [name |-> m, params |-> p]

ImportLists(ps, last) ==
    {a \o b \o c : a \in {<< >>, <<Import(1, none)>>},
                   b \in {<< >>} \union {<<Import(2, p)>> : p \in ps},
                   c \in {<< >>} \union {<<Import(m, none)>> : m \in last}}

Twice == <<Import(1, none), Import(1, none)>>
Missing == File("missing", << >>)
Readable(lists) == {File("module", l) : l \in lists}

MCFiles ==
    {<<f1, f2, f3, Missing, Missing>> :
        f1 \in Readable(ImportLists({one, true}, {3}) \union {Twice}),
        f2 \in Readable(ImportLists({}, {3})) \union {Missing},
        f3 \in Readable(ImportLists({none, one}, {5})) \union {File("broken", << >>), File("undecodable", << >>)}}

MCProjects ==
    {[root |-> r, kind |-> "device", imports |-> l, files |-> f] :
        r \in {2, 4}, l \in ImportLists({none, one}, {3}) \union {Twice}, f \in MCFiles}
    \union {[root |-> 3, kind |-> "module", imports |-> f[3].imports, files |-> f] :
                f \in {f \in MCFiles : f[3].kind = "module"}}
=============================================================================
