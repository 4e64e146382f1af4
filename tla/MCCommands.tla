----------------------------- MODULE MCCommands -----------------------------
(***************************************************************************)
(* Two module files and one device file, one of each that may be something *)
(* else or missing; a module 3 that does not exist; and validate-all,      *)
(* alone or before one command on one of the files.                        *)
(***************************************************************************)
EXTENDS Commands

MCModules == 1..4
MCPyClass == [p \in Params |-> 0]

Import(m) == [name |-> m, params |-> NoParams]
Imports0(S) == {<< >>} \union {<<Import(m)>> : m \in S}

Definition(kind, name, imports, flaw, claim) ==
    [document |-> "valid", kind |-> kind, name |-> name, imports |-> imports, flaw |-> flaw,
     claim |-> claim]
Unparsed(document) ==
    [document |-> document, kind |-> None, name |-> None, imports |-> << >>, flaw |-> None,
     claim |-> None]

First ==
    {Definition("module", None, i, f, c) :
        i \in Imports0({2}), f \in {None, "types", "mapping"}, c \in {None, 1}}
    \union {Definition("device", 4, << >>, None, None)}
    \union {Unparsed(d) : d \in {"undecodable", "malformed"}}
Second ==
    {Definition("module", None, i, None, c) : i \in Imports0({1}), c \in {None, 1}}
    \union {Unparsed(d) : d \in {"undecodable", "old_schema"}}
Third ==
    {Definition("device", n, i, f, c) :
        n \in {1, 4}, i \in Imports0({1, 3}) \union {<<Import(1), Import(2)>>},
        f \in {None, "references"}, c \in {None, 1}}
    \union {Definition("module", None, i, None, None) : i \in Imports0({1})}
    \union {Unparsed("nonconforming")}

M1 == <<"Modules", 1>>
M2 == <<"Modules", 2>>
D4 == <<"Device", 4>>
Files(paths, first, second, third) ==
    [p \in paths |-> CASE p = M1 -> first [] p = M2 -> second [] p = D4 -> third]

MCSources ==
    {Files(s, f, t, u) : s \in {{M1, M2, D4}, {M1, D4}}, f \in First, t \in Second, u \in Third}
    \union {<< >>}

All == Command("validate-all", None, TRUE)
Later ==
    {Command(n, p, a) : n \in {"address", "generate"}, p \in {M1, D4}, a \in BOOLEAN}
    \union {Command("validate", p, TRUE) : p \in {M1, M2, D4}}
    \union {Command("map", p, TRUE) : p \in {M1, D4}}
    \union {Command("address", None, FALSE)}
MCSessions == {<<All>>} \union {<<All, c>> : c \in Later}
=============================================================================
