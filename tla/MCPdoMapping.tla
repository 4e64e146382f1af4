---------------------------- MODULE MCPdoMapping ----------------------------
(***************************************************************************)
(* A device D with a record whose field x is named D.M.x, and modules M,   *)
(* N, and one with a dotted name, D.N.  Each may or may not declare an x,  *)
(* y or array list; one or two PDOs of D or M map one or two references.   *)
(***************************************************************************)
EXTENDS PdoMapping

D == <<"D">>
M == <<"M">>
N == <<"N">>
DN == <<"D", "N">>

Leaf0(key, role, access, bits, subindex) ==
    [key |-> key, role |-> role, access |-> access, bits |-> bits, subindex |-> subindex]
Variable(owner, key, index, access, bits) ==
    [owner |-> owner, key |-> key, index |-> index, access |-> access, bits |-> bits,
     subs |-> << >>]

MCRecord ==
    [owner |-> D, key |-> M, index |-> 4, access |-> "none", bits |-> 0,
     subs |-> <<Leaf0(M, "count", "ro", 8, 0), Leaf0(<<"M", "x">>, "record-field", "rw", 8, 1)>>]

MCArray ==
    [owner |-> D, key |-> <<"list">>, index |-> 6, access |-> "rw", bits |-> 0,
     subs |-> <<Leaf0(<<"list">>, "count", "ro", 8, 0),
                Leaf0(<<"list[1]">>, "array-element", "rw", 16, 1)>>]

\* An optional object at each index; a key of D may look like an array element.
Optional(o) == {<< >>, <<o>>}
MCObjects ==
    {a \o b \o c \o d \o e \o f :
        a \in Optional(Variable(D, <<"x">>, 1, "ro", 32)),
        b \in {<<Variable(M, <<"x">>, 2, "wo", 64)>>},
        c \in Optional(Variable(N, <<"x">>, 3, "rw", 32)),
        d \in Optional(MCRecord),
        e \in Optional(Variable(DN, <<"x">>, 5, "rw", 32)),
        f \in {<< >>, <<MCArray, Variable(D, <<"list[1]">>, 7, "rw", 32)>>}}

Dependencies(d, m) == [n \in {D, M, N, DN} |-> CASE n = D -> d [] n = M -> m [] OTHER -> {}]
MCDependencies ==
    {Dependencies({M}, {}), Dependencies({M, N}, {}), Dependencies({M}, {N}),
     Dependencies({M, DN}, {N}), Dependencies({M, N}, {DN})}

Local == {<<"x">>, M, <<"list">>, <<"list[1]">>}
Dotted == {<<"M", "x">>, <<"N", "x">>, <<"D", "M", "x">>}

Pdo(owner, direction, mapping) ==
    [owner |-> owner, direction |-> direction, mapping |-> mapping]
MCMappings ==
    {<<r>> : r \in Local \union Dotted}
    \union {<<r, q>> : r \in Dotted, q \in {<<"x">>}}
    \union {<<<<"D", "x">>, <<"x">>>>, <<<<"x">>, <<"D", "x">>>>}
MCPdoLists ==
    {<<Pdo(w, d, m)>> : w \in {D, M}, d \in {"tpdo", "rpdo"}, m \in MCMappings}
    \union {<<Pdo(D, "rpdo", <<r>>), Pdo(M, d, <<q>>)>> :
                d \in {"tpdo", "rpdo"}, r \in Dotted, q \in Dotted \union {<<"x">>}}

\* An object of a module that nothing imports is not in the dictionary.
Reached(d) == {D} \union d[D] \union UNION {d[m] : m \in d[D]}
MCAllDevices ==
    UNION {{[dependencies |-> d, objects |-> o, pdos |-> p] :
               o \in {o \in MCObjects : \A x \in Range(o) : x.owner \in Reached(d)},
               p \in MCPdoLists} :
           d \in MCDependencies}

\* Named apart from the set above so that TLC evaluates that set once.
MCDevices == MCAllDevices
=============================================================================
