--------------------------- MODULE MCTypeResolver ---------------------------
(***************************************************************************)
(* A device D that imports a module M, which may import a third: D.N, with *)
(* a dotted name, or P.  Types A and B of D and M may be aliases or enums  *)
(* of a primitive, of themselves, of each other or of another module's A;  *)
(* the third module may declare an enum, and D a type with the dotted name *)
(* N.A or the reserved name record.  Or the device is D.N, with a type A.  *)
(* The last primitive is a byte of four values, the first is no integer.   *)
(***************************************************************************)
EXTENDS CppSymbols, TLC

D == <<"D">>
M == <<"M">>
P == <<"P">>
DN == <<"D", "N">>
A == <<"A">>
B == <<"B">>
Float == <<"float32">>
Byte == <<"uint8">>
Record == <<"record">>

MCPrimitives ==
    (Float :> [integer |-> FALSE, lo |-> 0, hi |-> -1]) @@
    (Byte :> [integer |-> TRUE, lo |-> 0, hi |-> 3])
MCStructural == {Record}

Declarations(owner, name, bases, enums) ==
    {<<[owner |-> owner, name |-> name, base |-> b, enum |-> e]>> : b \in bases, e \in enums}

\* Each list is in the order of (namespace, name); the types of the third
\* module stand between those of D and M, or at the end.
MCTypes(dotted, between, end) ==
    {a \o b \o c \o d \o e \o f \o g :
        a \in {<< >>} \union Declarations(D, A, {Byte, B, <<"M", "A">>, <<"D", "N", "A">>}, {{}})
                  \union Declarations(D, A, {B}, {{1}}),
        b \in {<< >>} \union Declarations(D, B, {Float, A, <<"M", "B">>}, {{}}),
        c \in {<< >>} \union dotted,
        d \in between,
        e \in Declarations(M, A, {Byte}, {{}, {3}, {4}})
                  \union Declarations(M, A, {B, A}, {{}}),
        f \in {<< >>} \union Declarations(M, B, {A}, {{1}}) \union Declarations(M, B, {Float}, {{0}}),
        g \in end}

Use(owner, path, t) == [owner |-> owner, path |-> path, type |-> t]
Key(k) == <<k>>

\* Every list is in the order of owners and keys.  The first has a variable a
\* of D and M each; the next a variable b next to a field b; the others keys
\* that D and D.N share, and a key that is no identifier.
MCUses ==
    {<<Use(D, <<Key("a")>>, A), Use(M, <<Key("a")>>, Byte), Use(M, <<Key("b")>>, B)>>,
     <<Use(D, <<Key("b")>>, Byte), Use(D, <<Key("r"), Key("b")>>, <<"D", "A">>),
       Use(D, <<Key("r"), Key("c")>>, A)>>,
     <<Use(M, <<Key("c"), Key("2nd")>>, A)>>}
MCDottedUses == {<<Use(D, <<Key("c")>>, <<"M", "A">>), Use(DN, <<Key("c")>>, A)>>}

MCGraphsOf(dependencies, types, uses) ==
    {[root |-> D, dependencies |-> dependencies, types |-> t, uses |-> u] : t \in types, u \in uses}

\* The device itself may have a dotted name.
MCDottedDevices ==
    {[root |-> DN, dependencies |-> (DN :> {M}) @@ (M :> {}), types |-> a \o b,
      uses |-> <<Use(DN, <<Key("c")>>, A), Use(M, <<Key("a")>>, A)>>] :
        a \in {<< >>} \union Declarations(DN, A, {Byte}, {{}, {2}}),
        b \in Declarations(M, A, {Byte}, {{}, {3}})}

MCAllGraphs ==
    LET dotted == Declarations(D, <<"N", "A">>, {Byte}, {{}}) \union Declarations(D, Record, {Byte}, {{}})
    IN  MCGraphsOf((D :> {M}) @@ (M :> {}), MCTypes(dotted, {<< >>}, {<< >>}), MCUses)
        \union MCGraphsOf((D :> {M}) @@ (M :> {DN}) @@ (DN :> {}),
                   MCTypes(dotted, {<< >>} \union Declarations(DN, A, {Byte}, {{2}}), {<< >>}),
                   MCUses \union MCDottedUses)
        \union MCGraphsOf((D :> {M}) @@ (M :> {P}) @@ (P :> {}),
                   MCTypes({}, {<< >>}, Declarations(P, B, {Byte}, {{2}})), MCUses)
        \union MCDottedDevices

\* Named apart from the set above so that TLC evaluates that set once.
MCGraphs == MCAllGraphs

MCPascal ==
    ("a" :> <<"A">>) @@ ("b" :> <<"B">>) @@ ("c" :> <<"C">>) @@ ("r" :> <<"R">>) @@
    ("A" :> <<"A">>) @@ ("B" :> <<"B">>) @@ ("D" :> <<"D">>) @@ ("M" :> <<"M">>) @@
    ("P" :> <<"P">>)
=============================================================================
