---------------------------- MODULE MCDictionary ----------------------------
(***************************************************************************)
(* Two categories of two indexes and records of two subindices.  The       *)
(* inputs are three variables of any categories and addresses, and one     *)
(* variable, one compound object and a second record; a few more have      *)
(* clashing qualified names.                                               *)
(***************************************************************************)
EXTENDS Artifacts

MCCategories == <<"telemetry", "command">>
MCCategoryRange == [telemetry |-> [lo |-> 1, hi |-> 2], command |-> [lo |-> 3, hi |-> 4]]
MCRecordRange == [lo |-> 1, hi |-> 2]

MCPlaces == [explicit : {None}, crc : 0..1] \union [explicit : {1, 3, 4, 5}, crc : {0}]
MCFieldPlaces == [explicit : {None}, crc : 0..1] \union [explicit : 1..3, crc : {0}]

Definition(n, c, p, kind, fields, length) ==
    [name |-> n, category |-> c, explicit |-> p.explicit, crc |-> p.crc,
     kind |-> kind, fields |-> fields, length |-> length]

\* Names are ranks: the fields of object n come between n and the next object.
Variables(n) == {Definition(n, Categories[k], p, "variable", << >>, None) :
                    k \in DOMAIN Categories, p \in MCPlaces}

Fields(n, places) ==
    [k \in DOMAIN places |->
        [name |-> n + k, explicit |-> places[k].explicit, crc |-> places[k].crc]]

Records(n) == {Definition(n, c, [explicit |-> None, crc |-> 1], "record", Fields(n, f), None) :
                  c \in {"telemetry", "command"},
                  f \in UNION {[1..k -> MCFieldPlaces] : k \in 1..3}}

Arrays(n) == {Definition(n, c, [explicit |-> None, crc |-> 0], "array", << >>, l) :
                  c \in {"telemetry", "command"}, l \in 0..3}

LastRecord ==
    Definition(30, "command", [explicit |-> 4, crc |-> 0], "record",
               Fields(30, <<[explicit |-> None, crc |-> 0], [explicit |-> None, crc |-> 0]>>), None)

Clashing ==
    {<<v, r>> : v \in Variables(11), r \in {d \in Records(10) : Len(d.fields) = 1}}

MCDefinitions ==
    {<< >>}
    \union {<<a, b, c>> : a \in Variables(10), b \in Variables(20), c \in Variables(30)}
    \union {<<a, b, LastRecord>> : a \in Records(10) \union Arrays(10), b \in Variables(20)}
    \union Clashing
=============================================================================
