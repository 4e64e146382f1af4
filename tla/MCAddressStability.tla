------------------------- MODULE MCAddressStability -------------------------
(***************************************************************************)
(* Configurations of up to three items, in lexical order and with any one  *)
(* of four names missing, in a range of three addresses; a reordering, a   *)
(* new item or a pinned item in between the two passes.                    *)
(***************************************************************************)
EXTENDS AddressStability

MCNames == 1..4

MCNewItems ==
    [name : MCNames, explicit : {None}, crc : 0..2]
    \union [name : MCNames, explicit : 1..3, crc : {0}]

MCInputItems ==
    {s \in UNION {[1..n -> MCNewItems] : n \in 0..3} :
        \A i, j \in DOMAIN s : i < j => s[i].name < s[j].name}

MCInputRanges == {[lo |-> 1, hi |-> 3]}
=============================================================================
