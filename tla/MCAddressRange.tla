---------------------------- MODULE MCAddressRange ---------------------------
(***************************************************************************)
(* Inputs of an allocation pass.                                           *)
(*                                                                         *)
(* Every pass over a range of two and a range of three addresses of up to  *)
(* MaxItems items, their names in every order, and of MaxItems + 1 items   *)
(* in lexical order: all hash slots and all explicit addresses, the two    *)
(* just outside the range included.                                        *)
(***************************************************************************)
EXTENDS AddressRange

CONSTANTS MaxItems

\* An explicit item is never hashed; its CRC is immaterial.
MCKinds ==
    [explicit : {None}, crc : 0..2] \union [explicit : 0..4, crc : {0}]

MCItems(order, kinds) ==
    [i \in DOMAIN order |->
        [name |-> order[i], explicit |-> kinds[i].explicit, crc |-> kinds[i].crc]]

MCOrders(n) == {f \in [1..n -> 1..n] : IsInjective(f)}

MCSequences(n, orders) == {MCItems(f, k) : f \in orders, k \in [1..n -> MCKinds]}

MCSequencesOfAllLengths ==
    UNION {MCSequences(n, MCOrders(n)) : n \in 0..MaxItems}
    \union MCSequences(MaxItems + 1, {[i \in 1..(MaxItems + 1) |-> i]})

\* Named apart from the set above so that TLC evaluates that set once.
MCInputItems == MCSequencesOfAllLengths

MCInputRanges == {[lo |-> 1, hi |-> 2], [lo |-> 1, hi |-> 3]}
=============================================================================
