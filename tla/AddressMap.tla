----------------------------- MODULE AddressMap -----------------------------
(***************************************************************************)
(* What one allocation pass promises, without saying how it gets there:    *)
(* in one step it either returns the placement of its items or refuses,    *)
(* and it refuses only for a reason that the set of items justifies.       *)
(*                                                                         *)
(* The answer depends on the set of items alone, never on their order.     *)
(***************************************************************************)
EXTENDS AddressInputs

VARIABLES
    range,      \* the inclusive range of this pass
    items,      \* its items, in input order
    result      \* [kind, map]: pending, allocated with its map, or an error

vars == <<range, items, result>>

-----------------------------------------------------------------------------
Pending == [kind |-> "pending", map |-> << >>]
Refused(error) == [kind |-> error, map |-> << >>]

-----------------------------------------------------------------------------
Init ==
    /\ range \in InputRanges
    /\ items \in InputItems
    /\ result = Pending

Answer(r) ==
    /\ result = Pending
    /\ result' = r
    /\ UNCHANGED <<range, items>>

Allocate ==
    \E m \in [{x.name : x \in Range(items)} -> Addresses(range)] :
        /\ Answer([kind |-> "allocated", map |-> m])
        /\ IsPlacement(range, Range(items), m)

RejectOutOfRange ==
    /\ \E x \in Range(items) : x.explicit # None /\ x.explicit \notin Addresses(range)
    /\ Answer(Refused("out_of_range"))

RejectCollision ==
    /\ \E x, y \in Range(items) : x # y /\ x.explicit # None /\ x.explicit = y.explicit
    /\ Answer(Refused("collision"))

RejectExhausted ==
    /\ Len(items) > Size(range)
    /\ Answer(Refused("exhausted"))

Next == Allocate \/ RejectOutOfRange \/ RejectCollision \/ RejectExhausted

Spec == Init /\ [][Next]_vars
=============================================================================
