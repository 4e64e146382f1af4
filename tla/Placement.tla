------------------------------ MODULE Placement ------------------------------
(***************************************************************************)
(* Where the items of one range belong, as a property of the set of items  *)
(* alone.  That a set has at most one placement is why equal               *)
(* configurations reproduce the same dictionary whatever the order of      *)
(* their YAML mappings.                                                    *)
(***************************************************************************)
EXTENDS AddressSpace

\* Item y may stand on an address that item x would rather have: explicit
\* items come first, then automatic items in lexical order.
HasPriority(y, x) == y.explicit # None \/ y.name < x.name

\* In placement m, item x stands p steps after its hash slot, and every
\* address it stepped over belongs to an item with priority.
IsFirstFree(r, S, m, x, p) ==
    /\ m[x.name] = Candidate(r, x, p)
    /\ \A q \in 0..(p - 1) : \E y \in S :
          HasPriority(y, x) /\ m[y.name] = Candidate(r, x, q)

IsPlacement(r, S, m) ==
    /\ DOMAIN m = {x.name : x \in S}
    /\ \A x \in S : m[x.name] \in Addresses(r)
    /\ \A x, y \in S : m[x.name] = m[y.name] => x = y
    /\ \A x \in S : x.explicit # None => m[x.name] = x.explicit
    /\ \A x \in S : x.explicit = None =>
          \E p \in 0..(Size(r) - 1) : IsFirstFree(r, S, m, x, p)
=============================================================================
