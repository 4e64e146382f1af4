---------------------------- MODULE AddressSpace ----------------------------
(***************************************************************************)
(* Inclusive address ranges, the items that compete for their addresses    *)
(* and the order in which an item's candidates are tried.                  *)
(*                                                                         *)
(* A qualified name is the natural number of its rank in lexical order, so *)
(* "sorted by qualified name" is "least first".  The CRC-32 of an item's   *)
(* key is any natural number: nothing below depends on which one.          *)
(***************************************************************************)
EXTENDS Integers, Sequences, FiniteSets, Functions

CONSTANT None   \* Python's None: an item without an explicit address

ASSUME NoneAssumption == None \notin Nat

\* An inclusive address range with at least one address.
Ranges == {r \in [lo : Nat, hi : Nat] : r.lo <= r.hi}
Size(r) == r.hi - r.lo + 1
Addresses(r) == r.lo..r.hi

\* What a pass reads of an object or of a record field.
Items == [name : Nat, explicit : Nat \union {None}, crc : Nat]

\* _require_unique_qualified_names has run before any pass.
HasUniqueNames(s) ==
    \A i, j \in DOMAIN s : s[i].name = s[j].name => i = j

\* The slot an item's CRC selects before probing.
InitialSlot(r, item) == item.crc % Size(r)

\* The address looked at after p occupied ones, wrapping at the end of r.
Candidate(r, item, p) == r.lo + ((InitialSlot(r, item) + p) % Size(r))
=============================================================================
