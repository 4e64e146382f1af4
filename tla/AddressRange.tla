---------------------------- MODULE AddressRange ----------------------------
(***************************************************************************)
(* One pass of the allocator over one inclusive address range.             *)
(*                                                                         *)
(* allocator.py runs the same algorithm twice: allocate_object_dictionary  *)
(* over the index range of each category (lines 242-282) and               *)
(* _allocate_record_subobjects over the subindices of one record (lines    *)
(* 92-131).  Explicit addresses are validated and reserved in input order; *)
(* then the automatic items, sorted by qualified name, are hashed and      *)
(* placed by linear probing with wraparound.                               *)
(***************************************************************************)
EXTENDS AddressInputs

VARIABLES
    range,      \* the inclusive range of this pass
    items,      \* its items, in input order
    next,       \* position of the explicit loop
    probe,      \* probe distance of the automatic item being placed
    occupied,   \* address -> name of the item that holds it
    assigned,   \* name -> [address, source, probe]
    phase       \* where the pass is, or the error that ended it

passVars == <<range, items, next, probe, occupied, assigned, phase>>
vars == passVars

Errors == {"out_of_range", "collision", "exhausted"}
Ended == Errors \union {"allocated"}

-----------------------------------------------------------------------------
IsExplicit(i) == items[i].explicit # None

\* Automatic items that have no address yet, and the first of them by name.
Waiting == {i \in DOMAIN items : ~IsExplicit(i) /\ items[i].name \notin DOMAIN assigned}

\* Mutants of Current: in input order, and in reverse order of names.
CurrentByInput == CHOOSE i \in Waiting : \A j \in Waiting : i <= j
CurrentLastName == CHOOSE i \in Waiting : \A j \in Waiting : items[i].name >= items[j].name

Current == CHOOSE i \in Waiting : \A j \in Waiting : items[i].name <= items[j].name

\* The dictionary update d[k] = v, for a key that d does not have.
Insert(d, k, v) == [x \in DOMAIN d \union {k} |-> IF x = k THEN v ELSE d[x]]

Assign(i, a, source, p) ==
    /\ occupied' = Insert(occupied, a, items[i].name)
    /\ assigned' = Insert(assigned, items[i].name,
                          [address |-> a, source |-> source, probe |-> p])

-----------------------------------------------------------------------------
\* The state in which a pass over s in r begins.
Begin(r, s) ==
    /\ range = r
    /\ items = s
    /\ next = 1
    /\ probe = 0
    /\ occupied = << >>
    /\ assigned = << >>
    /\ phase = "explicit"

Init == \E r \in InputRanges, s \in InputItems : Begin(r, s)

\* A caller that makes several passes begins another one.
Call(r, s) ==
    /\ range' = r
    /\ items' = s
    /\ next' = 1
    /\ probe' = 0
    /\ occupied' = << >>
    /\ assigned' = << >>
    /\ phase' = "explicit"

InExplicitLoop == phase = "explicit" /\ next \in DOMAIN items

SkipAutomatic ==
    /\ InExplicitLoop
    /\ ~IsExplicit(next)
    /\ next' = next + 1
    /\ UNCHANGED <<range, items, probe, occupied, assigned, phase>>

RejectOutOfRange ==
    /\ InExplicitLoop
    /\ IsExplicit(next)
    /\ items[next].explicit \notin Addresses(range)
    /\ phase' = "out_of_range"
    /\ UNCHANGED <<range, items, next, probe, occupied, assigned>>

RejectCollision ==
    /\ InExplicitLoop
    /\ IsExplicit(next)
    /\ items[next].explicit \in Addresses(range)
    /\ items[next].explicit \in DOMAIN occupied
    /\ phase' = "collision"
    /\ UNCHANGED <<range, items, next, probe, occupied, assigned>>

\* Mutant of ReserveExplicit: the address is not looked up in occupied.
ReserveUnchecked ==
    /\ InExplicitLoop
    /\ IsExplicit(next)
    /\ items[next].explicit \in Addresses(range)
    /\ Assign(next, items[next].explicit, "explicit", 0)
    /\ next' = next + 1
    /\ UNCHANGED <<range, items, probe, phase>>

ReserveExplicit ==
    /\ InExplicitLoop
    /\ IsExplicit(next)
    /\ items[next].explicit \in Addresses(range)
    /\ items[next].explicit \notin DOMAIN occupied
    /\ Assign(next, items[next].explicit, "explicit", 0)
    /\ next' = next + 1
    /\ UNCHANGED <<range, items, probe, phase>>

\* Mutant of BeginAutomatic: the first automatic item ends the explicit loop.
BeginAutomaticEarly ==
    /\ phase = "explicit"
    /\ next \in DOMAIN items => ~IsExplicit(next)
    /\ phase' = "automatic"
    /\ UNCHANGED <<range, items, next, probe, occupied, assigned>>

BeginAutomatic ==
    /\ phase = "explicit"
    /\ next \notin DOMAIN items
    /\ phase' = "automatic"
    /\ UNCHANGED <<range, items, next, probe, occupied, assigned>>

\* Mutant of InProbeLoop: one probe too many.
ProbesOnceMore == phase = "automatic" /\ Waiting # {} /\ probe <= Size(range)

InProbeLoop == phase = "automatic" /\ Waiting # {} /\ probe < Size(range)

\* Mutant of ProbeOccupied: the probe distance wraps with the slot.
ProbeForever ==
    /\ InProbeLoop
    /\ Candidate(range, items[Current], probe) \in DOMAIN occupied
    /\ probe' = (probe + 1) % Size(range)
    /\ UNCHANGED <<range, items, next, occupied, assigned, phase>>

ProbeOccupied ==
    /\ InProbeLoop
    /\ Candidate(range, items[Current], probe) \in DOMAIN occupied
    /\ probe' = probe + 1
    /\ UNCHANGED <<range, items, next, occupied, assigned, phase>>

\* Mutant of AssignAutomatic: the next item goes on from this probe distance.
AssignWithoutReset ==
    /\ InProbeLoop
    /\ Candidate(range, items[Current], probe) \notin DOMAIN occupied
    /\ Assign(Current, Candidate(range, items[Current], probe), "automatic", probe)
    /\ UNCHANGED <<range, items, next, probe, phase>>

AssignAutomatic ==
    /\ InProbeLoop
    /\ Candidate(range, items[Current], probe) \notin DOMAIN occupied
    /\ Assign(Current, Candidate(range, items[Current], probe), "automatic", probe)
    /\ probe' = 0
    /\ UNCHANGED <<range, items, next, phase>>

\* The else branch of the probe loop: every address was tried.
RejectExhausted ==
    /\ phase = "automatic"
    /\ Waiting # {}
    /\ probe = Size(range)
    /\ phase' = "exhausted"
    /\ UNCHANGED <<range, items, next, probe, occupied, assigned>>

Finish ==
    /\ phase = "automatic"
    /\ Waiting = {}
    /\ phase' = "allocated"
    /\ UNCHANGED <<range, items, next, probe, occupied, assigned>>

Next ==
    \/ SkipAutomatic
    \/ RejectOutOfRange
    \/ RejectCollision
    \/ ReserveExplicit
    \/ BeginAutomatic
    \/ ProbeOccupied
    \/ AssignAutomatic
    \/ RejectExhausted
    \/ Finish

Spec == Init /\ [][Next]_vars /\ WF_vars(Next)

-----------------------------------------------------------------------------
\* Types of the state: addresses, names and probe distances are naturals,
\* and every assignment is the record of allocator.py:259/269-273.
TypeOK ==
    /\ range \in Ranges
    /\ items \in Seq(Items)
    /\ HasUniqueNames(items)
    /\ next \in 1..(Len(items) + 1)
    /\ probe \in 0..Size(range)
    /\ DOMAIN occupied \subseteq Nat
    /\ DOMAIN assigned \subseteq {items[i].name : i \in DOMAIN items}
    /\ \A n \in DOMAIN assigned :
          assigned[n] \in [address : Nat, source : {"explicit", "automatic"}, probe : Nat]
    /\ phase \in Ended \union {"explicit", "automatic"}

\* occupied and assigned are written together and stay inverse to each other:
\* no two items ever share an address, and none lies outside the range.
NoSharedAddress ==
    /\ \A a \in DOMAIN occupied :
          occupied[a] \in DOMAIN assigned /\ assigned[occupied[a]].address = a
    /\ \A n \in DOMAIN assigned :
          /\ assigned[n].address \in Addresses(range)
          /\ assigned[n].address \in DOMAIN occupied
          /\ occupied[assigned[n].address] = n

\* An explicit address is its owner's whatever the input order: no automatic
\* item is ever placed on an address that any item of the input declares.
ExplicitPriority ==
    \A i, j \in DOMAIN items :
        (IsExplicit(i) /\ items[j].name \in DOMAIN assigned) =>
            IF i = j THEN assigned[items[j].name].address = items[i].explicit
                     ELSE assigned[items[j].name].address # items[i].explicit
                          \/ IsExplicit(j)

\* Who may stand in the way of item i: an explicit item or an automatic item
\* with a smaller qualified name.
MayDisplace(i, j) == IsExplicit(j) \/ items[j].name < items[i].name

\* An automatic item stands probe steps after its hash slot, and everything it
\* stepped over is held by an item that had the right to be there first.
ProbeChain ==
    \A i \in DOMAIN items :
        (~IsExplicit(i) /\ items[i].name \in DOMAIN assigned) =>
            LET at == assigned[items[i].name] IN
            /\ at.source = "automatic"
            /\ at.probe < Size(range)
            /\ at.address = Candidate(range, items[i], at.probe)
            /\ \A p \in 0..(at.probe - 1) : \E j \in DOMAIN items :
                  /\ MayDisplace(i, j)
                  /\ items[j].name \in DOMAIN assigned
                  /\ assigned[items[j].name].address = Candidate(range, items[i], p)

\* A pass reports exhaustion only when every address of the range is held, and
\* succeeds only when every item has an address.
ExhaustedOnlyWhenFull ==
    /\ phase = "exhausted" =>
          \A a \in Addresses(range) : a \in DOMAIN occupied
    /\ phase = "allocated" => \A i \in DOMAIN items : items[i].name \in DOMAIN assigned

\* What holds in the loops and makes the invariants above inductive: the
\* explicit loop has reserved every declared address before position next, the
\* automatic items are served in lexical order, and the addresses that the
\* item being placed has stepped over are all held.
LoopInv ==
    /\ phase \in {"explicit", "out_of_range", "collision"} =>
          \A i \in DOMAIN items :
              items[i].name \in DOMAIN assigned => IsExplicit(i) /\ i < next
    /\ phase = "explicit" => probe = 0
    /\ phase \in {"automatic", "exhausted", "allocated"} => next \notin DOMAIN items
    /\ \A i \in DOMAIN items :
          i < next /\ IsExplicit(i) => items[i].name \in DOMAIN assigned
    /\ \A i, j \in DOMAIN items :
          (/\ ~IsExplicit(i) /\ items[i].name \in DOMAIN assigned
           /\ ~IsExplicit(j) /\ items[j].name \notin DOMAIN assigned)
              => items[i].name < items[j].name
    /\ (phase \in {"automatic", "exhausted"} /\ Waiting # {}) =>
          \A p \in 0..(probe - 1) :
              Candidate(range, items[Current], p) \in DOMAIN occupied

\* The pass ends, with addresses or with an error.
Terminates == <>(phase \in Ended)

-----------------------------------------------------------------------------
\* The answer that the state of a pass stands for.
PassResult ==
    [kind |-> IF phase \in Ended THEN phase ELSE "pending",
     map  |-> IF phase = "allocated"
              THEN [n \in DOMAIN assigned |-> assigned[n].address]
              ELSE << >>]

\* The pass implements the one-step specification of what it promises: it
\* returns the placement of the set of items it was given, or refuses for a
\* reason that this set justifies.
Abstract == INSTANCE AddressMap WITH result <- PassResult

ImplementsAddressMap == Abstract!Spec

\* The addresses that a pass returns are the only placement that its items
\* have: they are decided by the set of items, never by the order in which
\* the items were declared or served.
ResultIsTheOnlyPlacement ==
    phase = "allocated" =>
        \A m \in [{x.name : x \in Range(items)} -> Addresses(range)] :
            IsPlacement(range, Range(items), m) => m = PassResult.map
=============================================================================
