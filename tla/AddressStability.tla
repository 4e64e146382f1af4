-------------------------- MODULE AddressStability --------------------------
(***************************************************************************)
(* Two allocations of one range with an edit of the YAML in between.       *)
(*                                                                         *)
(* There is no address lock file: every generation allocates from nothing. *)
(* What the wiki promises about stability, and what it warns of, is what   *)
(* the second pass does with the items of the first one.                   *)
(***************************************************************************)
EXTENDS AddressRange

CONSTANT NewItems   \* the items an edit may add

ASSUME NewItemsAssumption == NewItems \subseteq Items

VARIABLES
    before,     \* items, phase and assigned of the first pass
    edit        \* "none", or the edit that separates the two passes

stabilityVars == <<passVars, before, edit>>

Names(s) == {s[i].name : i \in DOMAIN s}

-----------------------------------------------------------------------------
FirstInit ==
    /\ Init
    /\ before = << >>
    /\ edit = "none"

\* The user edits the configuration and runs the generator again.
Regenerate(kind, s) ==
    /\ phase \in Ended
    /\ edit = "none"
    /\ edit' = kind
    /\ before' = [items |-> items, phase |-> phase, assigned |-> assigned]
    /\ Call(range, s)

\* The same definitions reach the allocator in another order.
Reorder ==
    \E f \in Bijection(DOMAIN items, DOMAIN items) :
        Regenerate("reorder", [i \in DOMAIN items |-> items[f[i]]])

\* A new item joins the configuration.
AddItem ==
    \E x \in NewItems :
        /\ x.name \notin Names(items)
        /\ Regenerate("add", Append(items, x))

\* Mutant of Pin: the initial address of the hash is written, not the final one.
PinInitial ==
    \E i \in DOMAIN items :
        /\ phase = "allocated"
        /\ ~IsExplicit(i)
        /\ Regenerate("pin", [items EXCEPT ![i].explicit = Candidate(range, items[i], 0)])

\* The address an automatic item was given is written into its definition.
Pin ==
    \E i \in DOMAIN items :
        /\ phase = "allocated"
        /\ ~IsExplicit(i)
        /\ Regenerate("pin",
               [items EXCEPT ![i].explicit = assigned[items[i].name].address])

PassStep == Next /\ UNCHANGED <<before, edit>>

StabilityNext == PassStep \/ Reorder \/ AddItem \/ Pin

StabilitySpec == FirstInit /\ [][StabilityNext]_stabilityVars

-----------------------------------------------------------------------------
SecondPassEnded(kind) == edit = kind /\ phase \in Ended

\* The order in which definitions reach the allocator decides nothing: the
\* same set of items is allocated the same addresses, or refused again.
OrderIsIrrelevant ==
    SecondPassEnded("reorder") =>
        IF before.phase = "allocated"
        THEN phase = "allocated" /\ assigned = before.assigned
        ELSE phase \in Errors

\* Writing an automatic address into its definition moves no item at all.
PinningMovesNothing ==
    SecondPassEnded("pin") =>
        /\ phase = "allocated"
        /\ \A n \in DOMAIN assigned : assigned[n].address = before.assigned[n].address

\* A new item moves no explicit item, moves other items only further along
\* their probe sequences, and an automatic one moves only larger names.
AddingMovesForward ==
    (SecondPassEnded("add") /\ phase = "allocated" /\ before.phase = "allocated") =>
        \A i \in DOMAIN before.items :
            LET n == before.items[i].name
                x == items[Len(items)]
            IN  /\ assigned[n].probe >= before.assigned[n].probe
                /\ (IsExplicit(i) \/ (x.explicit = None /\ n < x.name))
                      => assigned[n] = before.assigned[n]
=============================================================================
