---------------------------- MODULE TypeResolver ----------------------------
(***************************************************************************)
(* _GraphTypeResolver: the lowering of every custom type of a module graph *)
(* to a primitive, and of every type that an object refers to.             *)
(*                                                                         *)
(* A declaration is known by its position in sorted(self._definitions).    *)
(* The stack of the recursion holds the declarations being resolved, each  *)
(* the base of the one before it; a declaration whose base is resolved is  *)
(* checked, lowered and popped.  An enum is the set of its values, empty   *)
(* for an alias.                                                           *)
(***************************************************************************)
EXTENDS Scope, Integers, FiniteSets, Functions

CONSTANTS
    Primitives,     \* [name -> [integer, lo, hi]]: the CANopen primitives
    Structural,     \* the names of the structural types
    Graphs          \* [dependencies, types, uses]: the graphs to resolve

ASSUME PrimitivesAssumption ==
    \A p \in DOMAIN Primitives :
        Primitives[p].integer \in BOOLEAN /\ Primitives[p].lo \in Int /\ Primitives[p].hi \in Int

\* Declarations and uses come in sequences, whatever is in them.
ASSUME GraphsAssumption ==
    \A g \in Graphs : /\ g.types \in Seq(Range(g.types))
                      /\ g.uses \in Seq(Range(g.uses))

VARIABLES
    graph,          \* the graph: its imports, type declarations, and the types objects use
    stage,          \* "declarations", "uses", "done" or an error
    next,           \* position of the loop over declarations, then over uses
    stack,          \* the declarations being resolved, the innermost last
    resolved,       \* declaration -> [primitive, enum]
    lowered         \* the same for the uses resolved so far, in their order

vars == <<graph, stage, next, stack, resolved, lowered>>

Errors ==
    {"reserved", "unknown", "ambiguous", "cycle", "enum_base", "enum_range",
     "unknown_use", "ambiguous_use"}

Types == graph.types
Uses == graph.uses

-----------------------------------------------------------------------------
IsPrimitive(name) == name \in DOMAIN Primitives
IsReserved(i) == IsPrimitive(Types[i].name) \/ Types[i].name \in Structural

Local(owner, name) == {i \in DOMAIN Types : Types[i].owner = owner /\ Types[i].name = name}

VisibleTypes(owner) == {i \in DOMAIN Types : Types[i].owner \in Visible(graph.dependencies, owner)}

\* _select_custom: the declarations that a name may mean.  No match is
\* unknown, and more than one is ambiguous.
Selected(owner, name) ==
    LET Qualifies(i) == Qualified(Types[i].owner, Types[i].name) = name
        qualified == {i \in VisibleTypes(owner) : Qualifies(i)}
    IN  IF Local(owner, name) # {} THEN Local(owner, name)
        ELSE IF qualified # {} THEN qualified
        ELSE {i \in VisibleTypes(owner) : Types[i].name = name}

Bases(i) == Selected(Types[i].owner, Types[i].base)

Lowering(primitive, enum) == [primitive |-> primitive, enum |-> enum]

Init ==
    /\ graph \in Graphs
    /\ stage = "declarations"
    /\ next = 1
    /\ stack = << >>
    /\ resolved = << >>
    /\ lowered = << >>

Fail(error) ==
    /\ stage' = error
    /\ UNCHANGED <<graph, next, stack, resolved, lowered>>

-----------------------------------------------------------------------------
AtDeclaration == stage = "declarations" /\ stack = << >> /\ next \in DOMAIN Types

RejectReserved ==
    /\ AtDeclaration
    /\ IsReserved(next)
    /\ Fail("reserved")

SkipResolved ==
    /\ AtDeclaration
    /\ ~IsReserved(next)
    /\ next \in DOMAIN resolved
    /\ next' = next + 1
    /\ UNCHANGED <<graph, stage, stack, resolved, lowered>>

Enter ==
    /\ AtDeclaration
    /\ ~IsReserved(next)
    /\ next \notin DOMAIN resolved
    /\ stack' = <<next>>
    /\ UNCHANGED <<graph, stage, next, resolved, lowered>>

Top == stack[Len(stack)]
Resolving == stage = "declarations" /\ stack # << >>
NeedsBase == Resolving /\ ~IsPrimitive(Types[Top].base)

RejectUnknownBase ==
    /\ NeedsBase
    /\ Bases(Top) = {}
    /\ Fail("unknown")

RejectAmbiguousBase ==
    /\ NeedsBase
    /\ Cardinality(Bases(Top)) > 1
    /\ Fail("ambiguous")

\* Mutant of RejectCycle: only a type that is its own base is noticed.
RejectSelfBase ==
    /\ NeedsBase
    /\ Bases(Top) = {Top}
    /\ Fail("cycle")

RejectCycle ==
    /\ NeedsBase
    /\ \E i \in Range(stack) : Bases(Top) = {i}
    /\ Fail("cycle")

Descend ==
    /\ NeedsBase
    /\ \E i \in DOMAIN Types \ (Range(stack) \union DOMAIN resolved) :
          /\ Bases(Top) = {i}
          /\ stack' = Append(stack, i)
    /\ UNCHANGED <<graph, stage, next, resolved, lowered>>

\* What the declaration on top inherits, once its base is resolved.
Inherited ==
    IF IsPrimitive(Types[Top].base) THEN {Lowering(Types[Top].base, {})}
    ELSE {resolved[i] : i \in {i \in DOMAIN resolved : Bases(Top) = {i}}}

Fits(value, primitive) == value \in Primitives[primitive].lo..Primitives[primitive].hi

RejectEnumBase ==
    /\ Resolving
    /\ \E base \in Inherited :
           /\ Types[Top].enum # {}
           /\ ~Primitives[base.primitive].integer
           /\ Fail("enum_base")

RejectEnumRange ==
    /\ Resolving
    /\ \E base \in Inherited :
           /\ Primitives[base.primitive].integer
           /\ \E value \in Types[Top].enum : ~Fits(value, base.primitive)
           /\ Fail("enum_range")

\* Mutant of FitsEnum: the range of the storage is not checked.
FitsAnyInteger(base) == Types[Top].enum # {} => Primitives[base.primitive].integer

FitsEnum(base) ==
    Types[Top].enum # {} =>
        /\ Primitives[base.primitive].integer
        /\ \A value \in Types[Top].enum : Fits(value, base.primitive)

\* A declaration without members of its own has those of its base.
EnumOn(base) == IF Types[Top].enum = {} THEN base.enum ELSE Types[Top].enum

LowerTop(lowering) ==
    /\ resolved' = [i \in DOMAIN resolved \union {Top} |->
                        IF i = Top THEN lowering ELSE resolved[i]]
    /\ stack' = SubSeq(stack, 1, Len(stack) - 1)
    /\ UNCHANGED <<graph, stage, next, lowered>>

\* Mutant of Lower: the members of the base are forgotten.
LowerWithoutMembers ==
    /\ Resolving
    /\ \E base \in Inherited :
          FitsEnum(base) /\ LowerTop(Lowering(base.primitive, Types[Top].enum))

Lower ==
    /\ Resolving
    /\ \E base \in Inherited :
          FitsEnum(base) /\ LowerTop(Lowering(base.primitive, EnumOn(base)))

StartUses ==
    /\ stage = "declarations"
    /\ stack = << >>
    /\ next \notin DOMAIN Types
    /\ stage' = "uses"
    /\ next' = 1
    /\ UNCHANGED <<graph, stack, resolved, lowered>>

-----------------------------------------------------------------------------
\* The types of variables, record fields and array items.
AtUse == stage = "uses" /\ next \in DOMAIN Uses
Meanings == Selected(Uses[next].owner, Uses[next].type)

\* Mutant of LowerUse: the first of several matches is taken.
LowerFirstMatch ==
    /\ AtUse
    /\ \/ /\ IsPrimitive(Uses[next].type)
          /\ lowered' = Append(lowered, Lowering(Uses[next].type, {}))
       \/ /\ ~IsPrimitive(Uses[next].type)
          /\ \E i \in DOMAIN resolved \intersect Meanings : lowered' = Append(lowered, resolved[i])
    /\ next' = next + 1
    /\ UNCHANGED <<graph, stage, stack, resolved>>

LowerUse ==
    /\ AtUse
    /\ \/ /\ IsPrimitive(Uses[next].type)
          /\ lowered' = Append(lowered, Lowering(Uses[next].type, {}))
       \/ /\ ~IsPrimitive(Uses[next].type)
          /\ \E i \in DOMAIN resolved :
                Meanings = {i} /\ lowered' = Append(lowered, resolved[i])
    /\ next' = next + 1
    /\ UNCHANGED <<graph, stage, stack, resolved>>

RejectUnknownUse ==
    /\ AtUse
    /\ ~IsPrimitive(Uses[next].type)
    /\ Meanings = {}
    /\ Fail("unknown_use")

RejectAmbiguousUse ==
    /\ AtUse
    /\ ~IsPrimitive(Uses[next].type)
    /\ Cardinality(Meanings) > 1
    /\ Fail("ambiguous_use")

Finish ==
    /\ stage = "uses"
    /\ next \notin DOMAIN Uses
    /\ stage' = "done"
    /\ UNCHANGED <<graph, next, stack, resolved, lowered>>

Next ==
    \/ RejectReserved
    \/ SkipResolved
    \/ Enter
    \/ RejectUnknownBase
    \/ RejectAmbiguousBase
    \/ RejectCycle
    \/ Descend
    \/ RejectEnumBase
    \/ RejectEnumRange
    \/ Lower
    \/ StartUses
    \/ LowerUse
    \/ RejectUnknownUse
    \/ RejectAmbiguousUse
    \/ Finish

Spec == Init /\ [][Next]_vars /\ WF_vars(Next)

-----------------------------------------------------------------------------
NeedsLookup(i) == ~IsPrimitive(Types[i].base)

HasItsBases(S) == \A j \in S : NeedsLookup(j) => Bases(j) \subseteq S

\* The declarations that lowering i passes through: those in every set that
\* has i and the bases of its members.
Chain(i) ==
    {k \in DOMAIN Types :
        \A S \in SUBSET DOMAIN Types : i \in S /\ k \notin S => ~HasItsBases(S)}

\* Every type is lowered to the primitive at the end of its chain, from
\* whichever declaration the recursion came to it, and an alias of an enum is
\* that enum, through any number of aliases.
LoweringFollowsBases ==
    \A i \in DOMAIN resolved :
        /\ \E j \in Chain(i) : Types[j].base = resolved[i].primitive
        /\ Types[i].enum = {} /\ NeedsLookup(i) =>
              \E j \in DOMAIN resolved : Bases(i) = {j} /\ resolved[i] = resolved[j]

\* Every enum has integer storage that holds all of its values, its own or
\* inherited through aliases and modules.
EnumsFitTheirStorage ==
    \A r \in Range(resolved) : r.enum # {} =>
        /\ Primitives[r.primitive].integer
        /\ \A value \in r.enum : Fits(value, r.primitive)

IsCyclic(i) == NeedsLookup(i) /\ \E k \in Bases(i) : i \in Chain(k)

\* What is wrong with a graph, by the error that tells of it.
Fault(error) ==
    \/ error = "reserved" /\ \E i \in DOMAIN Types : IsReserved(i)
    \/ error = "unknown" /\ \E i \in DOMAIN Types : NeedsLookup(i) /\ Bases(i) = {}
    \/ /\ error = "ambiguous"
       /\ \E i \in DOMAIN Types : NeedsLookup(i) /\ Cardinality(Bases(i)) > 1
    \/ error = "cycle" /\ \E i \in DOMAIN Types : IsCyclic(i)
    \/ /\ error = "enum_base"
       /\ \E i \in DOMAIN Types : Types[i].enum # {} /\
             \E j \in Chain(i) : ~NeedsLookup(j) /\ ~Primitives[Types[j].base].integer
    \/ /\ error = "enum_range"
       /\ \E i \in DOMAIN Types : \E j \in Chain(i), value \in Types[i].enum :
             /\ ~NeedsLookup(j) /\ Primitives[Types[j].base].integer
             /\ ~Fits(value, Types[j].base)
    \/ /\ error = "unknown_use"
       /\ \E u \in Range(Uses) : ~IsPrimitive(u.type) /\ Selected(u.owner, u.type) = {}
    \/ /\ error = "ambiguous_use"
       /\ \E u \in Range(Uses) :
             ~IsPrimitive(u.type) /\ Cardinality(Selected(u.owner, u.type)) > 1

\* A graph is accepted if and only if nothing in it is at fault, unused
\* declarations included, and a refusal names a fault that the graph has.
ResolvesExactlySoundGraphs ==
    /\ stage = "done" => /\ \A e \in Errors : ~Fault(e)
                         /\ DOMAIN resolved = DOMAIN Types
    /\ stage \in Errors => Fault(stage)

\* The recursion ends, whatever the declarations.
Terminates == <>(stage \in {"done"} \union Errors)
=============================================================================
