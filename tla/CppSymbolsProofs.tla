-------------------------- MODULE CppSymbolsProofs --------------------------
(***************************************************************************)
(* The resolver lowers every declaration of a sound graph, and refuses any *)
(* other graph for a fault that it has, whatever the types and aliases.    *)
(* The header has the enums that the resolver chose, whatever the names of *)
(* types and modules are, and is refused only for its names.               *)
(*                                                                         *)
(* The first part is about the resolver alone; the second carries what its *)
(* last state says into the header.                                        *)
(***************************************************************************)
EXTENDS CppSymbols, TLAPS, SequenceTheorems, FiniteSetTheorems

Enums == {{}} \union {Types[i].enum : i \in DOMAIN Types}

Lowerings == [primitive : DOMAIN Primitives, enum : Enums]

TypeInv ==
    /\ graph \in Graphs
    /\ stage \in {"declarations", "uses", "done"} \union Errors
    /\ next \in Nat \ {0}
    /\ stack \in Seq(DOMAIN Types)
    /\ resolved \in [DOMAIN resolved -> Lowerings]
    /\ DOMAIN resolved \subseteq DOMAIN Types
    /\ lowered \in Seq(Lowerings)

\* The recursion is in the chain of each declaration that it is resolving, and
\* has come to none of them twice.
PathInv ==
    /\ \A m \in DOMAIN stack : stack[m] \notin DOMAIN resolved
    /\ \A m, n \in DOMAIN stack : m < n => stack[m] # stack[n]
    /\ \A m, n \in DOMAIN stack : m <= n => stack[n] \in Chain(stack[m])

\* A resolved declaration has one base, resolved before it, or is a primitive.
BasesInv ==
    \A i \in DOMAIN resolved : NeedsLookup(i) =>
        \E j \in DOMAIN resolved :
            /\ Bases(i) = {j}
            /\ i \notin Chain(j)
            /\ Types[i].enum = {} => resolved[i] = resolved[j]

\* The one primitive in the chain of a declaration is what it is lowered to.
PrimitiveInv ==
    \A i \in DOMAIN resolved :
        /\ \E j \in Chain(i) : Types[j].base = resolved[i].primitive
        /\ \A j \in Chain(i) : ~NeedsLookup(j) => Types[j].base = resolved[i].primitive

\* The members of an enum are its own, if it has any, and its storage fits.
EnumInv ==
    \A i \in DOMAIN resolved :
        /\ Types[i].enum # {} => resolved[i].enum = Types[i].enum
        /\ resolved[i].enum # {} =>
              /\ Primitives[resolved[i].primitive].integer
              /\ \A value \in resolved[i].enum : Fits(value, resolved[i].primitive)

Accepted(i) == ~IsReserved(i) /\ i \in DOMAIN resolved

\* What a use is lowered to.
Denotes(use, lowering) ==
    IF IsPrimitive(use.type) THEN lowering = Lowering(use.type, {})
    ELSE \E i \in DOMAIN resolved :
             Selected(use.owner, use.type) = {i} /\ lowering = resolved[i]

\* What the loop over declarations has left behind is accepted, and so is what
\* the loop over uses has.
LoopInv ==
    /\ stage = "declarations" => \A i \in DOMAIN Types : i < next => Accepted(i)
    /\ stage \in {"uses", "done"} => \A i \in DOMAIN Types : Accepted(i)

UsesInv ==
    /\ stage = "declarations" => lowered = << >>
    /\ stage = "uses" => next = Len(lowered) + 1 /\ DOMAIN lowered \subseteq DOMAIN Uses
    /\ stage = "done" => DOMAIN lowered = DOMAIN Uses
    /\ \A k \in DOMAIN lowered : Denotes(Uses[k], lowered[k])

ErrorInv == stage \in Errors => Fault(stage)

Inv ==
    /\ TypeInv
    /\ PathInv
    /\ BasesInv
    /\ PrimitiveInv
    /\ EnumInv
    /\ LoopInv
    /\ UsesInv
    /\ ErrorInv

-----------------------------------------------------------------------------
LEMMA GraphType ==
    ASSUME TypeInv
    PROVE  /\ Len(Types) \in Nat /\ DOMAIN Types = 1..Len(Types)
           /\ Len(Uses) \in Nat /\ DOMAIN Uses = 1..Len(Uses)
<1>1. Types \in Seq(Range(Types)) /\ Uses \in Seq(Range(Uses))
    BY GraphsAssumption DEF TypeInv, Types, Uses
<1>2. QED
    BY <1>1

\* The declarations that a name may mean are declarations of the graph.
LEMMA BasesAreTypes ==
    ASSUME NEW owner, NEW name
    PROVE  Selected(owner, name) \subseteq DOMAIN Types
BY DEF Selected, Local, VisibleTypes

\* So there are finitely many, and one if not none and not several.
LEMMA OneOrSeveral ==
    ASSUME TypeInv, NEW owner, NEW name
    PROVE  LET S == Selected(owner, name)
           IN  /\ S = {} \/ Cardinality(S) > 1 \/ \E i \in S : S = {i}
               /\ \A i : S = {i} => ~(Cardinality(S) > 1)
<1> DEFINE S == Selected(owner, name)
<1>1. IsFiniteSet(DOMAIN Types)
    BY GraphType, FS_Interval
<1>2. IsFiniteSet(S)
    BY <1>1, BasesAreTypes, FS_Subset
<1>3. Cardinality(S) \in Nat /\ (Cardinality(S) = 0 <=> S = {})
    BY <1>2, FS_CardinalityType, FS_EmptySet
<1>4. Cardinality(S) = 1 <=> \E i : S = {i}
    BY <1>2, FS_Singleton
<1> HIDE DEF S
<1>5. S = {} \/ Cardinality(S) > 1 \/ \E i \in S : S = {i}
    BY <1>3, <1>4
<1>6. ASSUME NEW i, S = {i}
      PROVE  ~(Cardinality(S) > 1)
    BY <1>3, <1>4, <1>6
<1>7. QED
    BY <1>5, <1>6 DEF S

-----------------------------------------------------------------------------
\* The chain of a declaration, by the facts that the proofs use: it has the
\* declaration, it has the bases of its members, and it is the least such set.

LEMMA ChainHasItsBases ==
    ASSUME NEW i \in DOMAIN Types
    PROVE  /\ i \in Chain(i) /\ Chain(i) \subseteq DOMAIN Types
           /\ HasItsBases(Chain(i))
<1>1. i \in Chain(i) /\ Chain(i) \subseteq DOMAIN Types
    BY DEF Chain
<1>2. ASSUME NEW j \in Chain(i), NeedsLookup(j), NEW k \in Bases(j)
      PROVE  k \in Chain(i)
    <2>1. k \in DOMAIN Types
        BY BasesAreTypes, <1>2 DEF Bases
    <2>2. ASSUME NEW S \in SUBSET DOMAIN Types, i \in S, k \notin S, HasItsBases(S)
          PROVE  FALSE
        <3>1. j \in S
            BY <2>2 DEF Chain
        <3>2. QED
            BY <1>2, <2>2, <3>1 DEF HasItsBases
    <2>3. QED
        BY <2>1, <2>2 DEF Chain
<1>3. QED
    BY <1>1, <1>2 DEF HasItsBases

LEMMA ChainIsLeast ==
    ASSUME NEW i, NEW S, S \subseteq DOMAIN Types, i \in S, HasItsBases(S)
    PROVE  Chain(i) \subseteq S
BY DEF Chain

\* A chain is its first declaration and the chain of the base of that.
LEMMA ChainOfBase ==
    ASSUME NEW i \in DOMAIN Types, NEW j \in DOMAIN Types, NeedsLookup(i), Bases(i) = {j}
    PROVE  Chain(i) = {i} \union Chain(j)
<1>1. HasItsBases(Chain(i)) /\ i \in Chain(i) /\ Chain(i) \subseteq DOMAIN Types
    BY ChainHasItsBases
<1>2. HasItsBases(Chain(j)) /\ j \in Chain(j) /\ Chain(j) \subseteq DOMAIN Types
    BY ChainHasItsBases
<1>3. Chain(j) \subseteq Chain(i)
    <2>1. j \in Chain(i)
        BY <1>1 DEF HasItsBases
    <2>2. QED
        BY <1>1, <2>1, ChainIsLeast
<1>4. Chain(i) \subseteq {i} \union Chain(j)
    <2>1. HasItsBases({i} \union Chain(j))
        BY <1>2 DEF HasItsBases
    <2>2. QED
        BY <1>2, <2>1, ChainIsLeast
<1>5. QED
    BY <1>1, <1>3, <1>4

\* A declaration whose base is a primitive is a chain by itself.
LEMMA ChainOfPrimitive ==
    ASSUME NEW i \in DOMAIN Types, ~NeedsLookup(i)
    PROVE  Chain(i) = {i}
<1>1. HasItsBases({i})
    BY DEF HasItsBases
<1>2. QED
    BY <1>1, ChainIsLeast, ChainHasItsBases

-----------------------------------------------------------------------------
\* What depends on the graph alone is the same after every step.
LEMMA SameGraph ==
    ASSUME graph' = graph
    PROVE  /\ Types' = Types /\ Uses' = Uses /\ Lowerings' = Lowerings
           /\ \A owner, name : Selected(owner, name)' = Selected(owner, name)
           /\ \A i : /\ Bases(i)' = Bases(i) /\ Chain(i)' = Chain(i)
                     /\ NeedsLookup(i)' = NeedsLookup(i) /\ IsReserved(i)' = IsReserved(i)
           /\ \A e : Fault(e)' = Fault(e)
<1>1. Types' = Types /\ Uses' = Uses
    BY DEF Types, Uses
<1>2. Lowerings' = Lowerings
    BY <1>1 DEF Lowerings, Enums
<1>3. \A owner, name : Selected(owner, name)' = Selected(owner, name)
    BY <1>1 DEF Selected, Local, VisibleTypes
<1>4. \A i : /\ Bases(i)' = Bases(i) /\ NeedsLookup(i)' = NeedsLookup(i)
             /\ IsReserved(i)' = IsReserved(i)
    BY <1>1, <1>3 DEF Bases, NeedsLookup, IsReserved
<1>5. \A S : HasItsBases(S)' = HasItsBases(S)
    BY <1>4 DEF HasItsBases
<1>6. \A i : Chain(i)' = Chain(i)
    BY <1>1, <1>5 DEF Chain
<1>7. \A e : Fault(e)' = Fault(e)
    BY <1>1, <1>3, <1>4, <1>6 DEF Fault, IsCyclic
<1>8. QED
    BY <1>1, <1>2, <1>3, <1>4, <1>6, <1>7

\* The facts on what is resolved are about nothing else.
LEMMA ResolvedKeeps ==
    ASSUME Inv, graph' = graph, resolved' = resolved
    PROVE  BasesInv' /\ PrimitiveInv' /\ EnumInv'
BY SameGraph DEF Inv, BasesInv, PrimitiveInv, EnumInv

LEMMA StackKeeps ==
    ASSUME Inv, graph' = graph, resolved' = resolved, stack' = stack
    PROVE  PathInv' /\ BasesInv' /\ PrimitiveInv' /\ EnumInv'
<1>1. PathInv'
    BY SameGraph DEF Inv, PathInv
<1>2. QED
    BY <1>1, ResolvedKeeps

\* A use that is accepted stays so while what is resolved stays.
LEMMA DenotesStays ==
    ASSUME graph' = graph, DOMAIN resolved \subseteq DOMAIN resolved',
           \A i \in DOMAIN resolved : resolved'[i] = resolved[i],
           NEW use, NEW lowering, Denotes(use, lowering)
    PROVE  Denotes(use, lowering)'
<1>1. CASE IsPrimitive(use.type)
    BY <1>1 DEF Denotes, IsPrimitive, Lowering
<1>2. CASE ~IsPrimitive(use.type)
    <2>1. PICK i \in DOMAIN resolved : Selected(use.owner, use.type) = {i} /\ lowering = resolved[i]
        BY <1>2 DEF Denotes
    <2>2. Selected(use.owner, use.type)' = {i}
        BY <2>1, SameGraph
    <2>3. QED
        BY <1>2, <2>1, <2>2 DEF Denotes, IsPrimitive
<1>3. QED
    BY <1>1, <1>2

LEMMA UsesKeep ==
    ASSUME UsesInv, graph' = graph, lowered' = lowered,
           \/ stage' \in Errors
           \/ stage' = stage /\ (next' = next \/ stage = "declarations"),
           DOMAIN resolved \subseteq DOMAIN resolved',
           \A i \in DOMAIN resolved : resolved'[i] = resolved[i]
    PROVE  UsesInv'
<1>1. \A k \in DOMAIN lowered : Denotes(Uses[k], lowered[k])'
    BY DenotesStays, SameGraph DEF UsesInv
<1>2. QED
    BY <1>1, SameGraph DEF UsesInv, Errors

\* A refusal changes nothing else, so it keeps the invariant when there is a
\* fault to refuse.
LEMMA FailKeeps ==
    ASSUME Inv, NEW e \in Errors, Fail(e), Fault(e)
    PROVE  Inv'
<1>0. /\ graph' = graph /\ stage' = e /\ next' = next /\ stack' = stack
      /\ resolved' = resolved /\ lowered' = lowered
    BY DEF Fail
<1>1. TypeInv'
    BY <1>0, SameGraph DEF Inv, TypeInv
<1>2. PathInv' /\ BasesInv' /\ PrimitiveInv' /\ EnumInv'
    BY <1>0, StackKeeps
<1>3. LoopInv' /\ UsesInv'
    BY <1>0, UsesKeep DEF Inv, LoopInv, Errors
<1>4. ErrorInv'
    BY <1>0, SameGraph DEF ErrorInv
<1>5. QED
    BY <1>1, <1>2, <1>3, <1>4 DEF Inv

LEMMA TopType ==
    ASSUME TypeInv, stack # << >>
    PROVE  /\ Len(stack) \in DOMAIN stack
           /\ Top \in DOMAIN Types
           /\ \A m \in DOMAIN stack : m \in 1..Len(stack) /\ m <= Len(stack)
           /\ Len(stack) \in Nat /\ DOMAIN stack = 1..Len(stack)
BY DEF TypeInv, Top

-----------------------------------------------------------------------------
\* What the declaration on top inherits ends its chain.
LEMMA InheritedEndsChain ==
    ASSUME Inv, Resolving, NEW base \in Inherited
    PROVE  /\ base \in Lowerings
           /\ \E j \in Chain(Top) : Types[j].base = base.primitive
           /\ \A j \in Chain(Top) : ~NeedsLookup(j) => Types[j].base = base.primitive
           /\ base.enum # {} =>
                 /\ Primitives[base.primitive].integer
                 /\ \A value \in base.enum : Fits(value, base.primitive)
           /\ IF NeedsLookup(Top)
              THEN \E i \in DOMAIN resolved : Bases(Top) = {i} /\ base = resolved[i]
              ELSE base = Lowering(Types[Top].base, {})
<1>1. Top \in DOMAIN Types
    BY TopType DEF Inv, Resolving
<1>2. CASE ~NeedsLookup(Top)
    <2>1. base = Lowering(Types[Top].base, {}) /\ IsPrimitive(Types[Top].base)
        BY <1>2 DEF Inherited, NeedsLookup
    <2>2. base \in Lowerings /\ base.primitive = Types[Top].base /\ base.enum = {}
        BY <2>1 DEF Lowering, Lowerings, Enums, IsPrimitive
    <2>3. Chain(Top) = {Top}
        BY <1>1, <1>2, ChainOfPrimitive
    <2>4. QED
        BY <1>2, <2>1, <2>2, <2>3
<1>3. CASE NeedsLookup(Top)
    <2>1. PICK i \in DOMAIN resolved : Bases(Top) = {i} /\ base = resolved[i]
        BY <1>3 DEF Inherited, NeedsLookup
    <2>2. base \in Lowerings /\ i \in DOMAIN Types
        BY <2>1 DEF Inv, TypeInv
    <2>3. Chain(Top) = {Top} \union Chain(i)
        BY <1>1, <1>3, <2>1, <2>2, ChainOfBase
    <2>4. /\ \E j \in Chain(i) : Types[j].base = base.primitive
          /\ \A j \in Chain(i) : ~NeedsLookup(j) => Types[j].base = base.primitive
        BY <2>1 DEF Inv, PrimitiveInv
    <2>5. base.enum # {} =>
              /\ Primitives[base.primitive].integer
              /\ \A value \in base.enum : Fits(value, base.primitive)
        BY <2>1 DEF Inv, EnumInv
    <2>6. QED
        BY <1>3, <2>1, <2>2, <2>3, <2>4, <2>5
<1>4. QED
    BY <1>2, <1>3

\* Every refusal is for a fault of the graph.

LEMMA RefusesFaultyDeclarations ==
    ASSUME Inv
    PROVE  /\ RejectReserved => Fault("reserved")
           /\ RejectUnknownBase => Fault("unknown")
           /\ RejectAmbiguousBase => Fault("ambiguous")
<1>1. RejectReserved => Fault("reserved")
    BY DEF RejectReserved, AtDeclaration, Fault
<1>2. NeedsBase => Top \in DOMAIN Types /\ NeedsLookup(Top)
    BY TopType DEF Inv, NeedsBase, Resolving, NeedsLookup
<1>3. RejectUnknownBase => Fault("unknown")
    BY <1>2 DEF RejectUnknownBase, Fault
<1>4. RejectAmbiguousBase => Fault("ambiguous")
    BY <1>2 DEF RejectAmbiguousBase, Fault
<1>5. QED
    BY <1>1, <1>3, <1>4

\* A base that is being resolved has the top in its chain.
LEMMA RefusesCycles ==
    ASSUME Inv, RejectCycle
    PROVE  Fault("cycle")
<1>1. stack # << >> /\ NeedsLookup(Top)
    BY DEF RejectCycle, NeedsBase, Resolving, NeedsLookup
<1>2. PICK i \in Range(stack) : Bases(Top) = {i}
    BY DEF RejectCycle
<1>3. PICK m \in DOMAIN stack : i = stack[m]
    BY DEF Range
<1>4. Top \in Chain(i)
    BY <1>1, <1>3, TopType DEF Inv, PathInv, Top
<1>5. IsCyclic(Top)
    BY <1>1, <1>2, <1>4 DEF IsCyclic
<1>6. QED
    BY <1>1, <1>5, TopType DEF Fault, Inv

LEMMA RefusesMisfitEnums ==
    ASSUME Inv
    PROVE  /\ RejectEnumBase => Fault("enum_base")
           /\ RejectEnumRange => Fault("enum_range")
<1>1. ASSUME Resolving, NEW base \in Inherited
      PROVE  /\ Top \in DOMAIN Types
             /\ \E j \in Chain(Top) : ~NeedsLookup(j) /\ Types[j].base = base.primitive
    BY <1>1, InheritedEndsChain, TopType DEF Inv, Resolving, Lowerings, NeedsLookup, IsPrimitive
<1>2. RejectEnumBase => Fault("enum_base")
    BY <1>1 DEF RejectEnumBase, Fault
<1>3. RejectEnumRange => Fault("enum_range")
    BY <1>1 DEF RejectEnumRange, Fault
<1>4. QED
    BY <1>2, <1>3

LEMMA RefusesFaultyUses ==
    ASSUME Inv
    PROVE  /\ RejectUnknownUse => Fault("unknown_use")
           /\ RejectAmbiguousUse => Fault("ambiguous_use")
<1>1. AtUse => Uses[next] \in Range(Uses)
    BY DEF AtUse, Range
<1>2. RejectUnknownUse => Fault("unknown_use")
    BY <1>1 DEF RejectUnknownUse, Meanings, Fault
<1>3. RejectAmbiguousUse => Fault("ambiguous_use")
    BY <1>1 DEF RejectAmbiguousUse, Meanings, Fault
<1>4. QED
    BY <1>2, <1>3

-----------------------------------------------------------------------------
\* The initial states, and the steps of the loop over declarations.

LEMMA InitInv == Init => Inv
<1> SUFFICES ASSUME Init PROVE Inv
    OBVIOUS
<1> USE DEF Init
<1>1. TypeInv
    BY DEF TypeInv
<1>2. PathInv
    BY DEF PathInv
<1>3. BasesInv /\ PrimitiveInv /\ EnumInv
    BY DEF BasesInv, PrimitiveInv, EnumInv
<1>4. LoopInv /\ UsesInv
    BY GraphType, <1>1 DEF LoopInv, UsesInv
<1>5. ErrorInv
    BY DEF ErrorInv, Errors
<1>6. QED
    BY <1>1, <1>2, <1>3, <1>4, <1>5 DEF Inv

LEMMA SkipKeeps ==
    ASSUME Inv, SkipResolved
    PROVE  Inv'
<1>0. /\ graph' = graph /\ stage' = stage /\ next' = next + 1 /\ stack' = stack
      /\ resolved' = resolved /\ lowered' = lowered /\ stage = "declarations"
    BY DEF SkipResolved, AtDeclaration
<1>1. TypeInv'
    BY <1>0, SameGraph DEF Inv, TypeInv
<1>2. PathInv' /\ BasesInv' /\ PrimitiveInv' /\ EnumInv'
    BY <1>0, StackKeeps
<1>3. LoopInv'
    <2>1. \A i \in DOMAIN Types : i < next => Accepted(i)
        BY <1>0 DEF Inv, LoopInv
    <2>2. Accepted(next)
        BY DEF SkipResolved, Accepted
    <2>3. \A i \in DOMAIN Types : i < next + 1 => Accepted(i)
        BY <2>1, <2>2, GraphType DEF Inv, TypeInv
    <2>4. QED
        BY <1>0, <2>3, SameGraph DEF LoopInv, Accepted
<1>4. ErrorInv'
    BY <1>0 DEF ErrorInv, Errors
<1>5. UsesInv'
    BY <1>0, UsesKeep DEF Inv
<1>6. QED
    BY <1>1, <1>2, <1>3, <1>4, <1>5 DEF Inv

LEMMA EnterKeeps ==
    ASSUME Inv, Enter
    PROVE  Inv'
<1>0. /\ graph' = graph /\ stage' = stage /\ next' = next /\ stack' = <<next>>
      /\ resolved' = resolved /\ lowered' = lowered /\ stage = "declarations"
      /\ next \in DOMAIN Types /\ next \notin DOMAIN resolved
    BY DEF Enter, AtDeclaration
<1>1. TypeInv'
    BY <1>0, SameGraph DEF Inv, TypeInv
<1>2. PathInv'
    <2>1. next \in Chain(next)
        BY <1>0, ChainHasItsBases
    <2>2. DOMAIN stack' = {1} /\ stack'[1] = next
        BY <1>0
    <2>3. QED
        BY <1>0, <2>1, <2>2, SameGraph DEF PathInv
<1>3. BasesInv' /\ PrimitiveInv' /\ EnumInv'
    BY <1>0, ResolvedKeeps
<1>4. LoopInv'
    BY <1>0, SameGraph DEF Inv, LoopInv, Accepted
<1>5. ErrorInv'
    BY <1>0 DEF ErrorInv, Errors
<1>6. UsesInv'
    BY <1>0, UsesKeep DEF Inv
<1>7. QED
    BY <1>1, <1>2, <1>3, <1>4, <1>5, <1>6 DEF Inv

LEMMA DescendKeeps ==
    ASSUME Inv, Descend
    PROVE  Inv'
<1>0. /\ graph' = graph /\ stage' = stage /\ next' = next
      /\ resolved' = resolved /\ lowered' = lowered /\ stage = "declarations"
      /\ stack # << >> /\ NeedsLookup(Top)
    BY DEF Descend, NeedsBase, Resolving, NeedsLookup
<1>1. PICK i \in DOMAIN Types \ (Range(stack) \union DOMAIN resolved) :
          Bases(Top) = {i} /\ stack' = Append(stack, i)
    BY DEF Descend
<1>2. TypeInv'
    BY <1>0, <1>1, SameGraph DEF Inv, TypeInv
<1>3. PathInv'
    <2>1. /\ DOMAIN stack' = DOMAIN stack \union {Len(stack) + 1}
          /\ \A m \in DOMAIN stack : stack'[m] = stack[m] /\ m <= Len(stack)
          /\ stack'[Len(stack) + 1] = i
          /\ Len(stack) \in Nat /\ DOMAIN stack \subseteq Nat
        BY <1>1 DEF Inv, TypeInv
    <2>2. \A m \in DOMAIN stack : i \in Chain(stack[m])
        <3>1. ASSUME NEW m \in DOMAIN stack
              PROVE  i \in Chain(stack[m])
            <4>1. Top \in Chain(stack[m])
                BY <1>0, TopType DEF Inv, PathInv, Top
            <4>2. HasItsBases(Chain(stack[m]))
                BY ChainHasItsBases DEF Inv, TypeInv
            <4>3. QED
                BY <1>0, <1>1, <4>1, <4>2 DEF HasItsBases
        <3>2. QED
            BY <3>1
    <2>3. i \in Chain(i) /\ i \notin DOMAIN resolved
        BY <1>1, ChainHasItsBases
    <2>4. \A m \in DOMAIN stack' : stack'[m] \notin DOMAIN resolved'
        BY <1>0, <2>1, <2>3 DEF Inv, PathInv
    <2>5. \A m \in DOMAIN stack : stack[m] # i
        BY <1>1 DEF Range
    <2>6. \A m, n \in DOMAIN stack' : m < n => stack'[m] # stack'[n]
        BY <2>1, <2>5 DEF Inv, PathInv
    <2>7. \A m, n \in DOMAIN stack' : m <= n => stack'[n] \in Chain(stack'[m])
        BY <2>1, <2>2, <2>3 DEF Inv, PathInv
    <2>8. QED
        BY <1>0, <2>4, <2>6, <2>7, SameGraph DEF PathInv
<1>4. BasesInv' /\ PrimitiveInv' /\ EnumInv'
    BY <1>0, ResolvedKeeps
<1>5. LoopInv'
    BY <1>0, SameGraph DEF Inv, LoopInv, Accepted
<1>6. ErrorInv'
    BY <1>0 DEF ErrorInv, Errors
<1>7. UsesInv'
    BY <1>0, UsesKeep DEF Inv
<1>8. QED
    BY <1>2, <1>3, <1>4, <1>5, <1>6, <1>7 DEF Inv

-----------------------------------------------------------------------------
\* The bases of what is resolved are resolved, and so are whole chains: the
\* declaration on top is in none of them.
LEMMA ResolvedIsClosed ==
    ASSUME Inv, NEW i, i \in DOMAIN resolved
    PROVE  Chain(i) \subseteq DOMAIN resolved
<1>1. HasItsBases(DOMAIN resolved)
    BY DEF Inv, BasesInv, HasItsBases
<1>2. DOMAIN resolved \subseteq DOMAIN Types
    BY DEF Inv, TypeInv
<1>3. QED
    BY <1>1, <1>2, ChainIsLeast

LEMMA PopKeepsPath ==
    ASSUME Inv, stack # << >>, graph' = graph,
           stack' = SubSeq(stack, 1, Len(stack) - 1),
           DOMAIN resolved' = DOMAIN resolved \union {Top}
    PROVE  PathInv' /\ stack' \in Seq(DOMAIN Types) /\ Top \notin DOMAIN resolved
<1>1. /\ stack \in Seq(DOMAIN Types) /\ Len(stack) \in Nat \ {0}
      /\ DOMAIN stack = 1..Len(stack)
    BY DEF Inv, TypeInv
<1>2. /\ stack' \in Seq(DOMAIN Types)
      /\ DOMAIN stack' = 1..(Len(stack) - 1)
      /\ \A m \in DOMAIN stack' : stack'[m] = stack[m] /\ m \in DOMAIN stack /\ m < Len(stack)
    BY <1>1
<1>3. Top \notin DOMAIN resolved
    BY <1>1 DEF Inv, PathInv, Top
<1>4. \A m \in DOMAIN stack' : stack'[m] # Top
    BY <1>1, <1>2 DEF Inv, PathInv, Top
<1>5. \A m \in DOMAIN stack' : stack'[m] \notin DOMAIN resolved'
    BY <1>2, <1>4 DEF Inv, PathInv
<1>6. /\ \A m, n \in DOMAIN stack' : m < n => stack'[m] # stack'[n]
      /\ \A m, n \in DOMAIN stack' : m <= n => stack'[n] \in Chain(stack'[m])
    BY <1>2 DEF Inv, PathInv
<1>7. PathInv'
    BY <1>5, <1>6, SameGraph DEF PathInv
<1>8. QED
    BY <1>2, <1>3, <1>7

\* The lowering of the top is its own, and that of no other changes.
LEMMA LowerKeeps ==
    ASSUME Inv, Lower
    PROVE  Inv'
<1>0. /\ graph' = graph /\ stage' = stage /\ next' = next /\ lowered' = lowered
      /\ stage = "declarations" /\ stack # << >>
    BY DEF Lower, LowerTop, Resolving
<1>1. PICK base \in Inherited :
          FitsEnum(base) /\ LowerTop(Lowering(base.primitive, EnumOn(base)))
    BY DEF Lower
<1> DEFINE lowering == Lowering(base.primitive, EnumOn(base))
<1>2. PICK t : t = Top
    OBVIOUS
<1>3. /\ t \in DOMAIN Types /\ t \notin DOMAIN resolved
      /\ DOMAIN resolved' = DOMAIN resolved \union {t}
      /\ resolved'[t] = lowering
      /\ \A i \in DOMAIN resolved : resolved'[i] = resolved[i]
      /\ resolved' = [i \in DOMAIN resolved \union {t} |-> resolved'[i]]
    BY <1>0, <1>1, <1>2, TopType, PopKeepsPath DEF LowerTop, Inv
<1>4. PathInv' /\ stack' \in Seq(DOMAIN Types)
    BY <1>0, <1>1, <1>2, <1>3, PopKeepsPath DEF LowerTop
<1>5. /\ base \in Lowerings
      /\ \E j \in Chain(t) : Types[j].base = base.primitive
      /\ \A j \in Chain(t) : ~NeedsLookup(j) => Types[j].base = base.primitive
      /\ base.enum # {} =>
            /\ Primitives[base.primitive].integer
            /\ \A value \in base.enum : Fits(value, base.primitive)
      /\ NeedsLookup(t) => \E i \in DOMAIN resolved : Bases(t) = {i} /\ base = resolved[i]
    BY <1>1, <1>2, InheritedEndsChain DEF Lower
<1>6. /\ lowering \in Lowerings /\ lowering.primitive = base.primitive
      /\ Types[t].enum # {} => lowering.enum = Types[t].enum
      /\ Types[t].enum = {} => lowering.enum = base.enum /\ lowering = base
    BY <1>2, <1>3, <1>5 DEF Lowering, Lowerings, Enums, EnumOn
<1>7. lowering.enum # {} =>
          /\ Primitives[lowering.primitive].integer
          /\ \A value \in lowering.enum : Fits(value, lowering.primitive)
    BY <1>1, <1>2, <1>5, <1>6 DEF FitsEnum
<1> HIDE DEF lowering
<1>8. TypeInv'
    <2>1. \A i \in DOMAIN resolved' : resolved'[i] \in Lowerings
        BY <1>3, <1>6 DEF Inv, TypeInv
    <2>2. resolved' \in [DOMAIN resolved' -> Lowerings]
        BY <1>3, <2>1
    <2>3. QED
        BY <1>0, <1>3, <1>4, <2>2, SameGraph DEF Inv, TypeInv
<1>9. BasesInv'
    <2>1. ASSUME NeedsLookup(t)
          PROVE  \E j \in DOMAIN resolved : /\ Bases(t) = {j} /\ t \notin Chain(j)
                                            /\ Types[t].enum = {} => lowering = resolved[j]
        <3>1. PICK j \in DOMAIN resolved : Bases(t) = {j} /\ base = resolved[j]
            BY <1>5, <2>1
        <3>2. t \notin Chain(j)
            BY <1>3, ResolvedIsClosed
        <3>3. QED
            BY <1>6, <3>1, <3>2
    <2>2. ASSUME NEW i \in DOMAIN resolved', NeedsLookup(i)
          PROVE  \E j \in DOMAIN resolved' : /\ Bases(i) = {j} /\ i \notin Chain(j)
                                             /\ Types[i].enum = {} => resolved'[i] = resolved'[j]
        BY <1>3, <2>1, <2>2 DEF Inv, BasesInv
    <2>3. QED
        BY <1>0, <2>2, SameGraph DEF BasesInv
<1>10. PrimitiveInv'
    <2>1. ASSUME NEW i \in DOMAIN resolved'
          PROVE  /\ \E j \in Chain(i) : Types[j].base = resolved'[i].primitive
                 /\ \A j \in Chain(i) : ~NeedsLookup(j) => Types[j].base = resolved'[i].primitive
        BY <1>3, <1>5, <1>6 DEF Inv, PrimitiveInv
    <2>2. QED
        BY <1>0, <2>1, SameGraph DEF PrimitiveInv
<1>11. EnumInv'
    <2>1. ASSUME NEW i \in DOMAIN resolved'
          PROVE  /\ Types[i].enum # {} => resolved'[i].enum = Types[i].enum
                 /\ resolved'[i].enum # {} =>
                       /\ Primitives[resolved'[i].primitive].integer
                       /\ \A value \in resolved'[i].enum : Fits(value, resolved'[i].primitive)
        BY <1>3, <1>6, <1>7 DEF Inv, EnumInv
    <2>2. QED
        BY <1>0, <2>1, SameGraph DEF EnumInv, Fits
<1>12. LoopInv'
    BY <1>0, <1>3, SameGraph DEF Inv, LoopInv, Accepted
<1>13. ErrorInv'
    BY <1>0 DEF ErrorInv, Errors
<1>14. UsesInv'
    BY <1>0, <1>3, UsesKeep DEF Inv
<1>15. QED
    BY <1>4, <1>8, <1>9, <1>10, <1>11, <1>12, <1>13, <1>14 DEF Inv

-----------------------------------------------------------------------------
\* The loop over uses.

LEMMA StartUsesKeeps ==
    ASSUME Inv, StartUses
    PROVE  Inv'
<1>0. /\ graph' = graph /\ stage' = "uses" /\ next' = 1 /\ stack' = stack
      /\ resolved' = resolved /\ lowered' = lowered
      /\ stage = "declarations" /\ next \notin DOMAIN Types
    BY DEF StartUses
<1>1. TypeInv'
    BY <1>0, SameGraph DEF Inv, TypeInv
<1>2. PathInv' /\ BasesInv' /\ PrimitiveInv' /\ EnumInv'
    BY <1>0, StackKeeps
<1>3. LoopInv'
    <2>1. \A i \in DOMAIN Types : i < next
        BY <1>0, GraphType DEF Inv, TypeInv
    <2>2. \A i \in DOMAIN Types : Accepted(i)
        BY <1>0, <2>1 DEF Inv, LoopInv
    <2>3. QED
        BY <1>0, <2>2, SameGraph DEF LoopInv, Accepted
<1>4. ErrorInv'
    BY <1>0 DEF ErrorInv, Errors
<1>5. UsesInv'
    <2>1. lowered = << >> /\ \A k \in DOMAIN Uses : ~(k < 1)
        BY <1>0, GraphType DEF Inv, UsesInv
    <2>2. QED
        BY <1>0, <2>1 DEF UsesInv
<1>6. QED
    BY <1>1, <1>2, <1>3, <1>4, <1>5 DEF Inv

LEMMA LowerUseKeeps ==
    ASSUME Inv, LowerUse
    PROVE  Inv'
<1>0. /\ graph' = graph /\ stage' = stage /\ next' = next + 1 /\ stack' = stack
      /\ resolved' = resolved /\ stage = "uses" /\ next \in DOMAIN Uses
    BY DEF LowerUse, AtUse
<1>a. PICK lowering : lowered' = Append(lowered, lowering) /\ Denotes(Uses[next], lowering)
    BY DEF LowerUse, Meanings, Denotes
<1>b. lowering \in Lowerings
    BY <1>a DEF Inv, TypeInv, Denotes, Lowering, Lowerings, Enums, IsPrimitive
<1>1. TypeInv'
    <2>1. lowered' \in Seq(Lowerings)
        BY <1>a, <1>b DEF Inv, TypeInv
    <2>2. QED
        BY <1>0, <2>1, SameGraph DEF Inv, TypeInv
<1>2. PathInv' /\ BasesInv' /\ PrimitiveInv' /\ EnumInv'
    BY <1>0, StackKeeps
<1>3. LoopInv'
    BY <1>0, SameGraph DEF Inv, LoopInv, Accepted
<1>4. ErrorInv'
    BY <1>0 DEF ErrorInv, Errors
<1>5. UsesInv'
    <2>1. DOMAIN lowered = 1..Len(lowered) /\ Len(lowered) \in Nat
        BY DEF Inv, TypeInv
    <2>2. next = Len(lowered) + 1 /\ DOMAIN lowered \subseteq DOMAIN Uses
        BY <1>0 DEF Inv, UsesInv
    <2>3. /\ DOMAIN lowered' = DOMAIN lowered \union {next} /\ Len(lowered') = next
          /\ lowered'[next] = lowering
          /\ \A k \in DOMAIN lowered : lowered'[k] = lowered[k]
        BY <1>a, <1>b, <2>1, <2>2 DEF Inv, TypeInv
    <2>4. ASSUME NEW k \in DOMAIN lowered'
          PROVE  Denotes(Uses[k], lowered[k])'
        <3>1. PICK use, low : use = Uses[k] /\ low = lowered'[k]
            OBVIOUS
        <3>2. Denotes(use, low)
            BY <1>a, <2>3, <3>1 DEF Inv, UsesInv
        <3>3. Denotes(use, low)'
            BY <1>0, <3>2, DenotesStays
        <3>4. QED
            BY <1>0, <3>1, <3>3, SameGraph
    <2>5. DOMAIN lowered' \subseteq DOMAIN Uses
        BY <1>0, <2>2, <2>3
    <2>6. QED
        BY <1>0, <2>3, <2>4, <2>5, SameGraph DEF UsesInv
<1>6. QED
    BY <1>1, <1>2, <1>3, <1>4, <1>5 DEF Inv

LEMMA FinishKeeps ==
    ASSUME Inv, Finish
    PROVE  Inv'
<1>0. /\ graph' = graph /\ stage' = "done" /\ next' = next /\ stack' = stack
      /\ resolved' = resolved /\ lowered' = lowered
      /\ stage = "uses" /\ next \notin DOMAIN Uses
    BY DEF Finish
<1>1. TypeInv'
    BY <1>0, SameGraph DEF Inv, TypeInv
<1>2. PathInv' /\ BasesInv' /\ PrimitiveInv' /\ EnumInv'
    BY <1>0, StackKeeps
<1>3. LoopInv'
    BY <1>0, SameGraph DEF Inv, LoopInv, Accepted
<1>4. ErrorInv'
    BY <1>0 DEF ErrorInv, Errors
<1>5. UsesInv'
    <2>1. \A k \in DOMAIN Uses : k < next
        BY <1>0, GraphType DEF Inv, TypeInv
    <2>2. DOMAIN lowered = DOMAIN Uses
        BY <1>0, <2>1, GraphType DEF Inv, TypeInv, UsesInv
    <2>3. \A k \in DOMAIN lowered : Denotes(Uses[k], lowered[k])'
        BY <1>0, DenotesStays, SameGraph DEF Inv, UsesInv
    <2>4. QED
        BY <1>0, <2>2, <2>3, SameGraph DEF UsesInv
<1>6. QED
    BY <1>1, <1>2, <1>3, <1>4, <1>5 DEF Inv

LEMMA StepInv == Inv /\ [Next]_vars => Inv'
<1> SUFFICES ASSUME Inv, [Next]_vars PROVE Inv'
    OBVIOUS
<1>1. ASSUME NEW e \in Errors, Fault(e), Fail(e)
      PROVE  Inv'
    BY <1>1, FailKeeps
<1>2. CASE RejectReserved \/ RejectUnknownBase \/ RejectAmbiguousBase
    BY <1>1, <1>2, RefusesFaultyDeclarations
       DEF RejectReserved, RejectUnknownBase, RejectAmbiguousBase, Errors
<1>3. CASE RejectCycle
    BY <1>1, <1>3, RefusesCycles DEF RejectCycle, Errors
<1>4. CASE RejectEnumBase \/ RejectEnumRange
    BY <1>1, <1>4, RefusesMisfitEnums DEF RejectEnumBase, RejectEnumRange, Errors
<1>5. CASE RejectUnknownUse \/ RejectAmbiguousUse
    BY <1>1, <1>5, RefusesFaultyUses DEF RejectUnknownUse, RejectAmbiguousUse, Errors
<1>6. CASE SkipResolved
    BY <1>6, SkipKeeps
<1>7. CASE Enter
    BY <1>7, EnterKeeps
<1>8. CASE Descend
    BY <1>8, DescendKeeps
<1>9. CASE Lower
    BY <1>9, LowerKeeps
<1>10. CASE StartUses
    BY <1>10, StartUsesKeeps
<1>11. CASE LowerUse
    BY <1>11, LowerUseKeeps
<1>12. CASE Finish
    BY <1>12, FinishKeeps
<1>13. CASE UNCHANGED vars
    <2>0. /\ graph' = graph /\ stage' = stage /\ next' = next /\ stack' = stack
          /\ resolved' = resolved /\ lowered' = lowered
        BY <1>13 DEF vars
    <2>1. TypeInv'
        BY <2>0, SameGraph DEF Inv, TypeInv
    <2>2. PathInv' /\ BasesInv' /\ PrimitiveInv' /\ EnumInv'
        BY <2>0, StackKeeps
    <2>3. LoopInv'
        BY <2>0, SameGraph DEF Inv, LoopInv, Accepted
    <2>4. ErrorInv'
        BY <2>0, SameGraph DEF Inv, ErrorInv
    <2>5. UsesInv'
        BY <2>0, UsesKeep DEF Inv
    <2>6. QED
        BY <2>1, <2>2, <2>3, <2>4, <2>5 DEF Inv
<1>14. QED
    BY <1>2, <1>3, <1>4, <1>5, <1>6, <1>7, <1>8, <1>9, <1>10, <1>11, <1>12, <1>13 DEF Next

LEMMA InvHolds == Spec => []Inv
BY InitInv, StepInv, PTL DEF Spec

-----------------------------------------------------------------------------
\* When all declarations and uses are accepted, there is nothing to refuse.

LEMMA NoFaultIsLeft ==
    ASSUME Inv, stage = "done", NEW e \in Errors, Fault(e)
    PROVE  FALSE
<1>1. \A i \in DOMAIN Types : ~IsReserved(i) /\ i \in DOMAIN resolved
    BY DEF Inv, LoopInv, Accepted
<1>2. e # "reserved"
    BY <1>1 DEF Fault
<1>3. ASSUME NEW i \in DOMAIN Types, NeedsLookup(i)
      PROVE  /\ Bases(i) # {} /\ ~(Cardinality(Bases(i)) > 1)
             /\ \A k \in Bases(i) : i \notin Chain(k)
    <2>1. PICK j : Bases(i) = {j} /\ i \notin Chain(j)
        BY <1>1, <1>3 DEF Inv, BasesInv
    <2>2. ~(Cardinality(Bases(i)) > 1)
        BY <2>1, OneOrSeveral DEF Inv, Bases
    <2>3. QED
        BY <2>1, <2>2
<1>4. e \notin {"unknown", "ambiguous"}
    BY <1>3 DEF Fault
<1>5. e # "cycle"
    BY <1>3 DEF Fault, IsCyclic
<1>6. ASSUME NEW i \in DOMAIN Types, NEW j \in Chain(i), ~NeedsLookup(j), Types[i].enum # {}
      PROVE  /\ Primitives[Types[j].base].integer
             /\ \A value \in Types[i].enum : Fits(value, Types[j].base)
    <2>1. Types[j].base = resolved[i].primitive
        BY <1>1, <1>6 DEF Inv, PrimitiveInv
    <2>2. resolved[i].enum = Types[i].enum
        BY <1>1, <1>6 DEF Inv, EnumInv
    <2>3. QED
        BY <1>1, <1>6, <2>1, <2>2 DEF Inv, EnumInv
<1>7. e \notin {"enum_base", "enum_range"}
    BY <1>6 DEF Fault
<1>8. ASSUME NEW u \in Range(Uses), ~IsPrimitive(u.type)
      PROVE  Selected(u.owner, u.type) # {} /\ ~(Cardinality(Selected(u.owner, u.type)) > 1)
    <2>1. PICK k \in DOMAIN Uses : u = Uses[k]
        BY DEF Range
    <2>2. \E i : Selected(u.owner, u.type) = {i}
        BY <1>8, <2>1 DEF Inv, UsesInv, Denotes
    <2>3. QED
        BY <2>2, OneOrSeveral DEF Inv
<1>9. e \notin {"unknown_use", "ambiguous_use"}
    BY <1>8 DEF Fault
<1>10. QED
    BY <1>2, <1>4, <1>5, <1>7, <1>9 DEF Errors

-----------------------------------------------------------------------------
\* _resolve_definition returns, for every declaration, the primitive at the
\* end of its chain of bases, and the members of the first enum in it.
THEOREM LowersAlongChains == Spec => []LoweringFollowsBases
<1>1. Inv => LoweringFollowsBases
    BY DEF Inv, BasesInv, PrimitiveInv, LoweringFollowsBases
<1>2. QED
    BY <1>1, InvHolds, PTL

\* _validate_enum has checked every enum against the storage that it has in
\* the end, those an alias inherits included.
THEOREM StoresEveryEnum == Spec => []EnumsFitTheirStorage
<1>1. Inv => EnumsFitTheirStorage
    BY DEF Inv, EnumInv, EnumsFitTheirStorage, Range
<1>2. QED
    BY <1>1, InvHolds, PTL

\* resolve_graph_types returns for the graphs without a fault, with all of
\* their declarations resolved, and raises for the others what is wrong.
THEOREM ResolvesSoundGraphs == Spec => []ResolvesExactlySoundGraphs
<1>1. Inv => ResolvesExactlySoundGraphs
    <2>1. ASSUME Inv, stage = "done"
          PROVE  /\ \A e \in Errors : ~Fault(e)
                 /\ DOMAIN resolved = DOMAIN Types
        BY <2>1, NoFaultIsLeft DEF Inv, LoopInv, Accepted, TypeInv
    <2>2. QED
        BY <2>1 DEF Inv, ErrorInv, ResolvesExactlySoundGraphs
<1>2. QED
    BY <1>1, InvHolds, PTL

-----------------------------------------------------------------------------
\* The header, which is begun when all is resolved.

Tags == [scope : Seq(Seq(STRING)), name : Seq(STRING), enum : SUBSET DOMAIN Types]

SymbolsTypeInv ==
    /\ part \in {"enums", "objects", "rendered"} \union SymbolErrors
    /\ at \in Nat \ {0}
    /\ header \in [enums : Seq(Seq(STRING)), tags : Seq(Tags)]

\* The header is begun when all is resolved, and tags are rendered in the order
\* of the uses.
ProgressInv ==
    /\ part # "enums" => stage = "done"
    /\ part = "enums" => header.tags = << >> /\ (stage # "done" => at = 1)
    /\ part = "objects" => at = Len(header.tags) + 1

EnumIsNamed(i) == resolved[i].enum # {} => \A name \in NamesOfEnum(i) : IsIdentifier(name)

\* The names of enums are identifiers before the first tag is considered.
NamedInv ==
    /\ part = "enums" => \A i \in DOMAIN Types : i < at => EnumIsNamed(i)
    /\ part \in {"objects", "rendered", "ambiguous_enum"} \/ header.tags # << >> =>
          \A i \in DOMAIN Types : EnumIsNamed(i)

\* The tag of a use that is lowered to something with these members.
IsTag(use, members, tag) ==
    /\ \A name \in NamesOfTag(use) : IsIdentifier(name)
    /\ members # {} => Cardinality(EnumsOf(use)) = 1
    /\ tag.scope = Scope(use)
    /\ tag.name = PascalCase(use.path[Len(use.path)])
    /\ tag.enum = IF members # {} THEN EnumsOf(use) ELSE {}

TagsInv ==
    \A k \in DOMAIN header.tags :
        k \in DOMAIN Uses /\ IsTag(Uses[k], lowered[k].enum, header.tags[k])

SymbolsInv ==
    /\ Inv
    /\ SymbolsTypeInv
    /\ ProgressInv
    /\ NamedInv
    /\ TagsInv
    /\ SymbolRefusalIsJustified

-----------------------------------------------------------------------------
\* What the graph is made of.
LEMMA DefinitionTypes ==
    ASSUME TypeInv
    PROVE  /\ \A i \in DOMAIN Types : /\ Types[i].owner \in Names /\ Types[i].name \in Names
                                      /\ Types[i].owner \in DOMAIN graph.dependencies
           /\ \A k \in DOMAIN Uses : /\ Uses[k].owner \in Names
                                     /\ Uses[k].owner \in DOMAIN graph.dependencies
                                     /\ Uses[k].path \in Seq(Names)
                                     /\ Len(Uses[k].path) \in {1, 2}
<1>1. graph \in Graphs
    BY DEF TypeInv
<1>2. DOMAIN graph.dependencies \subseteq Names
    BY <1>1, DefinitionsAssumption
<1>3. \A i \in DOMAIN Types : Types[i].owner \in DOMAIN graph.dependencies /\ Types[i].name \in Names
    BY <1>1, DefinitionsAssumption DEF Types, Range
<1>4. \A k \in DOMAIN Uses : /\ Uses[k].owner \in DOMAIN graph.dependencies
                             /\ Uses[k].path \in Seq(Names) /\ Len(Uses[k].path) \in {1, 2}
    BY <1>1, DefinitionsAssumption DEF Uses, Range
<1>5. QED
    BY <1>2, <1>3, <1>4

LEMMA NameHasParts ==
    ASSUME NEW name \in Names
    PROVE  Len(name) \in Nat \ {0}
<1>1. ASSUME NEW S, NEW s \in Seq(S), s # << >>
      PROVE  Len(s) \in Nat \ {0}
    BY <1>1
<1>2. QED
    BY <1>1 DEF Names

\* The last element of a sequence, and the elements before it.
LEMMA LastDivides ==
    ASSUME NEW S, NEW a \in Seq(S), NEW b \in Seq(S), NEW m \in Seq(S), NEW n \in Seq(S),
           Len(m) = 1, Len(n) = 1, a \o m = b \o n
    PROVE  a = b /\ m = n
<1>1. ASSUME NEW s \in Seq(S), Len(s) = 1
      PROVE  s[1] \in S /\ s = <<s[1]>>
    BY <1>1
<1>2. PICK e, f : e = m[1] /\ f = n[1]
    OBVIOUS
<1>3. e \in S /\ f \in S /\ m = <<e>> /\ n = <<f>>
    BY <1>1, <1>2
<1>4. Append(a, e) = Append(b, f)
    BY <1>3, AppendIsConcat
<1>5. a = b /\ e = f
    BY <1>3, <1>4, AppendInjective
<1>6. QED
    BY <1>3, <1>5

\* A qualified name whose last part is the name has one owner.
LEMMA QualifiedDivides ==
    ASSUME NEW a \in Names, NEW b \in Names, NEW m \in Names, NEW n \in Names,
           Len(m) = 1, Len(n) = 1, Qualified(a, m) = Qualified(b, n)
    PROVE  a = b /\ m = n
BY LastDivides DEF Names, Qualified

\* And is longer than a name of one part.
LEMMA QualifiedIsLonger ==
    ASSUME NEW a \in Names, NEW m \in Names
    PROVE  Len(Qualified(a, m)) # 1
BY DEF Names, Qualified

LEMMA NamedEnumsAreFinite ==
    ASSUME TypeInv, NEW use
    PROVE  /\ NamedEnums(use) \subseteq DOMAIN resolved
           /\ \A S : S \subseteq NamedEnums(use) =>
                 Cardinality(S) = 1 <=> \E i : S = {i}
<1>1. NamedEnums(use) \subseteq DOMAIN resolved
    BY DEF NamedEnums
<1>2. DOMAIN resolved \subseteq DOMAIN Types
    BY DEF TypeInv
<1>3. IsFiniteSet(DOMAIN Types)
    BY GraphType, FS_Interval
<1>4. ASSUME NEW S, S \subseteq NamedEnums(use)
      PROVE  Cardinality(S) = 1 <=> \E i : S = {i}
    <2>1. IsFiniteSet(S)
        BY <1>1, <1>2, <1>3, <1>4, FS_Subset
    <2>2. QED
        BY <2>1, FS_Singleton
<1>5. QED
    BY <1>1, <1>4

-----------------------------------------------------------------------------
\* What the declared name of a use stands for, when all enums are named: the
\* declaration i that the resolver selected is among the enums of that name,
\* and it is the only one, or the local one, or the only one in sight.
SelectedEnum(use, i) ==
    /\ i \in DOMAIN resolved
    /\ Selected(use.owner, use.type) = {i}
    /\ i \in NamedEnums(use)
    /\ \/ NamedEnums(use) = {i}
       \/ /\ \A j \in NamedEnums(use) : Types[j].name = use.type
          /\ \/ /\ Types[i].owner = use.owner
                /\ \A j \in NamedEnums(use) : Types[j].owner = use.owner => j = i
             \/ /\ \A j \in NamedEnums(use) : Types[j].owner # use.owner
                /\ \A j \in NamedEnums(use) :
                      j # i => Types[j].owner \notin Visible(graph.dependencies, use.owner)

LEMMA SelectedIsNamed ==
    ASSUME Inv, \A i \in DOMAIN Types : EnumIsNamed(i),
           NEW use, NEW i \in DOMAIN resolved, Selected(use.owner, use.type) = {i},
           resolved[i].enum # {}
    PROVE  SelectedEnum(use, i)
<1>1. DOMAIN resolved \subseteq DOMAIN Types /\ TypeInv
    BY DEF Inv, TypeInv
<1>2. ASSUME NEW j \in DOMAIN resolved, resolved[j].enum # {}
      PROVE  /\ Types[j].owner \in Names /\ Types[j].name \in Names
             /\ Len(Types[j].name) = 1
             /\ Types[j].name = use.type => Len(use.type) = 1
             /\ Qualified(Types[j].owner, Types[j].name) = use.type => Len(use.type) # 1
    <2>1. j \in DOMAIN Types /\ Types[j].owner \in Names /\ Types[j].name \in Names
        BY <1>1, DefinitionTypes
    <2>2. Len(Types[j].name) = 1
        BY <1>2, <2>1 DEF EnumIsNamed, NamesOfEnum, IsIdentifier
    <2>3. Len(Qualified(Types[j].owner, Types[j].name)) # 1
        BY <2>1, QualifiedIsLonger
    <2>4. QED
        BY <2>1, <2>2, <2>3
<1>3. \A j \in NamedEnums(use) :
          /\ j \in DOMAIN resolved /\ resolved[j].enum # {}
          /\ Qualified(Types[j].owner, Types[j].name) = use.type \/ Types[j].name = use.type
    BY DEF NamedEnums
<1>4. \A j \in NamedEnums(use) : Len(use.type) = 1 => Types[j].name = use.type
    BY <1>2, <1>3
<1>5. CASE Local(use.owner, use.type) # {}
    <2>1. Local(use.owner, use.type) = {i}
        BY <1>5 DEF Selected
    <2>2. Types[i].owner = use.owner /\ Types[i].name = use.type
        BY <2>1 DEF Local
    <2>3. i \in NamedEnums(use) /\ Len(use.type) = 1
        BY <1>2, <2>2 DEF NamedEnums
    <2>4. \A j \in NamedEnums(use) : Types[j].owner = use.owner => j = i
        BY <1>1, <1>3, <1>4, <2>1, <2>3 DEF Local
    <2>5. QED
        BY <1>4, <2>2, <2>3, <2>4 DEF SelectedEnum
<1> DEFINE qualified ==
       {j \in VisibleTypes(use.owner) : Qualified(Types[j].owner, Types[j].name) = use.type}
<1>6. CASE Local(use.owner, use.type) = {} /\ qualified # {}
    <2>1. qualified = {i}
        BY <1>6 DEF Selected
    <2>2. i \in VisibleTypes(use.owner) /\ Qualified(Types[i].owner, Types[i].name) = use.type
        BY <2>1
    <2>3. i \in NamedEnums(use) /\ Len(use.type) # 1
        BY <1>2, <2>2 DEF NamedEnums
    <2>4. ASSUME NEW j \in NamedEnums(use)
          PROVE  j = i
        <3>1. j \in DOMAIN resolved /\ resolved[j].enum # {}
              /\ Qualified(Types[j].owner, Types[j].name) = use.type
            BY <1>2, <1>3, <2>3
        <3>2. Types[j].owner = Types[i].owner
            BY <1>2, <2>2, <3>1, QualifiedDivides
        <3>3. j \in VisibleTypes(use.owner)
            BY <1>1, <2>2, <3>1, <3>2 DEF VisibleTypes
        <3>4. QED
            BY <2>1, <3>1, <3>3
    <2>5. QED
        BY <2>3, <2>4 DEF SelectedEnum
<1>7. CASE Local(use.owner, use.type) = {} /\ qualified = {}
    <2>1. {j \in VisibleTypes(use.owner) : Types[j].name = use.type} = {i}
        BY <1>7 DEF Selected
    <2>2. i \in NamedEnums(use) /\ Len(use.type) = 1
        BY <1>2, <2>1 DEF NamedEnums
    <2>3. \A j \in NamedEnums(use) : j \in DOMAIN Types /\ Types[j].name = use.type
        BY <1>1, <1>3, <1>4, <2>2
    <2>4. \A j \in NamedEnums(use) : Types[j].owner # use.owner
        BY <1>7, <2>3 DEF Local
    <2>5. \A j \in NamedEnums(use) :
              j # i => Types[j].owner \notin Visible(graph.dependencies, use.owner)
        BY <2>1, <2>3 DEF VisibleTypes
    <2>6. QED
        BY <2>2, <2>3, <2>4, <2>5 DEF SelectedEnum
<1>8. QED
    BY <1>5, <1>6, <1>7

\* So the second lookup refuses a use only where two enums of one name are out
\* of each other's sight, or where the owner's name is dotted.
LEMMA RefusalHasCause ==
    ASSUME Inv, \A i \in DOMAIN Types : EnumIsNamed(i),
           NEW k \in DOMAIN Uses, NEW i, SelectedEnum(Uses[k], i), resolved[i].enum # {},
           Cardinality(EnumsOf(Uses[k])) # 1
    PROVE  \E j \in DOMAIN resolved :
              /\ i # j /\ Types[j].name = Uses[k].type /\ resolved[j].enum # {}
              /\ \/ /\ Types[i].owner # Uses[k].owner
                    /\ Types[j].owner \notin Visible(graph.dependencies, Uses[k].owner)
                 \/ /\ Types[i].owner = Uses[k].owner
                    /\ IsRoot(Uses[k].owner) /\ Len(Uses[k].owner) > 1
<1>1. PICK use : use = Uses[k]
    OBVIOUS
<1> DEFINE local == {j \in NamedEnums(use) : Types[j].owner = Owner(use)}
<1>2. SelectedEnum(use, i) /\ Cardinality(EnumsOf(use)) # 1
    BY <1>1
<1>3. TypeInv /\ DOMAIN resolved \subseteq DOMAIN Types
    BY DEF Inv, TypeInv
<1>4. EnumsOf(use) = NamedEnums(use) /\ Cardinality(local) # 1
    BY <1>2 DEF EnumsOf
<1>5. NamedEnums(use) # {i} /\ local # {i}
    BY <1>2, <1>3, <1>4, NamedEnumsAreFinite
<1>6. PICK j \in NamedEnums(use) : j # i
    BY <1>2, <1>5 DEF SelectedEnum
<1>7. j \in DOMAIN resolved /\ resolved[j].enum # {}
    BY DEF NamedEnums
<1>8. \A n \in NamedEnums(use) : Types[n].name = use.type
    BY <1>2, <1>5 DEF SelectedEnum
<1>9. CASE Types[i].owner = use.owner
    <2>1. use.owner \in Names /\ i \in DOMAIN Types /\ i \in NamedEnums(use)
        BY <1>1, <1>2, <1>3, DefinitionTypes DEF SelectedEnum
    <2>2. \A n \in NamedEnums(use) : Types[n].owner = use.owner => n = i
        BY <1>2, <1>5, <1>9 DEF SelectedEnum
    <2>3. Owner(use) # use.owner
        BY <1>5, <1>9, <2>1, <2>2
    <2>4. Len(use.owner) > 1
        BY <2>1, <2>3 DEF Names, Owner
    <2>5. IsRoot(use.owner)
        <3>1. CASE ~IsRoot(use.owner)
            <4>1. IsIdentifier(use.owner)
                BY <1>9, <2>1, <3>1 DEF EnumIsNamed, NamesOfEnum
            <4>2. QED
                BY <2>4, <4>1 DEF IsIdentifier
        <3>2. QED
            BY <3>1
    <2>6. QED
        BY <1>1, <1>6, <1>7, <1>8, <1>9, <2>4, <2>5
<1>10. CASE Types[i].owner # use.owner
    <2>1. Types[j].owner \notin Visible(graph.dependencies, use.owner)
        BY <1>2, <1>5, <1>6, <1>10 DEF SelectedEnum
    <2>2. QED
        BY <1>1, <1>6, <1>7, <1>8, <1>10, <2>1
<1>11. QED
    BY <1>9, <1>10

\* Without dots the owner of a use is the definition that has it.
LEMMA OwnerIsFirst ==
    ASSUME Inv, ~HasDottedNames, NEW k \in DOMAIN Uses
    PROVE  Owner(Uses[k]) = Uses[k].owner
<1>1. PICK use : use = Uses[k]
    OBVIOUS
<1>2. use.owner \in Names /\ use.owner \in DOMAIN graph.dependencies
    BY <1>1, DefinitionTypes DEF Inv
<1>3. PICK n : n = Len(use.owner)
    OBVIOUS
<1>4. ~(n > 1)
    BY <1>2, <1>3 DEF HasDottedNames
<1>5. n \in Nat \ {0}
    BY <1>2, <1>3, NameHasParts
<1>6. n = 1
    BY <1>4, <1>5
<1>7. Owner(use) = use.owner
    <2>1. use.owner \in Names /\ Len(use.owner) = 1
        BY <1>2, <1>3, <1>6
    <2>2. QED
        BY <2>1 DEF Owner, Names
<1>8. QED
    BY <1>1, <1>7

\* And where no namespace is dotted it finds the one that was selected.
LEMMA LookupsAgree ==
    ASSUME Inv, ~HasDottedNames, NEW k \in DOMAIN Uses, NEW i, SelectedEnum(Uses[k], i),
           Cardinality(EnumsOf(Uses[k])) = 1
    PROVE  EnumsOf(Uses[k]) = {i}
<1>1. PICK use : use = Uses[k]
    OBVIOUS
<1> DEFINE local == {j \in NamedEnums(use) : Types[j].owner = Owner(use)}
<1>2. SelectedEnum(use, i) /\ Cardinality(EnumsOf(use)) = 1 /\ TypeInv
    BY <1>1 DEF Inv
<1>3. Owner(use) = use.owner
    BY <1>1, OwnerIsFirst
<1>4. i \in NamedEnums(use)
    BY <1>2 DEF SelectedEnum
<1>5. CASE Cardinality(local) = 1
    <2>1. EnumsOf(use) = local
        BY <1>5 DEF EnumsOf
    <2>2. \A j \in local : j = i
        BY <1>2, <1>3 DEF SelectedEnum
    <2>3. PICK j : local = {j}
        BY <1>2, <1>5, NamedEnumsAreFinite
    <2>4. QED
        BY <1>1, <2>1, <2>2, <2>3
<1>6. CASE Cardinality(local) # 1
    <2>1. EnumsOf(use) = NamedEnums(use)
        BY <1>6 DEF EnumsOf
    <2>2. PICK j : NamedEnums(use) = {j}
        BY <1>2, <2>1, NamedEnumsAreFinite
    <2>3. QED
        BY <1>1, <1>4, <2>1, <2>2
<1>7. QED
    BY <1>5, <1>6

-----------------------------------------------------------------------------
\* The full name of a tag is made from the names on the way to it: the module,
\* unless it is the root, and the keys.
FullName(scope, name) == Append(scope, name)

Route(use) == (IF IsRoot(Owner(use)) THEN << >> ELSE <<Owner(use)>>) \o use.path

LEMMA PascalType ==
    ASSUME NEW name, IsIdentifier(name)
    PROVE  PascalCase(name) \in Seq(STRING)
BY PascalAssumption DEF IsIdentifier, PascalCase

LEMMA PathCases ==
    ASSUME NEW path \in Seq(Names), Len(path) \in {1, 2}
    PROVE  /\ Len(path) = 1 => path = <<path[1]>> /\ Range(path) = {path[1]}
           /\ Len(path) = 2 => path = <<path[1], path[2]>> /\ Range(path) = {path[1], path[2]}
<1>1. path \in Seq(Names) /\ DOMAIN path = 1..Len(path)
    OBVIOUS
<1>2. CASE Len(path) = 1
    <2>1. DOMAIN path = {1} /\ path = <<path[1]>>
        BY <1>1, <1>2
    <2>2. QED
        BY <1>2, <2>1 DEF Range
<1>3. CASE Len(path) = 2
    <2>1. DOMAIN path = {1, 2} /\ path = <<path[1], path[2]>>
        BY <1>1, <1>3
    <2>2. QED
        BY <1>3, <2>1 DEF Range
<1>4. QED
    BY <1>2, <1>3

\* Concatenations of tuples with elements of any kind.
LEMMA ShortConcatenations ==
    ASSUME NEW a, NEW b, NEW c
    PROVE  /\ << >> \o << >> = << >> /\ << >> \o <<a>> = <<a>> /\ << >> \o <<a, b>> = <<a, b>>
           /\ <<a>> \o << >> = <<a>> /\ <<a>> \o <<b>> = <<a, b>>
           /\ <<a>> \o <<b, c>> = <<a, b, c>>
           /\ Append(<< >>, a) = <<a>> /\ Append(<<a>>, b) = <<a, b>>
           /\ Append(<<a, b>>, c) = <<a, b, c>>
<1> DEFINE S == {a, b, c}
<1>1. /\ << >> \in Seq(S) /\ <<a>> \in Seq(S) /\ <<b>> \in Seq(S) /\ <<a, b>> \in Seq(S)
      /\ <<b, c>> \in Seq(S) /\ <<a, b, c>> \in Seq(S)
    OBVIOUS
<1>2. /\ << >> \o << >> = << >> /\ << >> \o <<a>> = <<a>> /\ << >> \o <<a, b>> = <<a, b>>
      /\ <<a>> \o << >> = <<a>>
    BY <1>1, ConcatEmptySeq
<1>3. Append(<< >>, a) = <<a>> /\ Append(<<a>>, b) = <<a, b>> /\ Append(<<b>>, c) = <<b, c>>
    <2>1. ASSUME NEW x, NEW y
          PROVE  Append(<<x>>, y) = <<x, y>>
        <3> DEFINE T == {x, y}
        <3>1. PICK s : s = Append(<<x>>, y)
            OBVIOUS
        <3>2. s \in Seq(T) /\ Len(s) = 2 /\ s[1] = x /\ s[2] = y /\ <<x, y>> \in Seq(T)
            BY <3>1
        <3>3. s = <<x, y>>
            BY <3>2
        <3>4. QED
            BY <3>1, <3>3
    <2>2. Append(<< >>, a) = <<a>>
        OBVIOUS
    <2>3. QED
        BY <2>1, <2>2
<1>4. Append(<<a, b>>, c) = <<a, b, c>>
    <2>1. PICK s : s = Append(<<a, b>>, c)
        OBVIOUS
    <2>2. s \in Seq(S) /\ Len(s) = 3 /\ s[1] = a /\ s[2] = b /\ s[3] = c
        BY <1>1, <2>1
    <2>3. s = <<a, b, c>>
        BY <1>1, <2>2
    <2>4. QED
        BY <2>1, <2>3
<1>5. /\ <<a>> \o <<b>> = Append(<<a>>, b) /\ <<b>> \o <<c>> = Append(<<b>>, c)
      /\ <<a, b>> \o <<c>> = Append(<<a, b>>, c)
    <2>1. a \in S /\ b \in S /\ c \in S
        OBVIOUS
    <2> HIDE DEF S
    <2>2. QED
        BY <1>1, <2>1, AppendIsConcat
<1>6. <<a>> \o <<b, c>> = <<a, b, c>>
    <2>1. <<a>> \o (<<b>> \o <<c>>) = (<<a>> \o <<b>>) \o <<c>>
        <3>1. <<c>> \in Seq(S)
            OBVIOUS
        <3> HIDE DEF S
        <3>2. QED
            BY <1>1, <3>1, ConcatAssociative
    <2>2. QED
        BY <1>3, <1>4, <1>5, <2>1
<1>7. QED
    BY <1>2, <1>3, <1>4, <1>5, <1>6

LEMMA FullNameOfRoute ==
    ASSUME NEW use, use.path \in Seq(Names), Len(use.path) \in {1, 2}
    PROVE  LET full == FullName(Scope(use), PascalCase(use.path[Len(use.path)]))
           IN  /\ Len(Route(use)) \in 1..3 /\ Len(full) = Len(Route(use))
               /\ Len(Scope(use)) = Len(full) - 1
               /\ \A m \in 1..Len(full) : full[m] = PascalCase(Route(use)[m])
               /\ \A m \in 1..Len(Scope(use)) : Scope(use)[m] = full[m]
<1> DEFINE full == FullName(Scope(use), PascalCase(use.path[Len(use.path)]))
<1>1. PICK o, p, q : o = Owner(use) /\ p = use.path[1] /\ q = use.path[2]
    OBVIOUS
<1>2. PICK x, y, z : x = PascalCase(o) /\ y = PascalCase(p) /\ z = PascalCase(q)
    OBVIOUS
<1>3. /\ Route(use) = (IF IsRoot(o) THEN << >> ELSE <<o>>) \o use.path
      /\ Scope(use) = (IF IsRoot(o) THEN << >> ELSE <<x>>)
                          \o (IF Len(use.path) = 1 THEN << >> ELSE <<y>>)
      /\ full = Append(Scope(use), IF Len(use.path) = 1 THEN y ELSE z)
    BY <1>1, <1>2 DEF Route, Scope, FullName
<1>4. /\ Len(use.path) = 1 => use.path = <<p>>
      /\ Len(use.path) = 2 => use.path = <<p, q>>
    BY <1>1, PathCases
<1> HIDE DEF full
<1>5. CASE IsRoot(o) /\ Len(use.path) = 1
    <2>1. Route(use) = << >> \o <<p>> /\ Scope(use) = << >> \o << >> /\ full = Append(Scope(use), y)
        BY <1>3, <1>4, <1>5
    <2>2. Route(use) = <<p>> /\ Scope(use) = << >> /\ full = <<y>>
        BY <2>1, ShortConcatenations
    <2>3. QED
        BY <1>2, <2>2 DEF full
<1>6. CASE IsRoot(o) /\ Len(use.path) = 2
    <2>1. Route(use) = << >> \o <<p, q>> /\ Scope(use) = << >> \o <<y>> /\ full = Append(Scope(use), z)
        BY <1>3, <1>4, <1>6
    <2>2. << >> \o <<p, q>> = <<p, q>> /\ << >> \o <<y>> = <<y>> /\ Append(<<y>>, z) = <<y, z>>
        BY ShortConcatenations
    <2>3. Route(use) = <<p, q>> /\ Scope(use) = <<y>> /\ full = <<y, z>>
        BY <2>1, <2>2
    <2>4. QED
        BY <1>2, <2>3 DEF full
<1>7. CASE ~IsRoot(o) /\ Len(use.path) = 1
    <2>1. Route(use) = <<o>> \o <<p>> /\ Scope(use) = <<x>> \o << >> /\ full = Append(Scope(use), y)
        BY <1>3, <1>4, <1>7
    <2>2. <<o>> \o <<p>> = <<o, p>> /\ <<x>> \o << >> = <<x>> /\ Append(<<x>>, y) = <<x, y>>
        BY ShortConcatenations
    <2>3. Route(use) = <<o, p>> /\ Scope(use) = <<x>> /\ full = <<x, y>>
        BY <2>1, <2>2
    <2>4. QED
        BY <1>2, <2>3 DEF full
<1>8. CASE ~IsRoot(o) /\ Len(use.path) = 2
    <2>1. Route(use) = <<o>> \o <<p, q>> /\ Scope(use) = <<x>> \o <<y>> /\ full = Append(Scope(use), z)
        <3>1. ~IsRoot(o) /\ Len(use.path) # 1 /\ use.path = <<p, q>>
            BY <1>4, <1>8
        <3>2. Route(use) = <<o>> \o <<p, q>>
            BY <1>3, <3>1
        <3>3. Scope(use) = <<x>> \o <<y>> /\ full = Append(Scope(use), z)
            BY <1>3, <3>1
        <3>4. QED
            BY <3>2, <3>3
    <2>2. /\ <<o>> \o <<p, q>> = <<o, p, q>> /\ <<x>> \o <<y>> = <<x, y>>
          /\ Append(<<x, y>>, z) = <<x, y, z>>
        BY ShortConcatenations
    <2>3. Route(use) = <<o, p, q>> /\ Scope(use) = <<x, y>> /\ full = <<x, y, z>>
        BY <2>1, <2>2
    <2>4. /\ Len(Route(use)) = 3 /\ Len(full) = 3 /\ Len(Scope(use)) = 2
          /\ full[1] = x /\ full[2] = y /\ full[3] = z
          /\ Scope(use)[1] = x /\ Scope(use)[2] = y
          /\ Route(use)[1] = o /\ Route(use)[2] = p /\ Route(use)[3] = q
        BY <2>3
    <2>5. ASSUME NEW m \in 1..3
          PROVE  full[m] = PascalCase(Route(use)[m])
        <3>1. m = 1 \/ m = 2 \/ m = 3
            OBVIOUS
        <3>2. full[1] = PascalCase(Route(use)[1])
            BY <1>2, <2>4
        <3>3. full[2] = PascalCase(Route(use)[2])
            BY <1>2, <2>4
        <3>4. full[3] = PascalCase(Route(use)[3])
            BY <1>2, <2>4
        <3>5. QED
            BY <3>1, <3>2, <3>3, <3>4
    <2>6. \A m \in 1..2 : Scope(use)[m] = full[m]
        BY <2>4
    <2>7. QED
        BY <2>4, <2>5, <2>6 DEF full
<1>9. QED
    BY <1>5, <1>6, <1>7, <1>8

\* The names that _pascal_case keeps apart, and the routes made of them.
ScopeNames == (DOMAIN graph.dependencies \ {graph.root}) \union UNION {Range(u.path) : u \in Range(Uses)}

LEMMA RoutesHaveScopeNames ==
    ASSUME Inv, ~HasDottedNames, NEW k \in DOMAIN Uses
    PROVE  LET use == Uses[k]
           IN  /\ Owner(use) = use.owner
               /\ IsRoot(use.owner) => Route(use) = use.path
               /\ ~IsRoot(use.owner) =>
                     /\ Len(Route(use)) = Len(use.path) + 1 /\ Route(use)[1] = use.owner
                     /\ \A m \in 1..Len(use.path) : Route(use)[m + 1] = use.path[m]
               /\ \A m \in 1..Len(Route(use)) : Route(use)[m] \in ScopeNames
<1>1. PICK use : use = Uses[k]
    OBVIOUS
<1>2. /\ use.owner \in Names /\ use.owner \in DOMAIN graph.dependencies
      /\ use.path \in Seq(Names) /\ Len(use.path) \in {1, 2}
    BY <1>1, DefinitionTypes DEF Inv
<1>3. Owner(use) = use.owner
    BY <1>1, OwnerIsFirst
<1>4. Range(use.path) \subseteq ScopeNames
    BY <1>1 DEF ScopeNames, Range
<1>5. \A m \in 1..Len(use.path) : use.path[m] \in ScopeNames
    BY <1>2, <1>4 DEF Range
<1>6. CASE IsRoot(use.owner)
    <2>1. Route(use) = use.path
        BY <1>2, <1>3, <1>6, ConcatEmptySeq DEF Route
    <2>2. QED
        BY <1>1, <1>2, <1>3, <1>5, <1>6, <2>1
<1>7. CASE ~IsRoot(use.owner)
    <2>1. use.owner \in ScopeNames
        BY <1>2, <1>7 DEF ScopeNames, IsRoot
    <2>2. Route(use) = <<use.owner>> \o use.path
        BY <1>3, <1>7 DEF Route
    <2>3. <<use.owner>> \in Seq(Names) /\ Len(<<use.owner>>) = 1 /\ <<use.owner>>[1] = use.owner
        BY <1>2
    <2>4. /\ Len(Route(use)) = 1 + Len(use.path)
          /\ Route(use)[1] = use.owner
          /\ \A m \in 1..Len(use.path) : Route(use)[m + 1] = use.path[m]
        <3>1. \A m \in 1..(1 + Len(use.path)) :
                  Route(use)[m] = IF m <= 1 THEN <<use.owner>>[m] ELSE use.path[m - 1]
            BY <1>2, <2>2, <2>3, ConcatProperties
        <3>2. Len(Route(use)) = 1 + Len(use.path)
            BY <1>2, <2>2, <2>3, ConcatProperties
        <3>3. Route(use)[1] = use.owner
            BY <1>2, <2>3, <3>1
        <3>4. \A m \in 1..Len(use.path) : Route(use)[m + 1] = use.path[m]
            BY <1>2, <3>1
        <3>5. QED
            BY <3>2, <3>3, <3>4
    <2>5. ASSUME NEW m \in 1..Len(Route(use))
          PROVE  Route(use)[m] \in ScopeNames
        <3>1. CASE m = 1
            BY <2>1, <2>4, <3>1
        <3>2. CASE m # 1
            <4>1. (m - 1) \in 1..Len(use.path) /\ (m - 1) + 1 = m
                BY <1>2, <2>4, <3>2
            <4>2. QED
                BY <1>5, <2>4, <4>1
        <3>3. QED
            BY <3>1, <3>2
    <2>6. QED
        BY <1>1, <1>2, <1>3, <1>7, <2>4, <2>5
<1>8. QED
    BY <1>6, <1>7

\* No route leads through the end of another.
LEMMA RoutesStayApart ==
    ASSUME Inv, ~HasDottedNames, NamesStayApart,
           NEW j \in DOMAIN Uses, NEW k \in DOMAIN Uses, j # k,
           Len(Route(Uses[j])) <= Len(Route(Uses[k])),
           \A m \in 1..Len(Route(Uses[j])) : Route(Uses[j])[m] = Route(Uses[k])[m]
    PROVE  FALSE
<1>1. PICK u, v : u = Uses[j] /\ v = Uses[k]
    OBVIOUS
<1>2. /\ Len(u.path) \in {1, 2} /\ Len(v.path) \in {1, 2}
      /\ u.path \in Seq(Names) /\ v.path \in Seq(Names)
      /\ u.owner \in DOMAIN graph.dependencies /\ v.owner \in DOMAIN graph.dependencies
    BY <1>1, DefinitionTypes DEF Inv
<1>3. u.path[1] \notin DOMAIN graph.dependencies /\ v.path[1] \notin DOMAIN graph.dependencies
    BY <1>1, <1>2 DEF NamesStayApart, Range
<1>4. ASSUME u.owner = v.owner, u.path[1] = v.path[1]
      PROVE  Len(u.path) = 2 /\ Len(v.path) = 2 /\ u.path[2] # v.path[2]
    BY <1>1, <1>4, DefinitionsAssumption DEF Inv, TypeInv, Uses
<1> DEFINE a == Route(u)
           b == Route(v)
<1>5. Len(a) <= Len(b) /\ \A m \in 1..Len(a) : a[m] = b[m]
    BY <1>1
<1> HIDE DEF a, b
<1>6. /\ IsRoot(u.owner) => a = u.path
      /\ ~IsRoot(u.owner) => /\ Len(a) = Len(u.path) + 1 /\ a[1] = u.owner
                             /\ \A m \in 1..Len(u.path) : a[m + 1] = u.path[m]
    BY <1>1, RoutesHaveScopeNames DEF a
<1>7. /\ IsRoot(v.owner) => b = v.path
      /\ ~IsRoot(v.owner) => /\ Len(b) = Len(v.path) + 1 /\ b[1] = v.owner
                             /\ \A m \in 1..Len(v.path) : b[m + 1] = v.path[m]
    BY <1>1, RoutesHaveScopeNames DEF b
<1>8. CASE IsRoot(u.owner) /\ IsRoot(v.owner)
    <2>1. u.owner = v.owner /\ u.path[1] = v.path[1]
        BY <1>2, <1>5, <1>6, <1>7, <1>8 DEF IsRoot
    <2>2. u.path[2] = v.path[2]
        BY <1>2, <1>4, <1>5, <1>6, <1>7, <1>8, <2>1
    <2>3. QED
        BY <1>4, <2>1, <2>2
<1>9. CASE ~IsRoot(u.owner) /\ ~IsRoot(v.owner)
    <2>1. u.owner = v.owner
        BY <1>2, <1>5, <1>6, <1>7, <1>9
    <2>2. a[2] = u.path[1] /\ b[2] = v.path[1] /\ a[2] = b[2]
        BY <1>2, <1>5, <1>6, <1>7, <1>9
    <2>3. Len(u.path) = 2 /\ Len(v.path) = 2 /\ u.path[2] # v.path[2]
        BY <1>4, <2>1, <2>2
    <2>4. a[3] = u.path[2] /\ b[3] = v.path[2] /\ a[3] = b[3]
        BY <1>5, <1>6, <1>7, <1>9, <2>3
    <2>5. QED
        BY <2>3, <2>4
<1>10. CASE IsRoot(u.owner) /\ ~IsRoot(v.owner)
    BY <1>2, <1>3, <1>5, <1>6, <1>7, <1>10
<1>11. CASE ~IsRoot(u.owner) /\ IsRoot(v.owner)
    BY <1>2, <1>3, <1>5, <1>6, <1>7, <1>11
<1>12. QED
    BY <1>8, <1>9, <1>10, <1>11

-----------------------------------------------------------------------------
\* Once all is resolved, the resolver takes no step, and a step of the header
\* leaves its result alone.

LEMMA ResolverStops ==
    ASSUME Next
    PROVE  stage # "done" /\ graph' = graph
<1>1. stage # "done"
    BY DEF Next, RejectReserved, SkipResolved, Enter, RejectUnknownBase, RejectAmbiguousBase,
           RejectCycle, Descend, RejectEnumBase, RejectEnumRange, Lower, StartUses, LowerUse,
           RejectUnknownUse, RejectAmbiguousUse, Finish, AtDeclaration, NeedsBase, Resolving, AtUse
<1>2. graph' = graph
    BY DEF Next, RejectReserved, SkipResolved, Enter, RejectUnknownBase, RejectAmbiguousBase,
           RejectCycle, Descend, RejectEnumBase, RejectEnumRange, Lower, StartUses, LowerUse,
           RejectUnknownUse, RejectAmbiguousUse, Finish, Fail, LowerTop
<1>3. QED
    BY <1>1, <1>2

LEMMA ResultKeeps ==
    ASSUME Inv, UNCHANGED vars
    PROVE  /\ Inv'
           /\ graph' = graph /\ stage' = stage /\ resolved' = resolved /\ lowered' = lowered
           /\ Types' = Types /\ Uses' = Uses
           /\ \A i : EnumIsNamed(i)' = EnumIsNamed(i)
           /\ \A use, members, tag : IsTag(use, members, tag)' = IsTag(use, members, tag)
<1>1. Inv'
    BY StepInv
<1>2. graph' = graph /\ stage' = stage /\ resolved' = resolved /\ lowered' = lowered
    BY DEF vars
<1>3. Types' = Types /\ Uses' = Uses
    BY <1>2, SameGraph
<1>4. \A i : EnumIsNamed(i)' = EnumIsNamed(i)
    BY <1>2, <1>3 DEF EnumIsNamed, NamesOfEnum, IsRoot, IsIdentifier
<1>5. \A use : /\ NamesOfTag(use)' = NamesOfTag(use) /\ Scope(use)' = Scope(use)
               /\ EnumsOf(use)' = EnumsOf(use)
    <2>1. \A use : NamesOfTag(use)' = NamesOfTag(use) /\ Scope(use)' = Scope(use)
        BY <1>2 DEF NamesOfTag, Scope, IsRoot, Owner, PascalCase
    <2>2. \A use : NamedEnums(use)' = NamedEnums(use)
        BY <1>2, <1>3 DEF NamedEnums
    <2>3. \A use : EnumsOf(use)' = EnumsOf(use)
        BY <1>3, <2>2 DEF EnumsOf, Owner
    <2>4. QED
        BY <2>1, <2>3
<1>6. \A use, members, tag : IsTag(use, members, tag)' = IsTag(use, members, tag)
    BY <1>5 DEF IsTag, IsIdentifier, PascalCase
<1>7. QED
    BY <1>1, <1>2, <1>3, <1>4, <1>6

LEMMA TagsStay ==
    ASSUME Inv, TagsInv, UNCHANGED vars, header'.tags = header.tags
    PROVE  TagsInv'
BY ResultKeeps DEF TagsInv

\* The names of enums are those of declarations, which are all resolved.
LEMMA AllAreResolved ==
    ASSUME Inv, stage = "done"
    PROVE  DOMAIN resolved = DOMAIN Types /\ DOMAIN lowered = DOMAIN Uses
BY DEF Inv, LoopInv, UsesInv, Accepted, TypeInv

-----------------------------------------------------------------------------
LEMMA SymbolsInitInv == SymbolsInit => SymbolsInv
<1> SUFFICES ASSUME SymbolsInit PROVE SymbolsInv
    OBVIOUS
<1>1. /\ Inv /\ part = "enums" /\ at = 1 /\ header = [enums |-> << >>, tags |-> << >>]
    BY InitInv DEF SymbolsInit
<1>2. SymbolsTypeInv
    BY <1>1 DEF SymbolsTypeInv
<1>3. ProgressInv /\ TagsInv
    BY <1>1 DEF ProgressInv, TagsInv
<1>4. NamedInv
    BY <1>1, GraphType DEF NamedInv, Inv
<1>5. SymbolRefusalIsJustified
    BY <1>1 DEF SymbolRefusalIsJustified
<1>6. QED
    BY <1>1, <1>2, <1>3, <1>4, <1>5 DEF SymbolsInv

LEMMA ResolveKeeps ==
    ASSUME SymbolsInv, Resolve
    PROVE  SymbolsInv'
<1>0. /\ part' = part /\ at' = at /\ header' = header /\ graph' = graph
      /\ part = "enums" /\ at = 1 /\ header.tags = << >>
    BY ResolverStops DEF Resolve, SymbolsInv, ProgressInv
<1>1. Inv'
    BY StepInv DEF SymbolsInv, Resolve
<1>2. SymbolsTypeInv'
    BY <1>0, SameGraph DEF SymbolsInv, SymbolsTypeInv, Tags
<1>3. ProgressInv' /\ TagsInv'
    BY <1>0 DEF ProgressInv, TagsInv
<1>4. NamedInv'
    <2>1. \A i \in DOMAIN Types' : ~(i < 1)
        BY <1>0, SameGraph, GraphType DEF SymbolsInv, Inv
    <2>2. QED
        BY <1>0, <2>1 DEF NamedInv
<1>5. SymbolRefusalIsJustified'
    BY <1>0 DEF SymbolRefusalIsJustified
<1>6. QED
    BY <1>1, <1>2, <1>3, <1>4, <1>5 DEF SymbolsInv

LEMMA EnumKeeps ==
    ASSUME SymbolsInv, SkipAlias \/ RenderEnum
    PROVE  SymbolsInv'
<1>0. /\ UNCHANGED vars /\ part' = part /\ at' = at + 1 /\ header'.tags = header.tags
      /\ stage = "done" /\ part = "enums" /\ at \in DOMAIN Types /\ at \in Nat \ {0}
      /\ header \in [enums : Seq(Seq(STRING)), tags : Seq(Tags)]
    BY DEF SkipAlias, RenderEnum, AtEnum, SymbolsInv, SymbolsTypeInv
<1>1. /\ Inv' /\ Types' = Types /\ stage' = stage
      /\ \A i : EnumIsNamed(i)' = EnumIsNamed(i)
    BY <1>0, ResultKeeps DEF SymbolsInv
<1>2. SymbolsTypeInv'
    <2>1. header' \in [enums : Seq(Seq(STRING)), tags : Seq(Tags)]
        <3>1. CASE SkipAlias
            BY <1>0, <3>1 DEF SkipAlias
        <3>2. CASE RenderEnum
            <4>1. PICK name : name = EnumName(at)
                OBVIOUS
            <4>2. name \in Seq(STRING)
                <5>1. PascalCase(Types[at].name) \in Seq(STRING)
                    BY <3>2, PascalType DEF RenderEnum, NamesOfEnum
                <5>2. ~IsRoot(Types[at].owner) => PascalCase(Types[at].owner) \in Seq(STRING)
                    BY <3>2, PascalType DEF RenderEnum, NamesOfEnum
                <5>3. QED
                    BY <4>1, <5>1, <5>2, ConcatProperties DEF EnumName
            <4>3. header' = [header EXCEPT !.enums = Append(@, name)]
                BY <3>2, <4>1 DEF RenderEnum
            <4>4. Append(header.enums, name) \in Seq(Seq(STRING))
                BY <1>0, <4>2, AppendProperties
            <4>5. QED
                BY <1>0, <4>3, <4>4
        <3>3. QED
            BY <3>1, <3>2
    <2>2. Tags' = Tags
        BY <1>1 DEF Tags
    <2>3. QED
        BY <1>0, <2>1, <2>2 DEF SymbolsInv, SymbolsTypeInv
<1>3. ProgressInv'
    BY <1>0, <1>1 DEF SymbolsInv, ProgressInv
<1>4. NamedInv'
    <2>1. EnumIsNamed(at)
        BY DEF SkipAlias, RenderEnum, EnumIsNamed
    <2>2. \A i \in DOMAIN Types : i < at => EnumIsNamed(i)
        BY <1>0 DEF SymbolsInv, NamedInv
    <2>3. \A i \in DOMAIN Types : i < at + 1 => EnumIsNamed(i)
        BY <1>0, <2>1, <2>2, GraphType DEF SymbolsInv, Inv
    <2>4. header.tags = << >>
        BY <1>0 DEF SymbolsInv, ProgressInv
    <2>5. QED
        BY <1>0, <1>1, <2>3, <2>4 DEF NamedInv
<1>5. TagsInv'
    BY <1>0, TagsStay DEF SymbolsInv
<1>6. SymbolRefusalIsJustified'
    BY <1>0 DEF SymbolRefusalIsJustified
<1>7. QED
    BY <1>1, <1>2, <1>3, <1>4, <1>5, <1>6 DEF SymbolsInv

LEMMA StartObjectsKeeps ==
    ASSUME SymbolsInv, StartObjects
    PROVE  SymbolsInv'
<1>0. /\ UNCHANGED vars /\ part' = "objects" /\ at' = 1 /\ header' = header
      /\ stage = "done" /\ part = "enums" /\ at \notin DOMAIN Types /\ at \in Nat \ {0}
      /\ header.tags = << >>
    BY DEF StartObjects, SymbolsInv, SymbolsTypeInv, ProgressInv
<1>1. /\ Inv' /\ Types' = Types /\ stage' = stage
      /\ \A i : EnumIsNamed(i)' = EnumIsNamed(i)
    BY <1>0, ResultKeeps DEF SymbolsInv
<1>2. SymbolsTypeInv' /\ ProgressInv'
    BY <1>0, <1>1 DEF SymbolsInv, SymbolsTypeInv, ProgressInv, Tags
<1>3. NamedInv'
    <2>1. \A i \in DOMAIN Types : i < at
        BY <1>0, GraphType DEF SymbolsInv, Inv
    <2>2. \A i \in DOMAIN Types : EnumIsNamed(i)
        BY <1>0, <2>1 DEF SymbolsInv, NamedInv
    <2>3. QED
        BY <1>0, <1>1, <2>2 DEF NamedInv
<1>4. TagsInv'
    BY <1>0, TagsStay DEF SymbolsInv
<1>5. SymbolRefusalIsJustified'
    BY <1>0 DEF SymbolRefusalIsJustified
<1>6. QED
    BY <1>1, <1>2, <1>3, <1>4, <1>5 DEF SymbolsInv

LEMMA RenderTagKeeps ==
    ASSUME SymbolsInv, RenderTag
    PROVE  SymbolsInv'
<1>0. /\ UNCHANGED vars /\ part' = part /\ at' = at + 1
      /\ part = "objects" /\ at \in DOMAIN Uses /\ at = Len(header.tags) + 1
      /\ header \in [enums : Seq(Seq(STRING)), tags : Seq(Tags)] /\ at \in Nat \ {0}
    BY DEF RenderTag, AtTag, SymbolsInv, SymbolsTypeInv, ProgressInv
<1>1. /\ Inv' /\ Types' = Types /\ Uses' = Uses /\ lowered' = lowered /\ stage' = stage
      /\ \A i : EnumIsNamed(i)' = EnumIsNamed(i)
      /\ \A use, members, tag : IsTag(use, members, tag)' = IsTag(use, members, tag)
    BY <1>0, ResultKeeps DEF SymbolsInv
<1>2. PICK use, members : use = Uses[at] /\ members = lowered[at].enum
    OBVIOUS
<1>3. PICK tag : tag = [scope |-> Scope(use),
                        name  |-> PascalCase(use.path[Len(use.path)]),
                        enum  |-> IF members # {} THEN EnumsOf(use) ELSE {}]
    OBVIOUS
<1>4. /\ header' = [header EXCEPT !.tags = Append(@, tag)]
      /\ \A name \in NamesOfTag(use) : IsIdentifier(name)
      /\ members # {} => Cardinality(EnumsOf(use)) = 1
    BY <1>2, <1>3 DEF RenderTag, HasEnum
<1>5. IsTag(use, members, tag)
    BY <1>3, <1>4 DEF IsTag
<1>6. tag \in Tags
    <2>1. use.path \in Seq(Names) /\ Len(use.path) \in {1, 2}
        BY <1>0, <1>2, DefinitionTypes DEF SymbolsInv, Inv
    <2>2. use.path[1] \in Range(use.path) /\ use.path[Len(use.path)] \in Range(use.path)
        BY <2>1, PathCases
    <2>3. /\ PascalCase(use.path[1]) \in Seq(STRING)
          /\ PascalCase(use.path[Len(use.path)]) \in Seq(STRING)
          /\ ~IsRoot(Owner(use)) => PascalCase(Owner(use)) \in Seq(STRING)
        BY <1>4, <2>2, PascalType DEF NamesOfTag
    <2>4. Scope(use) \in Seq(Seq(STRING))
        <3> DEFINE S == Seq(STRING)
                   a == IF IsRoot(Owner(use)) THEN << >> ELSE <<PascalCase(Owner(use))>>
                   b == IF Len(use.path) = 1 THEN << >> ELSE <<PascalCase(use.path[1])>>
        <3>1. Scope(use) = a \o b
            BY DEF Scope
        <3>2. a \in Seq(S) /\ b \in Seq(S)
            <4>1. \A X : << >> \in Seq(X) /\ \A x \in X : <<x>> \in Seq(X)
                OBVIOUS
            <4>2. << >> \in Seq(S) /\ \A x \in S : <<x>> \in Seq(S)
                BY <4>1
            <4>3. a \in Seq(S)
                BY <2>3, <4>2, Zenon
            <4>4. b \in Seq(S)
                BY <2>3, <4>2, Zenon
            <4>5. QED
                BY <4>3, <4>4
        <3> HIDE DEF a, b, S
        <3>3. a \o b \in Seq(S)
            BY <3>2, ConcatProperties
        <3>4. QED
            BY <3>1, <3>3 DEF S
    <2>5. EnumsOf(use) \subseteq DOMAIN Types
        BY DEF EnumsOf, NamedEnums, SymbolsInv, Inv, TypeInv
    <2>6. QED
        BY <1>3, <2>3, <2>4, <2>5 DEF Tags
<1>7. /\ header'.enums = header.enums /\ header'.tags = Append(header.tags, tag)
      /\ header.tags \in Seq(Tags) /\ header' \in [enums : Seq(Seq(STRING)), tags : Seq(Tags)]
    <2>1. header.tags \in Seq(Tags) /\ Append(header.tags, tag) \in Seq(Tags)
        BY <1>0, <1>6, AppendProperties
    <2>2. QED
        BY <1>0, <1>4, <2>1
<1>8. SymbolsTypeInv'
    BY <1>0, <1>1, <1>7 DEF SymbolsInv, SymbolsTypeInv, Tags
<1> DEFINE tags == header.tags
           n == Len(tags)
<1>9. /\ n \in Nat /\ DOMAIN tags = 1..n /\ at = n + 1
      /\ Len(header'.tags) = n + 1 /\ DOMAIN header'.tags = 1..(n + 1)
      /\ \A k \in 1..n : header'.tags[k] = tags[k]
      /\ header'.tags[n + 1] = tag
    BY <1>0, <1>6, <1>7, AppendProperties, LenProperties
<1>10. ProgressInv'
    BY <1>0, <1>1, <1>9 DEF SymbolsInv, ProgressInv
<1>11. NamedInv'
    BY <1>0, <1>1 DEF SymbolsInv, NamedInv
<1>12. TagsInv'
    <2>1. ASSUME NEW k \in 1..(n + 1)
          PROVE  k \in DOMAIN Uses /\ IsTag(Uses[k], lowered[k].enum, header'.tags[k])
        <3>1. CASE k = n + 1
            BY <1>0, <1>2, <1>5, <1>9, <3>1
        <3>2. CASE k \in 1..n
            BY <1>9, <3>2 DEF SymbolsInv, TagsInv
        <3>3. QED
            BY <1>9, <3>1, <3>2
    <2>2. QED
        BY <1>1, <1>9, <2>1 DEF TagsInv
<1>13. SymbolRefusalIsJustified'
    BY <1>0 DEF SymbolRefusalIsJustified
<1>14. QED
    BY <1>1, <1>8, <1>10, <1>11, <1>12, <1>13 DEF SymbolsInv

\* Why a header may be refused depends on the result of the resolver alone.
NameRefusal ==
    \/ \E i \in DOMAIN resolved :
          resolved[i].enum # {} /\ \E name \in NamesOfEnum(i) : ~IsIdentifier(name)
    \/ \E u \in Range(Uses) : \E name \in NamesOfTag(u) : ~IsIdentifier(name)

EnumRefusal ==
    \E u \in Range(Uses), i, j \in DOMAIN resolved :
        /\ Selected(u.owner, u.type) = {i}
        /\ i # j /\ Types[j].name = u.type /\ resolved[j].enum # {}
        /\ \/ /\ Types[i].owner # u.owner
              /\ Types[j].owner \notin Visible(graph.dependencies, u.owner)
           \/ Types[i].owner = u.owner /\ IsRoot(u.owner) /\ Len(u.owner) > 1

LEMMA RefusalStays ==
    ASSUME Inv, UNCHANGED vars, part' = "identifier" => NameRefusal,
           part' = "ambiguous_enum" => EnumRefusal
    PROVE  SymbolRefusalIsJustified'
<1>1. graph' = graph /\ resolved' = resolved /\ Types' = Types /\ Uses' = Uses
    BY ResultKeeps
<1>2. NameRefusal' = NameRefusal
    BY <1>1 DEF NameRefusal, NamesOfEnum, NamesOfTag, IsRoot, Owner, IsIdentifier
<1>3. EnumRefusal' = EnumRefusal
    <2>1. \A owner, name : Selected(owner, name)' = Selected(owner, name)
        BY <1>1, SameGraph
    <2>2. QED
        BY <1>1, <2>1 DEF EnumRefusal, IsRoot
<1>4. SymbolRefusalIsJustified' <=> /\ part' = "identifier" => NameRefusal'
                                    /\ part' = "ambiguous_enum" => EnumRefusal'
    BY DEF SymbolRefusalIsJustified, NameRefusal, EnumRefusal
<1>5. QED
    BY <1>2, <1>3, <1>4

LEMMA RefuseKeeps ==
    ASSUME SymbolsInv, RejectEnumName \/ RejectTagName \/ RejectAmbiguousEnum
    PROVE  SymbolsInv'
<1>0. /\ UNCHANGED vars /\ at' = at /\ header' = header /\ part' \in SymbolErrors
      /\ stage = "done" /\ Inv
      /\ part \in {"enums", "objects"}
    BY DEF RejectEnumName, RejectTagName, RejectAmbiguousEnum, Refuse, AtEnum, AtTag,
           SymbolErrors, SymbolsInv, ProgressInv
<1>1. /\ Inv' /\ Types' = Types /\ stage' = stage
      /\ \A i : EnumIsNamed(i)' = EnumIsNamed(i)
    BY <1>0, ResultKeeps DEF SymbolsInv
<1>2. SymbolsTypeInv' /\ ProgressInv'
    BY <1>0, <1>1 DEF SymbolsInv, SymbolsTypeInv, ProgressInv, Tags, SymbolErrors
<1>3. RejectAmbiguousEnum \/ header.tags # << >> => \A i \in DOMAIN Types : EnumIsNamed(i)
    BY DEF SymbolsInv, NamedInv, RejectAmbiguousEnum, AtTag
<1>4. NamedInv'
    <2>1. part' = "ambiguous_enum" => RejectAmbiguousEnum
        BY DEF RejectEnumName, RejectTagName, Refuse
    <2>2. part' \notin {"enums", "objects", "rendered"}
        BY <1>0 DEF SymbolErrors
    <2>3. QED
        BY <1>0, <1>1, <1>3, <2>1, <2>2 DEF NamedInv
<1>5. TagsInv'
    BY <1>0, TagsStay DEF SymbolsInv
<1>6. CASE RejectEnumName
    <2>1. at \in DOMAIN resolved
        BY <1>0, <1>6, AllAreResolved DEF RejectEnumName, AtEnum
    <2>2. NameRefusal /\ part' = "identifier"
        BY <1>6, <2>1 DEF RejectEnumName, Refuse, NameRefusal
    <2>3. SymbolRefusalIsJustified'
        BY <1>0, <2>2, RefusalStays
    <2>4. QED
        BY <1>1, <1>2, <1>4, <1>5, <2>3 DEF SymbolsInv
<1>7. CASE RejectTagName
    <2>1. Uses[at] \in Range(Uses)
        BY <1>7 DEF RejectTagName, AtTag, Range
    <2>2. NameRefusal /\ part' = "identifier"
        BY <1>7, <2>1 DEF RejectTagName, Refuse, NameRefusal
    <2>3. SymbolRefusalIsJustified'
        BY <1>0, <2>2, RefusalStays
    <2>4. QED
        BY <1>1, <1>2, <1>4, <1>5, <2>3 DEF SymbolsInv
<1>8. CASE RejectAmbiguousEnum
    <2>1. /\ at \in DOMAIN Uses /\ at \in DOMAIN lowered /\ lowered[at].enum # {}
          /\ Cardinality(EnumsOf(Uses[at])) # 1 /\ part' = "ambiguous_enum"
        BY <1>0, <1>8, AllAreResolved DEF RejectAmbiguousEnum, AtTag, HasEnum, Refuse
    <2>2. Denotes(Uses[at], lowered[at])
        BY <1>0, <2>1 DEF Inv, UsesInv
    <2>3. PICK i \in DOMAIN resolved :
              Selected(Uses[at].owner, Uses[at].type) = {i} /\ lowered[at] = resolved[i]
        BY <2>1, <2>2 DEF Denotes, Lowering
    <2>4. SelectedEnum(Uses[at], i)
        BY <1>0, <1>3, <1>8, <2>1, <2>3, SelectedIsNamed
    <2>5. PICK j \in DOMAIN resolved :
              /\ i # j /\ Types[j].name = Uses[at].type /\ resolved[j].enum # {}
              /\ \/ /\ Types[i].owner # Uses[at].owner
                    /\ Types[j].owner \notin Visible(graph.dependencies, Uses[at].owner)
                 \/ /\ Types[i].owner = Uses[at].owner
                    /\ IsRoot(Uses[at].owner) /\ Len(Uses[at].owner) > 1
        BY <1>0, <1>3, <1>8, <2>1, <2>3, <2>4, RefusalHasCause
    <2>6. Uses[at] \in Range(Uses)
        BY <2>1 DEF Range
    <2>7. EnumRefusal
        BY <2>3, <2>5, <2>6 DEF EnumRefusal
    <2>8. SymbolRefusalIsJustified'
        BY <1>0, <2>1, <2>7, RefusalStays
    <2>9. QED
        BY <1>1, <1>2, <1>4, <1>5, <2>8 DEF SymbolsInv
<1>9. QED
    BY <1>6, <1>7, <1>8

LEMMA ReturnHeaderKeeps ==
    ASSUME SymbolsInv, ReturnHeader
    PROVE  SymbolsInv'
<1>0. /\ UNCHANGED vars /\ at' = at /\ header' = header /\ part' = "rendered"
      /\ stage = "done" /\ part = "objects"
    BY DEF ReturnHeader, SymbolsInv, ProgressInv
<1>1. /\ Inv' /\ Types' = Types /\ stage' = stage
      /\ \A i : EnumIsNamed(i)' = EnumIsNamed(i)
    BY <1>0, ResultKeeps DEF SymbolsInv
<1>2. SymbolsTypeInv' /\ ProgressInv'
    BY <1>0, <1>1 DEF SymbolsInv, SymbolsTypeInv, ProgressInv, Tags
<1>3. NamedInv'
    BY <1>0, <1>1 DEF SymbolsInv, NamedInv
<1>4. TagsInv'
    BY <1>0, TagsStay DEF SymbolsInv
<1>5. SymbolRefusalIsJustified'
    BY <1>0 DEF SymbolRefusalIsJustified
<1>6. QED
    BY <1>1, <1>2, <1>3, <1>4, <1>5 DEF SymbolsInv

LEMMA StutterKeeps ==
    ASSUME SymbolsInv, UNCHANGED symbolVars
    PROVE  SymbolsInv'
<1>0. UNCHANGED vars /\ part' = part /\ at' = at /\ header' = header
    BY DEF symbolVars
<1>1. /\ Inv' /\ Types' = Types /\ stage' = stage
      /\ \A i : EnumIsNamed(i)' = EnumIsNamed(i)
    BY <1>0, ResultKeeps DEF SymbolsInv
<1>2. SymbolsTypeInv' /\ ProgressInv' /\ NamedInv'
    BY <1>0, <1>1 DEF SymbolsInv, SymbolsTypeInv, ProgressInv, NamedInv, Tags
<1>3. TagsInv'
    BY <1>0, TagsStay DEF SymbolsInv
<1>4. SymbolRefusalIsJustified'
    <2>1. /\ part = "identifier" => NameRefusal
          /\ part = "ambiguous_enum" => EnumRefusal
        BY DEF SymbolsInv, SymbolRefusalIsJustified, NameRefusal, EnumRefusal
    <2>2. QED
        BY <1>0, <2>1, RefusalStays DEF SymbolsInv
<1>5. QED
    BY <1>1, <1>2, <1>3, <1>4 DEF SymbolsInv

LEMMA SymbolsStepInv == SymbolsInv /\ [SymbolsNext]_symbolVars => SymbolsInv'
BY ResolveKeeps, EnumKeeps, StartObjectsKeeps, RenderTagKeeps, RefuseKeeps, ReturnHeaderKeeps,
   StutterKeeps DEF SymbolsNext

LEMMA SymbolsInvariance == SymbolsSpec => []SymbolsInv
BY SymbolsInitInv, SymbolsStepInv, PTL DEF SymbolsSpec

-----------------------------------------------------------------------------
\* What the generator makes of a use that has an enum is what the resolver did.
LEMMA TagHasResolvedEnum ==
    ASSUME SymbolsInv, ~HasDottedNames, NEW k \in DOMAIN header.tags
    PROVE  header.tags[k].enum = IF lowered[k].enum = {} THEN {}
                                 ELSE Selected(Uses[k].owner, Uses[k].type)
<1>1. Inv /\ k \in DOMAIN Uses /\ IsTag(Uses[k], lowered[k].enum, header.tags[k])
    BY DEF SymbolsInv, TagsInv
<1>2. CASE lowered[k].enum = {}
    BY <1>1, <1>2 DEF IsTag
<1>3. CASE lowered[k].enum # {}
    <2>1. header.tags[k].enum = EnumsOf(Uses[k]) /\ Cardinality(EnumsOf(Uses[k])) = 1
        BY <1>1, <1>3 DEF IsTag
    <2>2. header.tags # << >>
        OBVIOUS
    <2>3. stage = "done" /\ \A i \in DOMAIN Types : EnumIsNamed(i)
        BY <2>2 DEF SymbolsInv, NamedInv, ProgressInv
    <2>4. k \in DOMAIN lowered
        BY <1>1, <2>3, AllAreResolved
    <2>5. PICK i \in DOMAIN resolved :
              Selected(Uses[k].owner, Uses[k].type) = {i} /\ lowered[k] = resolved[i]
        BY <1>1, <1>3, <2>4 DEF Inv, UsesInv, Denotes, Lowering
    <2>6. SelectedEnum(Uses[k], i)
        BY <1>1, <1>3, <2>3, <2>5, SelectedIsNamed
    <2>7. EnumsOf(Uses[k]) = {i}
        BY <1>1, <2>1, <2>6, LookupsAgree
    <2>8. QED
        BY <1>3, <2>1, <2>5, <2>7
<1>4. QED
    BY <1>2, <1>3

LEMMA NamesOfTagRoute ==
    ASSUME SymbolsInv, ~HasDottedNames, NEW k \in DOMAIN header.tags
    PROVE  LET tag == header.tags[k]
               full == Append(tag.scope, tag.name)
               route == Route(Uses[k])
           IN  /\ k \in DOMAIN Uses
               /\ Len(route) \in 1..3 /\ Len(full) = Len(route) /\ Len(tag.scope) = Len(full) - 1
               /\ \A m \in 1..Len(full) : full[m] = PascalCase(route[m]) /\ route[m] \in ScopeNames
               /\ \A m \in 1..Len(tag.scope) : tag.scope[m] = full[m]
<1>1. Inv /\ k \in DOMAIN Uses /\ IsTag(Uses[k], lowered[k].enum, header.tags[k])
    BY DEF SymbolsInv, TagsInv
<1>2. Uses[k].path \in Seq(Names) /\ Len(Uses[k].path) \in {1, 2}
    BY <1>1, DefinitionTypes DEF Inv
<1>3. \A m \in 1..Len(Route(Uses[k])) : Route(Uses[k])[m] \in ScopeNames
    BY <1>1, RoutesHaveScopeNames
<1>4. /\ header.tags[k].scope = Scope(Uses[k])
      /\ header.tags[k].name = PascalCase(Uses[k].path[Len(Uses[k].path)])
    BY <1>1 DEF IsTag
<1>5. QED
    BY <1>1, <1>2, <1>3, <1>4, FullNameOfRoute DEF FullName

\* No full name of a tag begins with that of another.
LEMMA FullNamesStayApart ==
    ASSUME SymbolsInv, ~HasDottedNames, NamesStayApart,
           NEW j \in DOMAIN header.tags, NEW k \in DOMAIN header.tags, j # k,
           NEW f, f = Append(header.tags[j].scope, header.tags[j].name),
           NEW g, g = Append(header.tags[k].scope, header.tags[k].name),
           Len(f) <= Len(g), \A m \in 1..Len(f) : f[m] = g[m]
    PROVE  FALSE
<1>1. PICK a, b : a = Route(Uses[j]) /\ b = Route(Uses[k])
    OBVIOUS
<1>2. /\ j \in DOMAIN Uses /\ Len(a) \in 1..3 /\ Len(f) = Len(a)
      /\ \A m \in 1..Len(f) : f[m] = PascalCase(a[m]) /\ a[m] \in ScopeNames
    BY <1>1, NamesOfTagRoute
<1>3. /\ k \in DOMAIN Uses /\ Len(b) \in 1..3 /\ Len(g) = Len(b)
      /\ \A m \in 1..Len(g) : g[m] = PascalCase(b[m]) /\ b[m] \in ScopeNames
    BY <1>1, NamesOfTagRoute
<1>4. \A x, y \in ScopeNames : PascalCase(x) = PascalCase(y) => x = y
    BY DEF NamesStayApart, ScopeNames
<1>5. ASSUME NEW m \in 1..Len(a)
      PROVE  a[m] = b[m]
    <2>1. m \in 1..Len(f) /\ m \in 1..Len(g)
        BY <1>2, <1>3
    <2>2. QED
        BY <1>2, <1>3, <1>4, <2>1
<1>6. QED
    BY <1>1, <1>2, <1>3, <1>5, RoutesStayApart DEF SymbolsInv

-----------------------------------------------------------------------------
\* _enum_type_name, which looks a type up by name again and knows nothing of
\* imports, never renders another enum than resolve_graph_types lowered to,
\* where no namespace is dotted.
THEOREM TagsHaveResolvedEnums == SymbolsSpec => []TagsKeepResolvedEnums
<1>1. SymbolsInv => TagsKeepResolvedEnums
    BY TagHasResolvedEnum DEF TagsKeepResolvedEnums
<1>2. QED
    BY <1>1, SymbolsInvariance, PTL

\* generate_cpp_symbols refuses a resolved graph for names that are not
\* identifiers, and for an ambiguity that imports or the device's name explain.
THEOREM RefusesForNames == SymbolsSpec => []SymbolRefusalIsJustified
<1>1. SymbolsInv => SymbolRefusalIsJustified
    BY DEF SymbolsInv
<1>2. QED
    BY <1>1, SymbolsInvariance, PTL

\* The namespaces that _object_tags nests tags in keep apart all the names that
\* _pascal_case keeps apart.
THEOREM HeaderHasNoDuplicates == SymbolsSpec => []ScopesHaveNoDuplicates
<1>1. SymbolsInv => ScopesHaveNoDuplicates
    <2> SUFFICES ASSUME SymbolsInv, ~HasDottedNames, NamesStayApart,
                        NEW j \in DOMAIN header.tags, NEW k \in DOMAIN header.tags
                 PROVE  LET full(t) == Append(t.scope, t.name)
                            t == header.tags[j]
                            u == header.tags[k]
                        IN  /\ j # k => full(t) # full(u)
                            /\ ~(Len(full(t)) <= Len(u.scope)
                                 /\ SubSeq(u.scope, 1, Len(full(t))) = full(t))
        BY DEF ScopesHaveNoDuplicates
    <2>1. PICK f : f = Append(header.tags[j].scope, header.tags[j].name)
        OBVIOUS
    <2>2. PICK g, scope : g = Append(header.tags[k].scope, header.tags[k].name)
                          /\ scope = header.tags[k].scope
        OBVIOUS
    <2>3. Len(f) \in 1..3 /\ Len(g) \in 1..3
        BY <2>1, <2>2, NamesOfTagRoute
    <2>4. Len(scope) = Len(g) - 1 /\ \A m \in 1..Len(scope) : scope[m] = g[m]
        BY <2>2, NamesOfTagRoute
    <2>5. ASSUME j # k, f = g
          PROVE  FALSE
        <3>1. Len(f) <= Len(g)
            BY <2>3, <2>5
        <3>2. \A m \in 1..Len(f) : f[m] = g[m]
            BY <2>5
        <3>3. QED
            BY <2>1, <2>2, <2>5, <3>1, <3>2, FullNamesStayApart
    <2>6. ASSUME Len(f) <= Len(scope), SubSeq(scope, 1, Len(f)) = f
          PROVE  FALSE
        <3>1. PICK n : n = Len(f)
            OBVIOUS
        <3>2. n \in 1..3 /\ n <= Len(g) /\ n < Len(g)
            BY <2>3, <2>4, <2>6, <3>1
        <3>3. j # k
            BY <2>1, <2>2, <3>1, <3>2
        <3>4. ASSUME NEW m \in 1..n
              PROVE  f[m] = g[m]
            <4>1. SubSeq(scope, 1, n)[m] = scope[m]
                BY <3>2
            <4>2. m \in 1..Len(scope)
                BY <2>3, <2>6, <3>1, <3>2, <2>4
            <4>3. QED
                BY <2>4, <2>6, <3>1, <4>1, <4>2
        <3>5. QED
            BY <2>1, <2>2, <3>1, <3>2, <3>3, <3>4, FullNamesStayApart
    <2>7. QED
        BY <2>1, <2>2, <2>5, <2>6
<1>2. QED
    BY <1>1, SymbolsInvariance, PTL

=============================================================================
