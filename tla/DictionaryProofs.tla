-------------------------- MODULE DictionaryProofs --------------------------
(***************************************************************************)
(* Proofs about the allocation of a whole device, for every sequence of    *)
(* categories and definitions and every value of the hash.                 *)
(*                                                                         *)
(* What is proved of one pass is taken from AddressRangeProofs: here it is *)
(* carried from the end of a pass to the finished dictionary, over the     *)
(* passes that reuse its variables.                                        *)
(***************************************************************************)
EXTENDS Artifacts, TLAPS, FiniteSetTheorems, SequenceTheorems

\* The pass with what is proved of it.
A == INSTANCE AddressRangeProofs WITH InputRanges <- {}, InputItems <- {}

-----------------------------------------------------------------------------
\* It is the pass that the dictionary makes.
LEMMA SameSpace ==
    /\ A!Ranges = Ranges /\ A!Items = Items
    /\ \A r : A!Size(r) = Size(r) /\ A!Addresses(r) = Addresses(r)
    /\ \A r, x : A!InitialSlot(r, x) = InitialSlot(r, x)
    /\ \A r, x, p : A!Candidate(r, x, p) = Candidate(r, x, p)
    /\ \A s : A!Range(s) = Range(s) /\ (A!HasUniqueNames(s) <=> HasUniqueNames(s))
BY DEF Ranges, Items, Size, Addresses, Candidate, InitialSlot, Range, HasUniqueNames,
       A!Ranges, A!Items, A!Size, A!Addresses, A!Candidate, A!InitialSlot, A!Range,
       A!HasUniqueNames

LEMMA SamePlacement ==
    ASSUME NEW r, NEW S, NEW m
    PROVE  A!IsPlacement(r, S, m) <=> IsPlacement(r, S, m)
<1>1. \A y, x : A!HasPriority(y, x) <=> HasPriority(y, x)
  BY DEF HasPriority, A!HasPriority
<1>2. \A x, p : A!IsFirstFree(r, S, m, x, p) <=> IsFirstFree(r, S, m, x, p)
  BY <1>1, SameSpace DEF IsFirstFree, A!IsFirstFree
<1> QED
  BY <1>2, SameSpace DEF IsPlacement, A!IsPlacement

LEMMA SameErrors == Pass!Errors = A!Errors
BY DEF Pass!Errors, A!Errors

LEMMA PassAssumptions ==
    A!InputRangesAssumption /\ A!InputItemsAssumption /\ A!NoneAssumption
BY NoneAssumption DEF A!InputRangesAssumption, A!InputItemsAssumption, A!NoneAssumption

\* A call begins a pass in an inductive state, and each of its steps keeps it.
LEMMA PassCalled ==
    ASSUME NEW r \in Ranges, NEW s \in Seq(Items), HasUniqueNames(s), Pass!Call(r, s)
    PROVE  A!PassInv' /\ range' = r /\ items' = s
<1>1. A!Call(r, s) /\ range' = r /\ items' = s
  BY DEF Pass!Call, A!Call
<1>2. r \in A!Ranges /\ s \in Seq(A!Items) /\ A!HasUniqueNames(s)
  BY SameSpace
<1> QED
  BY <1>1, <1>2, PassAssumptions, A!CallPassInv

LEMMA PassNext == Pass!Next => A!Next
<1> USE DEF Pass!IsExplicit, A!IsExplicit, Pass!InExplicitLoop, A!InExplicitLoop,
            Pass!Addresses, A!Addresses, Pass!Assign, A!Assign, Pass!Insert, A!Insert,
            Pass!Waiting, A!Waiting, Pass!Current, A!Current, Pass!Size, A!Size,
            Pass!InProbeLoop, A!InProbeLoop, Pass!Candidate, A!Candidate,
            Pass!InitialSlot, A!InitialSlot
<1>1. Pass!SkipAutomatic => A!SkipAutomatic
  BY DEF Pass!SkipAutomatic, A!SkipAutomatic
<1>2. Pass!RejectOutOfRange => A!RejectOutOfRange
  BY DEF Pass!RejectOutOfRange, A!RejectOutOfRange
<1>3. Pass!RejectCollision => A!RejectCollision
  BY DEF Pass!RejectCollision, A!RejectCollision
<1>4. Pass!ReserveExplicit => A!ReserveExplicit
  BY DEF Pass!ReserveExplicit, A!ReserveExplicit
<1>5. Pass!BeginAutomatic => A!BeginAutomatic
  BY DEF Pass!BeginAutomatic, A!BeginAutomatic
<1>6. Pass!ProbeOccupied => A!ProbeOccupied
  BY ZenonT(40) DEF Pass!ProbeOccupied, A!ProbeOccupied
<1>7. Pass!AssignAutomatic => A!AssignAutomatic
  BY ZenonT(40) DEF Pass!AssignAutomatic, A!AssignAutomatic
<1>8. Pass!RejectExhausted => A!RejectExhausted
  BY DEF Pass!RejectExhausted, A!RejectExhausted
<1>9. Pass!Finish => A!Finish
  BY DEF Pass!Finish, A!Finish
<1> QED
  BY <1>1, <1>2, <1>3, <1>4, <1>5, <1>6, <1>7, <1>8, <1>9 DEF Pass!Next, A!Next

LEMMA PassSteps ==
    ASSUME A!PassInv, Pass!Next
    PROVE  A!PassInv' /\ range' = range /\ items' = items
<1>1. A!PassInv'
  BY PassNext, PassAssumptions, A!NextPassInv
<1>2. range' = range /\ items' = items
  BY DEF Pass!Next, Pass!SkipAutomatic, Pass!RejectOutOfRange, Pass!RejectCollision,
         Pass!ReserveExplicit, Pass!BeginAutomatic, Pass!ProbeOccupied,
         Pass!AssignAutomatic, Pass!RejectExhausted, Pass!Finish
<1> QED
  BY <1>1, <1>2

\* A pass refuses what is crowded.
LEMMA RefusedIsCrowded ==
    ASSUME A!PassInv, phase \in Pass!Errors
    PROVE  Crowded(range, items)
BY SameSpace DEF A!PassInv, A!RefusalInv, A!IsExplicit, Crowded, Pass!Errors

\* And has placed what it does not refuse.
LEMMA AllocatedIsPlaced ==
    ASSUME A!PassInv, phase = "allocated"
    PROVE  A!Allocation(range, Range(items), assigned)
<1>1. A!Outcome(range, items, phase, assigned)
  BY PassAssumptions, A!EndedOutcome DEF A!Ended
<1> QED
  BY <1>1, SameSpace DEF A!Outcome

LEMMA PlacedIsNotCrowded ==
    ASSUME NEW r \in Ranges, NEW s \in Seq(Items), HasUniqueNames(s), NEW as,
           A!Allocation(r, Range(s), as)
    PROVE  /\ ~Crowded(r, s)
           /\ A!AddressesOf(as) \in [{x.name : x \in Range(s)} -> Addresses(r)]
           /\ IsPlacement(r, Range(s), A!AddressesOf(as))
<1> DEFINE S == Range(s)
           m == A!AddressesOf(as)
<1>1. /\ \A i \in DOMAIN s : s[i] \in S
      /\ S \subseteq Items
  BY DEF Range
<1> HIDE DEF S, m
<1>2. m \in [{x.name : x \in S} -> Addresses(r)] /\ A!IsPlacement(r, S, m)
  BY <1>1, SameSpace, PassAssumptions, A!AllocationIsPlacement DEF S, m
<1>3. IsPlacement(r, S, m)
  BY <1>2, SamePlacement
<1>4. ~(Len(s) > Size(r))
  <2>1. r \in A!Ranges /\ s \in Seq(A!Items) /\ A!HasUniqueNames(s)
    BY SameSpace
  <2>2. A!IsPlacement(r, A!Range(s), m)
    BY <1>2, SameSpace DEF S
  <2>3. Len(s) > A!Size(r) => FALSE
    BY <2>1, <2>2, PassAssumptions, A!TooManyItems
  <2> QED
    BY <2>3, SameSpace
<1>5. \A i \in DOMAIN s : s[i].explicit # None => s[i].explicit \in Addresses(r)
  BY <1>1, <1>3 DEF IsPlacement
<1>6. ASSUME NEW i \in DOMAIN s, NEW j \in DOMAIN s, s[i].explicit # None,
             s[i].explicit = s[j].explicit
      PROVE  i = j
  <2>1. s[i] = s[j]
    BY <1>1, <1>3, <1>6 DEF IsPlacement
  <2> QED
    BY <2>1 DEF HasUniqueNames
<1> QED
  BY <1>2, <1>3, <1>4, <1>5, <1>6 DEF Crowded, S, m

-----------------------------------------------------------------------------
\* Filtering in input order: a finite set of positions can be listed in order,
\* and the list has all of them.

IsInOrder(p) == \A j, k \in DOMAIN p : j < k => p[j] < p[k]

\* By the least size of a set without a list: such a set without its least
\* element has one.
LEMMA ListExists ==
    ASSUME NEW Q, Q \subseteq Nat, IsFiniteSet(Q)
    PROVE  \E p \in [1..Cardinality(Q) -> Q] : IsInOrder(p)
<1> DEFINE HasList(P) == \E p \in [1..Cardinality(P) -> P] : IsInOrder(p)
           D == {n \in Nat : \E P : /\ P \subseteq Nat /\ IsFiniteSet(P)
                                    /\ Cardinality(P) = n /\ ~HasList(P)}
<1>1. ASSUME D # {} PROVE FALSE
  <2>1. PICK n \in D : \A k \in D : n <= k
    BY <1>1, PassAssumptions, A!NatHasLeast
  <2>2. PICK P : P \subseteq Nat /\ IsFiniteSet(P) /\ Cardinality(P) = n /\ ~HasList(P)
    BY <2>1
  <2>3. n \in Nat
    BY <2>1
  <2>4. CASE P = {}
    <3> DEFINE e == [i \in 1..0 |-> 0]
    <3>1. Cardinality(P) = 0
      BY <2>4, FS_EmptySet
    <3>2. e \in [1..Cardinality(P) -> P] /\ IsInOrder(e)
      BY <3>1 DEF IsInOrder
    <3> QED
      BY <2>2, <3>2
  <2>5. CASE P # {}
    <3>1. PICK x \in P : \A y \in P : x <= y
      BY <2>2, <2>5, PassAssumptions, A!NatHasLeast
    <3> DEFINE P1 == P \ {x}
    <3>2. IsFiniteSet(P1) /\ Cardinality(P1) = n - 1 /\ n # 0
      BY <2>2, <2>5, FS_RemoveElement, FS_EmptySet
    <3>3. n - 1 \in Nat /\ n - 1 \notin D
      BY <2>1, <2>3, <3>2
    <3>4. HasList(P1)
      BY <2>2, <3>2, <3>3
    <3>5. PICK q \in [1..(n - 1) -> P1] : IsInOrder(q)
      BY <3>2, <3>4
    <3> DEFINE p == [k \in 1..n |-> IF k = 1 THEN x ELSE q[k - 1]]
    <3>6. \A k \in 1..n : k # 1 => k - 1 \in 1..(n - 1)
      BY <2>3
    <3>7. \A k \in 1..n : k # 1 => q[k - 1] \in P /\ q[k - 1] # x
      BY <3>5, <3>6
    <3>8. p \in [1..n -> P]
      BY <3>1, <3>7
    <3>9. \A j, k \in 1..n : j < k => p[j] < p[k]
      <4> SUFFICES ASSUME NEW j \in 1..n, NEW k \in 1..n, j < k PROVE p[j] < p[k]
        OBVIOUS
      <4>1. k # 1 /\ p[k] = q[k - 1] /\ q[k - 1] \in P /\ q[k - 1] # x
        BY <2>3, <3>7
      <4>2. CASE j = 1
        <5>1. p[j] = x /\ x <= q[k - 1] /\ x \in Nat /\ q[k - 1] \in Nat
          BY <2>2, <3>1, <4>1, <4>2
        <5> QED
          BY <4>1, <5>1
      <4>3. CASE j # 1
        <5>1. p[j] = q[j - 1] /\ j - 1 \in 1..(n - 1) /\ k - 1 \in 1..(n - 1) /\ j - 1 < k - 1
          BY <2>3, <3>6, <4>1, <4>3
        <5>2. q[j - 1] < q[k - 1]
          BY <3>5, <5>1 DEF IsInOrder
        <5> QED
          BY <4>1, <5>1, <5>2
      <4> QED
        BY <4>2, <4>3
    <3>10. p \in [1..Cardinality(P) -> P] /\ IsInOrder(p)
      BY <2>2, <3>8, <3>9 DEF IsInOrder
    <3> QED
      BY <2>2, <3>10
  <2> QED
    BY <2>4, <2>5
<1>2. Cardinality(Q) \in Nat
  BY FS_CardinalityType
<1>3. HasList(Q)
  BY <1>1, <1>2
<1> QED
  BY <1>3

LEMMA InOrderLists ==
    ASSUME NEW P, P \subseteq Nat, IsFiniteSet(P)
    PROVE  /\ Cardinality(P) \in Nat
           /\ InOrder(P) \in [1..Cardinality(P) -> P]
           /\ \A j, k \in 1..Cardinality(P) : InOrder(P)[j] = InOrder(P)[k] => j = k
           /\ \A i \in P : \E k \in 1..Cardinality(P) : InOrder(P)[k] = i
<1> DEFINE n == Cardinality(P)
           p == InOrder(P)
<1>1. n \in Nat
  BY FS_CardinalityType
<1>2. p \in [1..n -> P] /\ IsInOrder(p)
  BY ListExists DEF InOrder, IsInOrder
<1> HIDE DEF n, p
<1>3. \A k \in 1..n : p[k] \in Nat
  BY <1>2
<1>4. \A j, k \in 1..n : p[j] = p[k] => j = k
  BY <1>1, <1>2, <1>3 DEF IsInOrder
<1>5. ASSUME NEW i \in P, \A k \in 1..n : p[k] # i PROVE FALSE
  <2>1. p \in [1..n -> P \ {i}]
    BY <1>2, <1>5
  <2>2. IsFiniteSet(P \ {i}) /\ Cardinality(P \ {i}) = n - 1
    BY FS_RemoveElement DEF n
  <2>3. IsFiniteSet(1..n) /\ Cardinality(1..n) = n
    BY <1>1, FS_Interval
  <2>4. \E j, k \in 1..n : j # k /\ p[j] = p[k]
    BY <1>1, <2>1, <2>2, <2>3, FS_PigeonHole
  <2> QED
    BY <1>4, <2>4
<1> QED
  BY <1>1, <1>2, <1>4, <1>5 DEF n, p

-----------------------------------------------------------------------------
\* The definitions and their names.

DefinitionsInv ==
    /\ definitions \in Seq(ObjectDefinitions)
    /\ \A i \in DOMAIN definitions :
          definitions[i].kind # "record" => definitions[i].fields = << >>

LEMMA DefinitionTypes ==
    ASSUME DefinitionsInv, NEW i \in DOMAIN definitions
    PROVE  /\ i \in Nat \ {0}
           /\ definitions[i] \in ObjectDefinitions
           /\ Item(definitions[i]) \in Items
           /\ definitions[i].fields \in Seq(Items)
<1>1. i \in Nat \ {0} /\ definitions[i] \in ObjectDefinitions
  BY DEF DefinitionsInv
<1> QED
  BY <1>1 DEF ObjectDefinitions, Item, Items

\* Different objects have different names, and so have the fields of an object.
LEMMA DifferentNames ==
    ASSUME DefinitionsInv, NamesAreUnique
    PROVE  /\ \A i, j \in DOMAIN definitions : definitions[i].name = definitions[j].name => i = j
           /\ \A i \in DOMAIN definitions : HasUniqueNames(definitions[i].fields)
<1>1. ASSUME NEW i \in DOMAIN definitions, NEW j \in DOMAIN definitions,
             definitions[i].name = definitions[j].name
      PROVE  i = j
  <2>1. <<i, 0>> \in NameOwners /\ <<j, 0>> \in NameOwners
    BY DEF NameOwners
  <2>2. QualifiedName(<<i, 0>>) = QualifiedName(<<j, 0>>)
    BY <1>1 DEF QualifiedName
  <2> QED
    BY <2>1, <2>2 DEF NamesAreUnique
<1>2. ASSUME NEW i \in DOMAIN definitions PROVE HasUniqueNames(definitions[i].fields)
  <2> DEFINE fs == definitions[i].fields
  <2> SUFFICES ASSUME NEW j \in DOMAIN fs, NEW k \in DOMAIN fs, fs[j].name = fs[k].name
               PROVE  j = k
    BY DEF HasUniqueNames
  <2>1. j # 0 /\ k # 0
    BY DefinitionTypes
  <2>2. <<i, j>> \in NameOwners /\ <<i, k>> \in NameOwners
    BY DEF NameOwners
  <2>3. QualifiedName(<<i, j>>) = QualifiedName(<<i, k>>)
    BY <2>1 DEF QualifiedName
  <2> QED
    BY <2>2, <2>3 DEF NamesAreUnique
<1> QED
  BY <1>1, <1>2

\* The items of a category are those of its definitions.
LEMMA ItemsOfCategory ==
    ASSUME DefinitionsInv, NEW c
    PROVE  /\ CategoryItems(c) \in Seq(Items)
           /\ \A i \in Positions(c) : Item(definitions[i]) \in Range(CategoryItems(c))
           /\ \A x \in Range(CategoryItems(c)) : \E i \in Positions(c) : x = Item(definitions[i])
           /\ NamesAreUnique => HasUniqueNames(CategoryItems(c))
<1> DEFINE P == Positions(c)
           p == InOrder(P)
           n == Cardinality(P)
           s == CategoryItems(c)
<1>1. P \subseteq DOMAIN definitions /\ P \subseteq Nat /\ IsFiniteSet(P)
  <2>1. P \subseteq DOMAIN definitions
    BY DEF Positions
  <2>2. DOMAIN definitions = 1..Len(definitions) /\ Len(definitions) \in Nat
    BY DEF DefinitionsInv
  <2>3. IsFiniteSet(DOMAIN definitions)
    BY <2>2, FS_Interval
  <2> QED
    BY <2>1, <2>2, <2>3, FS_Subset
<1>2. /\ n \in Nat /\ p \in [1..n -> P]
      /\ \A j, k \in 1..n : p[j] = p[k] => j = k
      /\ \A i \in P : \E k \in 1..n : p[k] = i
  BY <1>1, InOrderLists
<1>3. s = [k \in 1..n |-> Item(definitions[p[k]])]
  BY <1>2 DEF CategoryItems
<1> HIDE DEF P, p, n, s
<1>4. \A k \in 1..n : p[k] \in P /\ p[k] \in DOMAIN definitions
  BY <1>1, <1>2
<1>5. \A k \in 1..n : Item(definitions[p[k]]) \in Items
  BY <1>4, DefinitionTypes
<1>6. s \in Seq(Items)
  <2>1. s \in [1..n -> Items]
    BY <1>3, <1>5
  <2> QED
    BY <1>2, <2>1, SeqDef
<1>7. ASSUME NEW i \in P PROVE Item(definitions[i]) \in Range(s)
  BY <1>2, <1>3 DEF Range
<1>8. ASSUME NEW x \in Range(s) PROVE \E i \in P : x = Item(definitions[i])
  BY <1>3, <1>4 DEF Range
<1>9. ASSUME NamesAreUnique PROVE HasUniqueNames(s)
  BY <1>2, <1>3, <1>4, <1>9, DifferentNames DEF HasUniqueNames, Item
<1> QED
  BY <1>6, <1>7, <1>8, <1>9 DEF P, s

-----------------------------------------------------------------------------
\* The inductive invariant.

NamesIn(k) == {x.name : x \in Range(CategoryItems(Categories[k]))}

\* The entries of a category are those of a pass over it alone.
IsPlaced(k) ==
    /\ NamesIn(k) \subseteq DOMAIN assignments
    /\ A!Allocation(CategoryRange[Categories[k]], Range(CategoryItems(Categories[k])),
                    [n \in NamesIn(k) |-> assignments[n]])

Fields(o) == {e \in o.entries : e.role # "count"}

SubindicesOf(o) ==
    [n \in {e.name : e \in Fields(o)} |-> (CHOOSE e \in Fields(o) : e.name = n).subindex]

EntriesAreRight(o, d) ==
    /\ \A e \in o.entries : e.subindex = 0 <=> e.role = "count"
    /\ \A e, f \in o.entries : e.subindex = f.subindex => e = f
    /\ o.count = Cardinality(Fields(o)) /\ o.count \in Nat
    /\ d.kind = "record" => IsPlacement(RecordRange, Range(d.fields), SubindicesOf(o))
    /\ IsFiniteSet(o.entries) /\ \A e \in o.entries : e.subindex \in Nat

\* Object o is what allocation makes of definition d.
IsBuilt(o, d) ==
    /\ o.name = d.name /\ o.category = d.category
    /\ o.index = assignments[d.name].address
    /\ o.source = assignments[d.name].source
    /\ o.probe = assignments[d.name].probe
    /\ d.kind = "variable" => o.count = None /\ o.entries = {}
    /\ d.kind # "variable" => EntriesAreRight(o, d)
    /\ d.kind = "array" => d.length \in 1..MaxLength
    /\ ~Crowded(RecordRange, d.fields)

PassOver(r, s) == A!PassInv /\ range = r /\ items = s

TypeInv ==
    /\ DefinitionsInv
    /\ stage \in {"checking", "categories", "indexing", "objects", "fields", "done", "failed"}
    /\ category \in 1..(Len(Categories) + 1)
    /\ \E S : objects \in Seq(S)

\* What the stage says of the state, and of the pass that it makes.
StageInv ==
    /\ stage \notin {"checking", "failed"} => NamesAreUnique
    /\ stage = "checking" => category = 1
    /\ stage \in {"checking", "categories", "indexing"} => objects = << >>
    /\ stage = "indexing" =>
          /\ category \in DOMAIN Categories
          /\ PassOver(CategoryRange[Categories[category]], CategoryItems(Categories[category]))
    /\ stage \in {"objects", "fields", "done"} => category = Len(Categories) + 1
    /\ stage = "fields" =>
          /\ Unbuilt # {} /\ definitions[NextToBuild].kind = "record"
          /\ PassOver(RecordRange, definitions[NextToBuild].fields)
    /\ stage = "done" => Unbuilt = {}

PlacedInv ==
    stage \notin {"checking", "failed"} =>
        \A k \in DOMAIN Categories : k < category => IsPlaced(k)

BuiltInv == \A k \in DOMAIN objects : \E i \in DOMAIN definitions : IsBuilt(objects[k], definitions[i])

FailedInv ==
    stage = "failed" =>
        \/ error = "duplicate_name" /\ ~NamesAreUnique
        \/ error \in {<<"index", e>> : e \in Pass!Errors} /\ AnyCategoryCrowded
        \/ /\ error = "array_length" \/ error \in {<<"subindex", e>> : e \in Pass!Errors}
           /\ AnyCompoundCrowded /\ ~AnyCategoryCrowded

Inv ==
    /\ TypeInv
    /\ StageInv
    /\ PlacedInv
    /\ BuiltInv
    /\ FailedInv
    /\ DiagnosticExplainsIndex

-----------------------------------------------------------------------------
\* What does not change while the definitions and the assignments do not.

LEMMA SameDefinitions ==
    ASSUME UNCHANGED definitions
    PROVE  /\ DefinitionsInv' <=> DefinitionsInv
           /\ NamesAreUnique' <=> NamesAreUnique
           /\ AnyCategoryCrowded' <=> AnyCategoryCrowded
           /\ AnyCompoundCrowded' <=> AnyCompoundCrowded
           /\ \A c : CategoryItems(c)' = CategoryItems(c)
           /\ \A k : NamesIn(k)' = NamesIn(k)
<1>1. \A c : CategoryItems(c)' = CategoryItems(c)
  BY DEF CategoryItems, Positions
<1>2. NamesAreUnique' <=> NamesAreUnique
  BY DEF NamesAreUnique, NameOwners, QualifiedName
<1>3. AnyCategoryCrowded' <=> AnyCategoryCrowded
  BY <1>1 DEF AnyCategoryCrowded
<1>4. AnyCompoundCrowded' <=> AnyCompoundCrowded
  BY DEF AnyCompoundCrowded
<1>5. \A k : NamesIn(k)' = NamesIn(k)
  BY <1>1 DEF NamesIn
<1> QED
  BY <1>1, <1>2, <1>3, <1>4, <1>5 DEF DefinitionsInv

LEMMA PlacedKept ==
    ASSUME UNCHANGED definitions, NEW k, IsPlaced(k),
           \A n \in NamesIn(k) : n \in DOMAIN assignments' /\ assignments'[n] = assignments[n]
    PROVE  IsPlaced(k)'
<1>1. NamesIn(k)' = NamesIn(k) /\ CategoryItems(Categories[k])' = CategoryItems(Categories[k])
  BY SameDefinitions
<1>2. [n \in NamesIn(k) |-> assignments[n]]' = [n \in NamesIn(k) |-> assignments[n]]
  BY <1>1
<1> QED
  BY <1>1, <1>2 DEF IsPlaced

LEMMA SameAssignments ==
    ASSUME UNCHANGED <<definitions, assignments>>
    PROVE  /\ \A k : IsPlaced(k) => IsPlaced(k)'
           /\ \A o, d : IsBuilt(o, d)' <=> IsBuilt(o, d)
<1>1. \A k : IsPlaced(k) => IsPlaced(k)'
  <2> SUFFICES ASSUME NEW k, IsPlaced(k) PROVE IsPlaced(k)'
    OBVIOUS
  <2> QED
    BY PlacedKept DEF IsPlaced
<1> QED
  BY <1>1 DEF IsBuilt

\* A step that starts no pass and builds no object.
LEMMA KeepsObjects ==
    ASSUME TypeInv, BuiltInv, UNCHANGED <<definitions, assignments, objects>>
    PROVE  /\ (\E S : objects \in Seq(S))'
           /\ BuiltInv'
           /\ Unbuilt' = Unbuilt /\ NextToBuild' = NextToBuild
<1>1. BuiltInv'
  BY SameAssignments DEF BuiltInv
<1>2. Unbuilt' = Unbuilt
  BY DEF Unbuilt
<1>3. NextToBuild' = NextToBuild
  BY <1>2 DEF NextToBuild, IndexOf
<1> QED
  BY <1>1, <1>2, <1>3 DEF TypeInv

-----------------------------------------------------------------------------
\* What a category that is placed says of its definitions.

LEMMA CategoryFacts ==
    /\ Len(Categories) \in Nat /\ DOMAIN Categories = 1..Len(Categories)
    /\ \A k \in DOMAIN Categories : CategoryRange[Categories[k]] \in Ranges
    /\ \A j, k \in DOMAIN Categories : Categories[j] = Categories[k] => j = k
    /\ \A c \in Range(Categories) : \E k \in DOMAIN Categories : c = Categories[k]
<1>1. Len(Categories) \in Nat /\ DOMAIN Categories = 1..Len(Categories)
  BY CategoriesAssumption
<1>2. \A k \in DOMAIN Categories : CategoryRange[Categories[k]] \in Ranges
  BY RangesAssumption
<1>3. ASSUME NEW j \in DOMAIN Categories, NEW k \in DOMAIN Categories,
             Categories[j] = Categories[k], j # k
      PROVE  FALSE
  <2> DEFINE r == CategoryRange[Categories[j]]
  <2>1. r.lo \in Addresses(r)
    BY <1>2 DEF Ranges, Addresses
  <2>2. Addresses(r) \intersect Addresses(r) = {}
    BY <1>3, RangesAssumption
  <2> QED
    BY <2>1, <2>2
<1> QED
  BY <1>1, <1>2, <1>3 DEF Range

LEMMA CategoryIsPlaced ==
    ASSUME DefinitionsInv, NamesAreUnique, NEW k \in DOMAIN Categories, IsPlaced(k)
    PROVE  LET s == CategoryItems(Categories[k])
               m == [n \in {x.name : x \in Range(s)} |-> assignments[n].address]
           IN  /\ ~Crowded(CategoryRange[Categories[k]], s)
               /\ IsPlacement(CategoryRange[Categories[k]], Range(s), m)
               /\ \A x \in Range(s) : m[x.name] \in Addresses(CategoryRange[Categories[k]])
<1> DEFINE s == CategoryItems(Categories[k])
           r == CategoryRange[Categories[k]]
           N == {x.name : x \in Range(s)}
           as == [n \in N |-> assignments[n]]
           m == [n \in N |-> assignments[n].address]
<1>1. s \in Seq(Items) /\ HasUniqueNames(s) /\ r \in Ranges
  BY ItemsOfCategory, CategoryFacts
<1>2. A!Allocation(r, Range(s), as)
  BY DEF IsPlaced, NamesIn
<1>3. A!AddressesOf(as) = m
  BY DEF A!AddressesOf
<1> HIDE DEF s, r, as, m
<1>4. ~Crowded(r, s) /\ m \in [N -> Addresses(r)] /\ IsPlacement(r, Range(s), m)
  BY <1>1, <1>2, <1>3, PlacedIsNotCrowded
<1>5. \A x \in Range(s) : m[x.name] \in Addresses(r)
  BY <1>4
<1> QED
  BY <1>4, <1>5 DEF s, r, m

LEMMA DefinitionIsPlaced ==
    ASSUME DefinitionsInv, NamesAreUnique, \A k \in DOMAIN Categories : IsPlaced(k),
           NEW i \in DOMAIN definitions
    PROVE  LET d == definitions[i]
               e == assignments[d.name]
           IN  /\ CategoryRange[d.category] \in Ranges
               /\ e.address \in Nat /\ e.address \in Addresses(CategoryRange[d.category])
               /\ e.source = "automatic" =>
                     e.probe \in Nat /\ e.address = Candidate(CategoryRange[d.category], d, e.probe)
<1> DEFINE d == definitions[i]
           e == assignments[d.name]
           x == Item(d)
<1>1. d \in ObjectDefinitions
  BY DefinitionTypes
<1>2. PICK k \in DOMAIN Categories : d.category = Categories[k]
  BY <1>1, CategoryFacts DEF ObjectDefinitions
<1> DEFINE r == CategoryRange[Categories[k]]
           S == Range(CategoryItems(Categories[k]))
           as == [n \in NamesIn(k) |-> assignments[n]]
<1>3. r \in Ranges
  BY CategoryFacts
<1>4. i \in Positions(Categories[k])
  BY <1>2 DEF Positions
<1>5. x \in S
  BY <1>4, ItemsOfCategory
<1>6. x.name = d.name /\ d.name \in NamesIn(k) /\ as[x.name] = e
  BY <1>5 DEF NamesIn, Item
<1>7. A!Allocation(r, S, as)
  BY DEF IsPlaced
<1>8. e.address \in Addresses(r)
  BY <1>5, <1>6, <1>7, SameSpace DEF A!Allocation
<1>9. e.address \in Nat
  BY <1>3, <1>8 DEF Addresses, Ranges
<1>10. ASSUME e.source = "automatic" PROVE e.probe \in Nat /\ e.address = Candidate(r, d, e.probe)
  <2>1. x.explicit = None
    <3>1. ASSUME x.explicit # None PROVE A!Explicitly(x, e)
      BY <1>5, <1>6, <1>7, <3>1 DEF A!Allocation
    <3>2. \A y, f : A!Explicitly(y, f) => f.source = "explicit"
      BY DEF A!Explicitly
    <3> QED
      BY <1>10, <3>1, <3>2
  <2>2. A!Automatically(r, S, as, x, as[x.name])
    BY <1>5, <1>7, <2>1 DEF A!Allocation
  <2>3. e.probe \in Nat /\ e.address = Candidate(r, x, e.probe)
    BY <1>6, <2>2, SameSpace DEF A!Automatically
  <2> QED
    BY <2>3 DEF Candidate, InitialSlot, Item
<1> QED
  BY <1>2, <1>3, <1>8, <1>9, <1>10

\* There is an unbuilt definition with the smallest index.
LEMMA NextIsUnbuilt ==
    ASSUME DefinitionsInv, NamesAreUnique, \A k \in DOMAIN Categories : IsPlaced(k), Unbuilt # {}
    PROVE  NextToBuild \in Unbuilt /\ NextToBuild \in DOMAIN definitions
<1> DEFINE T == {IndexOf(i) : i \in Unbuilt}
<1>1. Unbuilt \subseteq DOMAIN definitions
  BY DEF Unbuilt
<1>2. T \subseteq Nat /\ T # {}
  BY <1>1, DefinitionIsPlaced DEF IndexOf
<1>3. \E n \in T : \A m \in T : n <= m
  BY <1>2, PassAssumptions, A!NatHasLeast
<1>4. \E i \in Unbuilt : \A j \in Unbuilt : IndexOf(i) <= IndexOf(j)
  BY <1>3
<1> QED
  BY <1>1, <1>4 DEF NextToBuild

\* All categories are placed once there are none left.
LEMMA AllPlaced ==
    ASSUME Inv, stage \in {"categories", "objects", "fields", "done"}, category \notin DOMAIN Categories
    PROVE  /\ category = Len(Categories) + 1
           /\ NamesAreUnique /\ \A k \in DOMAIN Categories : IsPlaced(k)
           /\ ~AnyCategoryCrowded
<1>1. category = Len(Categories) + 1 /\ \A k \in DOMAIN Categories : k < category
  BY CategoryFacts DEF Inv, TypeInv
<1>2. NamesAreUnique /\ \A k \in DOMAIN Categories : IsPlaced(k)
  BY <1>1 DEF Inv, StageInv, PlacedInv
<1>3. ~AnyCategoryCrowded
  BY <1>2, CategoryIsPlaced DEF AnyCategoryCrowded, Inv, TypeInv
<1> QED
  BY <1>1, <1>2, <1>3

-----------------------------------------------------------------------------
\* The entries of a compound object.

LEMMA NothingIsCrowded ==
    ASSUME NEW s, s = << >>
    PROVE  ~Crowded(RecordRange, s)
<1>1. Len(s) = 0 /\ DOMAIN s = {}
  OBVIOUS
<1>2. Size(RecordRange) \in Nat
  BY RangesAssumption DEF Ranges, Size
<1> QED
  BY <1>1, <1>2 DEF Crowded

\* One entry per k of 1..n.
LEMMA CountsEntries ==
    ASSUME NEW n \in Nat, NEW T, NEW f \in [1..n -> T],
           \A j, k \in 1..n : f[j] = f[k] => j = k,
           \A t \in T : \E k \in 1..n : f[k] = t
    PROVE  IsFiniteSet(T) /\ Cardinality(T) = n
<1>1. IsFiniteSet(1..n) /\ Cardinality(1..n) = n
  BY FS_Interval
<1>2. f \in Bijection(1..n, T)
  BY DEF Bijection, Injection, Surjection, IsInjective
<1> QED
  BY <1>1, <1>2, FS_Bijection DEF ExistsBijection

LEMMA ArrayElements ==
    ASSUME NEW d, NEW n \in Nat
    PROVE  LET T == {SubEntry(k, d.name, "array-element") : k \in 1..n}
           IN  IsFiniteSet(T) /\ Cardinality(T) = n
<1> DEFINE T == {SubEntry(k, d.name, "array-element") : k \in 1..n}
           f == [k \in 1..n |-> SubEntry(k, d.name, "array-element")]
<1>1. f \in [1..n -> T]
  OBVIOUS
<1>2. \A t \in T : \E k \in 1..n : f[k] = t
  OBVIOUS
<1>3. \A j, k \in 1..n : f[j] = f[k] => j = k
  BY DEF SubEntry
<1> HIDE DEF f, T
<1>4. IsFiniteSet(T) /\ Cardinality(T) = n
  BY <1>1, <1>2, <1>3, CountsEntries
<1> QED
  BY <1>4 DEF T

LEMMA ArrayEntries ==
    ASSUME NEW o, NEW d, NEW n \in Nat, o.count = n, d.kind = "array",
           o.entries = {CountEntry(d)}
                          \union {SubEntry(k, d.name, "array-element") : k \in 1..n}
    PROVE  EntriesAreRight(o, d)
<1> DEFINE T == {SubEntry(k, d.name, "array-element") : k \in 1..n}
<1>1. \A e \in T : e.role = "array-element" /\ e.subindex \in 1..n
                   /\ e = SubEntry(e.subindex, d.name, "array-element")
  BY DEF SubEntry
<1>2. CountEntry(d).role = "count" /\ CountEntry(d).subindex = 0
  BY DEF CountEntry, SubEntry
<1>3. IsFiniteSet(T) /\ Cardinality(T) = n
  BY ArrayElements
<1> HIDE DEF T
<1>4. o.entries = {CountEntry(d)} \union T
  BY DEF T
<1>5. Fields(o) = T
  BY <1>1, <1>2, <1>4 DEF Fields
<1>6. \A e \in o.entries : e.subindex = 0 <=> e.role = "count"
  BY <1>1, <1>2, <1>4
<1>7. \A e, g \in o.entries : e.subindex = g.subindex => e = g
  BY <1>1, <1>2, <1>4
<1>8. IsFiniteSet(o.entries)
  BY <1>3, <1>4, FS_AddElement
<1>9. \A e \in o.entries : e.subindex \in Nat
  BY <1>1, <1>2, <1>4
<1> QED
  BY <1>3, <1>5, <1>6, <1>7, <1>8, <1>9 DEF EntriesAreRight

LEMMA RecordEntries ==
    ASSUME NEW o, NEW d, NEW as, d.fields \in Seq(Items), HasUniqueNames(d.fields),
           A!Allocation(RecordRange, Range(d.fields), as),
           o.count = Len(d.fields),
           o.entries = {CountEntry(d)}
                          \union {SubEntry(as[n].address, n, "record-field") : n \in DOMAIN as}
    PROVE  EntriesAreRight(o, d) /\ ~Crowded(RecordRange, d.fields)
<1> DEFINE s == d.fields
           r == RecordRange
           m == A!AddressesOf(as)
           N == {x.name : x \in Range(s)}
           entry(n) == SubEntry(as[n].address, n, "record-field")
           T == {entry(n) : n \in DOMAIN as}
<1>1. r \in Ranges /\ r.lo = 1
  BY RangesAssumption
<1>2. ~Crowded(r, s) /\ m \in [N -> Addresses(r)] /\ IsPlacement(r, Range(s), m)
  BY <1>1, PlacedIsNotCrowded
<1>3. DOMAIN as = N /\ \A n \in N : m[n] = as[n].address
  <2>1. m = [n \in DOMAIN as |-> as[n].address]
    BY DEF A!AddressesOf
  <2> QED
    BY <1>2, <2>1
<1>4. /\ \A x \in Range(s) : x.name \in N
      /\ \A n \in N : \E x \in Range(s) : x.name = n
  OBVIOUS
<1> HIDE DEF N
<1>5. \A n \in N : as[n].address \in Nat /\ as[n].address # 0
  <2>1. \A n \in N : m[n] \in Addresses(r)
    BY <1>2
  <2>2. \A a \in Addresses(r) : a \in Nat /\ a # 0
    BY <1>1 DEF Addresses, Ranges
  <2> QED
    BY <1>3, <2>1, <2>2
<1>6. \A j, k \in N : as[j].address = as[k].address => j = k
  <2>1. \A x, y \in Range(s) : m[x.name] = m[y.name] => x = y
    BY <1>2 DEF IsPlacement
  <2>2. ASSUME NEW j \in N, NEW k \in N, as[j].address = as[k].address PROVE j = k
    <3>1. m[j] = m[k]
      BY <1>3, <2>2
    <3>2. PICK x \in Range(s), y \in Range(s) : x.name = j /\ y.name = k
      BY <1>4
    <3> QED
      BY <2>1, <3>1, <3>2
  <2> QED
    BY <2>2
<1>7. /\ CountEntry(d).role = "count" /\ CountEntry(d).subindex = 0
      /\ \A n : entry(n).role = "record-field" /\ entry(n).name = n
                /\ entry(n).subindex = as[n].address
  BY DEF CountEntry, SubEntry
<1> HIDE DEF entry, m
<1>8. o.entries = {CountEntry(d)} \union T
  BY DEF entry
<1>9. \A e \in T : e.name \in N /\ e = entry(e.name)
  BY <1>3, <1>7
<1>10. \A n \in N : entry(n) \in T
  BY <1>3
<1> HIDE DEF T
<1>11. \A e \in T : /\ e.role = "record-field" /\ e.name \in N
                     /\ e.subindex = as[e.name].address
  BY <1>7, <1>9
<1>12. \A e \in T : e.subindex # 0 /\ e.role # "count"
  BY <1>5, <1>11
<1> DEFINE c == CountEntry(d)
<1>13. o.entries = {c} \union T /\ c.role = "count" /\ c.subindex = 0
  BY <1>7, <1>8
<1> HIDE DEF c
<1>14. Fields(o) = T
  BY <1>12, <1>13 DEF Fields
<1>15. \A e \in o.entries : e.subindex = 0 <=> e.role = "count"
  BY <1>12, <1>13
<1>16. ASSUME NEW e \in o.entries, NEW g \in o.entries, e.subindex = g.subindex
       PROVE  e = g
  <2>1. CASE e \in T /\ g \in T
    <3>1. /\ e.name \in N /\ g.name \in N
          /\ as[e.name].address = as[g.name].address
      BY <1>11, <1>16, <2>1
    <3>2. e.name = g.name
      BY <1>6, <3>1
    <3> QED
      BY <1>9, <2>1, <3>2
  <2>2. CASE e = c \/ g = c
    BY <1>12, <1>13, <1>16, <2>2
  <2> QED
    BY <1>13, <2>1, <2>2
<1>17. IsFiniteSet(T) /\ Cardinality(T) = Len(s)
  <2> DEFINE n == Len(s)
             f == [k \in 1..n |-> entry(s[k].name)]
  <2>1. n \in Nat /\ DOMAIN s = 1..n
    OBVIOUS
  <2>2. \A k \in 1..n : s[k] \in Range(s) /\ s[k].name \in N
    BY <1>4, <2>1 DEF Range
  <2>3. f \in [1..n -> T]
    BY <1>10, <2>2
  <2>4. \A j, k \in 1..n : f[j] = f[k] => j = k
    <3> SUFFICES ASSUME NEW j \in 1..n, NEW k \in 1..n, f[j] = f[k] PROVE j = k
      OBVIOUS
    <3>1. s[j].name = s[k].name
      BY <1>7
    <3> QED
      BY <2>1, <3>1 DEF HasUniqueNames
  <2>5. \A t \in T : \E k \in 1..n : f[k] = t
    <3> SUFFICES ASSUME NEW t \in T PROVE \E k \in 1..n : f[k] = t
      OBVIOUS
    <3>1. PICK x \in Range(s) : x.name = t.name
      BY <1>4, <1>9
    <3>2. PICK k \in 1..n : s[k] = x
      BY <2>1 DEF Range
    <3>3. f[k] = entry(t.name)
      BY <3>1, <3>2
    <3> QED
      BY <1>9, <3>3
  <2> HIDE DEF n, f
  <2>6. IsFiniteSet(T) /\ Cardinality(T) = n
    BY <2>1, <2>3, <2>4, <2>5, CountsEntries
  <2> QED
    BY <2>6 DEF n
<1>18. SubindicesOf(o) = m
  <2>1. {e.name : e \in Fields(o)} = N
    BY <1>7, <1>9, <1>10, <1>14
  <2>2. ASSUME NEW n \in N PROVE (CHOOSE e \in Fields(o) : e.name = n).subindex = m[n]
    <3>1. entry(n) \in Fields(o) /\ entry(n).name = n
      BY <1>7, <1>10, <1>14
    <3>2. \A e \in Fields(o) : e.name = n => e = entry(n)
      BY <1>9, <1>14
    <3>3. (CHOOSE e \in Fields(o) : e.name = n) = entry(n)
      BY <3>1, <3>2
    <3> QED
      BY <1>3, <1>7, <3>3
  <2>3. m = [n \in N |-> m[n]]
    BY <1>2
  <2> QED
    BY <2>1, <2>2, <2>3 DEF SubindicesOf
<1>19. IsFiniteSet(o.entries)
  <2>1. IsFiniteSet(T \union {c})
    BY <1>17, FS_AddElement
  <2>2. o.entries = T \union {c}
    BY <1>13
  <2> QED
    BY <2>1, <2>2
<1>20. ASSUME NEW e \in o.entries PROVE e.subindex \in Nat
  <2>1. CASE e \in T
    BY <1>5, <1>11, <2>1
  <2>2. CASE e = c
    BY <1>13, <2>2
  <2> QED
    BY <1>13, <2>1, <2>2
<1>21. o.count = Cardinality(Fields(o)) /\ o.count \in Nat
  BY <1>14, <1>17
<1> QED
  BY <1>2, <1>15, <1>16, <1>18, <1>19, <1>20, <1>21 DEF EntriesAreRight

-----------------------------------------------------------------------------
\* The steps.

LEMMA InitEstablishesInv == Init => Inv
<1> SUFFICES ASSUME Init PROVE Inv
  OBVIOUS
<1>1. /\ stage = "checking" /\ category = 1 /\ objects = << >> /\ diagnostic = None
      /\ definitions \in Definitions
  BY DEF Init
<1>2. DefinitionsInv
  BY <1>1, DefinitionsAssumption DEF DefinitionsInv
<1>3. \E S : objects \in Seq(S)
  <2>1. objects \in Seq({})
    BY <1>1
  <2> QED
    BY <2>1
<1>4. TypeInv
  BY <1>1, <1>2, <1>3, CategoryFacts DEF TypeInv
<1>5. DOMAIN objects = {}
  BY <1>1
<1> QED
  BY <1>1, <1>4, <1>5
     DEF Inv, StageInv, PlacedInv, BuiltInv, FailedInv, DiagnosticExplainsIndex

\* A step that only moves from stage to stage.
LEMMA StageStep ==
    ASSUME Inv, UNCHANGED <<definitions, assignments, objects, diagnostic>>
    PROVE  /\ DefinitionsInv' /\ (\E S : objects \in Seq(S))'
           /\ BuiltInv' /\ DiagnosticExplainsIndex'
           /\ NamesAreUnique' <=> NamesAreUnique
           /\ \A k : IsPlaced(k) => IsPlaced(k)'
           /\ Unbuilt' = Unbuilt /\ NextToBuild' = NextToBuild
<1>1. /\ (\E S : objects \in Seq(S))' /\ BuiltInv'
      /\ Unbuilt' = Unbuilt /\ NextToBuild' = NextToBuild
  BY KeepsObjects DEF Inv
<1>2. DefinitionsInv' /\ (NamesAreUnique' <=> NamesAreUnique)
  BY SameDefinitions DEF Inv, TypeInv
<1>3. \A k : IsPlaced(k) => IsPlaced(k)'
  BY SameAssignments
<1>4. DiagnosticExplainsIndex'
  BY DEF Inv, DiagnosticExplainsIndex
<1> QED
  BY <1>1, <1>2, <1>3, <1>4

\* The allocation fails, for a fault that the definitions have.
LEMMA FailStep ==
    ASSUME Inv, NEW e, Fail(e),
           \/ e = "duplicate_name" /\ ~NamesAreUnique
           \/ e \in {<<"index", f>> : f \in Pass!Errors} /\ AnyCategoryCrowded
           \/ /\ e = "array_length" \/ e \in {<<"subindex", f>> : f \in Pass!Errors}
              /\ AnyCompoundCrowded /\ ~AnyCategoryCrowded
    PROVE  Inv'
<1>1. /\ stage' = "failed" /\ error' = e
      /\ UNCHANGED <<definitions, category, assignments, objects, diagnostic>>
  BY DEF Fail
<1>2. /\ DefinitionsInv' /\ (\E S : objects \in Seq(S))'
      /\ BuiltInv' /\ DiagnosticExplainsIndex'
  BY <1>1, StageStep
<1>3. TypeInv'
  BY <1>1, <1>2 DEF Inv, TypeInv
<1>4. Pass!Errors' = Pass!Errors
  BY DEF Pass!Errors
<1>5. FailedInv'
  BY <1>1, <1>4, SameDefinitions DEF FailedInv
<1> QED
  BY <1>1, <1>2, <1>3, <1>5 DEF Inv, StageInv, PlacedInv

LEMMA CheckNamesStep ==
    ASSUME Inv, RejectDuplicate \/ AcceptNames
    PROVE  Inv'
<1>1. CASE RejectDuplicate
  BY <1>1, FailStep DEF RejectDuplicate
<1>2. CASE AcceptNames
  <2>1. /\ stage = "checking" /\ stage' = "categories" /\ NamesAreUnique
        /\ UNCHANGED <<definitions, category, assignments, objects, error, diagnostic>>
    BY <1>2 DEF AcceptNames
  <2>2. category = 1 /\ objects = << >>
    BY <2>1 DEF Inv, StageInv
  <2>3. \A k \in DOMAIN Categories : ~(k < category')
    BY <2>1, <2>2, CategoryFacts
  <2> QED
    BY <2>1, <2>2, <2>3, StageStep DEF Inv, TypeInv, StageInv, PlacedInv, FailedInv
<1> QED
  BY <1>1, <1>2

LEMMA StartCategoryStep ==
    ASSUME Inv, StartCategory
    PROVE  Inv'
<1> DEFINE r == CategoryRange[Categories[category]]
           s == CategoryItems(Categories[category])
<1>1. /\ stage = "categories" /\ category \in DOMAIN Categories /\ Pass!Call(r, s)
      /\ stage' = "indexing"
      /\ UNCHANGED <<definitions, category, assignments, objects, error, diagnostic>>
  BY DEF StartCategory
<1>2. NamesAreUnique /\ DefinitionsInv /\ objects = << >>
  BY <1>1 DEF Inv, TypeInv, StageInv
<1>3. r \in Ranges /\ s \in Seq(Items) /\ HasUniqueNames(s)
  BY <1>1, <1>2, CategoryFacts, ItemsOfCategory
<1>4. A!PassInv' /\ range' = r /\ items' = s
  BY <1>1, <1>3, PassCalled
<1>5. CategoryItems(Categories[category])' = s
  BY <1>1 DEF CategoryItems, Positions
<1> HIDE DEF s
<1>6. PassOver(CategoryRange[Categories[category]], CategoryItems(Categories[category]))'
  BY <1>1, <1>4, <1>5 DEF PassOver
<1> QED
  BY <1>1, <1>2, <1>6, StageStep DEF Inv, TypeInv, StageInv, PlacedInv, FailedInv

LEMMA PassStepStep ==
    ASSUME Inv, PassStep
    PROVE  Inv'
<1>1. stage \in {"indexing", "fields"} /\ Pass!Next /\ UNCHANGED ownVars
  BY DEF PassStep
<1>2. UNCHANGED <<definitions, stage, category, assignments, objects, error, diagnostic>>
  BY <1>1 DEF ownVars
<1>3. A!PassInv
  BY <1>1 DEF Inv, StageInv, PassOver
<1>4. A!PassInv' /\ range' = range /\ items' = items
  BY <1>1, <1>3, PassSteps
<1>5. stage = "indexing" =>
         PassOver(CategoryRange[Categories[category]], CategoryItems(Categories[category]))'
  <2>1. CategoryItems(Categories[category])' = CategoryItems(Categories[category])
    BY <1>2 DEF CategoryItems, Positions
  <2> QED
    BY <1>2, <1>4, <2>1 DEF Inv, StageInv, PassOver
<1>6. stage = "fields" => PassOver(RecordRange, definitions[NextToBuild].fields)'
  BY <1>2, <1>4, StageStep DEF Inv, StageInv, PassOver
<1> QED
  BY <1>1, <1>2, <1>5, <1>6, StageStep DEF Inv, TypeInv, StageInv, PlacedInv, FailedInv

\* The entries of a category join those of the categories before it, which
\* have other names.
LEMMA EndCategoryStep ==
    ASSUME Inv, EndCategory
    PROVE  Inv'
<1> DEFINE c == category
           N == NamesIn(c)
           S == Range(CategoryItems(Categories[c]))
<1>1. /\ stage = "indexing" /\ phase = "allocated" /\ stage' = "categories"
      /\ category' = category + 1
      /\ assignments' = [n \in DOMAIN assignments \union DOMAIN assigned |->
                            IF n \in DOMAIN assigned THEN assigned[n] ELSE assignments[n]]
      /\ UNCHANGED <<definitions, objects, error, diagnostic>>
  BY DEF EndCategory
<1>2. /\ c \in DOMAIN Categories /\ NamesAreUnique /\ DefinitionsInv /\ objects = << >>
      /\ A!PassInv /\ range = CategoryRange[Categories[c]]
      /\ items = CategoryItems(Categories[c])
  BY <1>1 DEF Inv, TypeInv, StageInv, PassOver
<1>3. A!Allocation(CategoryRange[Categories[c]], S, assigned)
  BY <1>1, <1>2, AllocatedIsPlaced
<1>4. DOMAIN assigned = N /\ assigned = [n \in N |-> assigned[n]]
  BY <1>3 DEF A!Allocation, A!IsFunction, NamesIn
<1>5. /\ DOMAIN assignments' = DOMAIN assignments \union N
      /\ \A n \in N : assignments'[n] = assigned[n]
      /\ \A n \in DOMAIN assignments \ N : assignments'[n] = assignments[n]
  BY <1>1, <1>4
<1>6. ASSUME NEW k \in DOMAIN Categories, k < c PROVE IsPlaced(k)'
  <2>1. IsPlaced(k)
    BY <1>1, <1>6 DEF Inv, PlacedInv
  <2>2. ASSUME NEW n \in NamesIn(k), n \in N PROVE FALSE
    <3>1. PICK i \in Positions(Categories[k]) : n = definitions[i].name
      BY <1>2, <2>2, ItemsOfCategory DEF NamesIn, Item
    <3>2. PICK j \in Positions(Categories[c]) : n = definitions[j].name
      BY <1>2, <2>2, ItemsOfCategory DEF NamesIn, Item
    <3>3. i = j
      BY <1>2, <3>1, <3>2, DifferentNames DEF Positions
    <3>4. k = c
      BY <1>2, <3>1, <3>2, <3>3, CategoryFacts DEF Positions
    <3> QED
      BY <1>2, <1>6, <3>4, CategoryFacts
  <2>3. \A n \in NamesIn(k) : n \in DOMAIN assignments' /\ assignments'[n] = assignments[n]
    BY <1>5, <2>1, <2>2 DEF IsPlaced
  <2> QED
    BY <1>1, <2>1, <2>3, PlacedKept
<1>7. ASSUME NEW k \in DOMAIN Categories, k = c PROVE IsPlaced(k)'
  <2>1. NamesIn(k)' = N /\ CategoryItems(Categories[k])' = CategoryItems(Categories[c])
    BY <1>1, <1>7, SameDefinitions
  <2>2. [n \in N |-> assignments'[n]] = assigned
    BY <1>4, <1>5
  <2>3. [n \in NamesIn(k) |-> assignments[n]]' = assigned
    BY <2>1, <2>2
  <2>4. NamesIn(k)' \subseteq DOMAIN assignments'
    BY <1>5, <2>1
  <2> QED
    BY <1>3, <1>7, <2>1, <2>3, <2>4 DEF IsPlaced
<1>8. category' \in 1..(Len(Categories) + 1)
      /\ \A k \in DOMAIN Categories : k < category' => k < c \/ k = c
  BY <1>1, <1>2, CategoryFacts
<1>9. PlacedInv'
  BY <1>6, <1>7, <1>8 DEF PlacedInv
<1>10. TypeInv'
  BY <1>1, <1>8, SameDefinitions DEF Inv, TypeInv
<1>11. BuiltInv' /\ DiagnosticExplainsIndex'
  BY <1>1, <1>2 DEF BuiltInv, Inv, DiagnosticExplainsIndex
<1> QED
  BY <1>1, <1>2, <1>9, <1>10, <1>11, SameDefinitions DEF Inv, StageInv, FailedInv

LEMMA FailCategoryStep ==
    ASSUME Inv, FailCategory
    PROVE  Inv'
<1>1. stage = "indexing" /\ phase \in Pass!Errors /\ Fail(<<"index", phase>>)
  BY DEF FailCategory
<1>2. category \in DOMAIN Categories
      /\ Crowded(CategoryRange[Categories[category]], CategoryItems(Categories[category]))
  BY <1>1, RefusedIsCrowded DEF Inv, StageInv, PassOver
<1>3. AnyCategoryCrowded
  BY <1>2 DEF AnyCategoryCrowded
<1>4. <<"index", phase>> \in {<<"index", f>> : f \in Pass!Errors}
  BY <1>1
<1> HIDE DEF Fail
<1> QED
  BY <1>1, <1>3, <1>4, FailStep

LEMMA StartObjectsStep ==
    ASSUME Inv, StartObjects
    PROVE  Inv'
<1>1. /\ stage = "categories" /\ category \notin DOMAIN Categories /\ stage' = "objects"
      /\ UNCHANGED <<definitions, category, assignments, objects, error, diagnostic>>
  BY DEF StartObjects
<1>2. category = Len(Categories) + 1
  BY <1>1, AllPlaced
<1> QED
  BY <1>1, <1>2, StageStep DEF Inv, TypeInv, StageInv, PlacedInv, FailedInv

\* While objects are built there is a definition without one.
LEMMA ObjectStage ==
    ASSUME Inv, stage \in {"objects", "fields"}
    PROVE  /\ NamesAreUnique /\ \A k \in DOMAIN Categories : IsPlaced(k)
           /\ ~AnyCategoryCrowded
           /\ Unbuilt # {} => NextToBuild \in DOMAIN definitions
<1>1. category \notin DOMAIN Categories
  BY CategoryFacts DEF Inv, StageInv
<1>2. NamesAreUnique /\ (\A k \in DOMAIN Categories : IsPlaced(k)) /\ ~AnyCategoryCrowded
  BY <1>1, AllPlaced
<1> QED
  BY <1>2, NextIsUnbuilt DEF Inv, TypeInv

LEMMA BuildStep ==
    ASSUME Inv, stage \in {"objects", "fields"}, Unbuilt # {}, stage' = "objects",
           NEW count, NEW entries, Build(count, entries),
           IsBuilt(Allocated(definitions[NextToBuild], count, entries), definitions[NextToBuild])
    PROVE  Inv'
<1> DEFINE i == NextToBuild
           o == Allocated(definitions[i], count, entries)
<1>1. /\ objects' = Append(objects, o)
      /\ UNCHANGED <<definitions, category, assignments, error, diagnostic>>
  BY DEF Build
<1>2. i \in DOMAIN definitions
  BY ObjectStage
<1>3. IsBuilt(o, definitions[i])
  OBVIOUS
<1> HIDE DEF o, i
<1>4. PICK S : objects \in Seq(S)
  BY DEF Inv, TypeInv
<1> DEFINE T == S \union {o}
<1>5. objects \in Seq(T) /\ o \in T
  BY <1>4
<1>6. /\ objects' \in Seq(T)
      /\ \A k \in DOMAIN objects' :
            (k \in DOMAIN objects /\ objects'[k] = objects[k]) \/ objects'[k] = o
  <2> HIDE DEF T
  <2>1. /\ Append(objects, o) \in Seq(T) /\ Len(Append(objects, o)) = Len(objects) + 1
        /\ Len(objects) \in Nat /\ DOMAIN objects = 1..Len(objects)
        /\ DOMAIN Append(objects, o) = 1..Len(Append(objects, o))
        /\ \A k \in 1..Len(objects) : Append(objects, o)[k] = objects[k]
        /\ Append(objects, o)[Len(objects) + 1] = o
    BY <1>5, AppendProperties
  <2> QED
    BY <1>1, <2>1
<1>7. \A k \in DOMAIN objects' : \E j \in DOMAIN definitions : IsBuilt(objects'[k], definitions[j])
  BY <1>2, <1>3, <1>6 DEF Inv, BuiltInv
<1>8. BuiltInv'
  BY <1>1, <1>7, SameAssignments DEF BuiltInv
<1>9. TypeInv'
  BY <1>1, <1>6, SameDefinitions DEF Inv, TypeInv
<1>10. PlacedInv'
  BY <1>1, SameAssignments DEF Inv, PlacedInv
<1>11. category = Len(Categories) + 1 /\ NamesAreUnique
  BY DEF Inv, StageInv
<1>12. StageInv'
  BY <1>1, <1>11, SameDefinitions DEF StageInv
<1>13. FailedInv' /\ DiagnosticExplainsIndex'
  BY <1>1 DEF FailedInv, Inv, DiagnosticExplainsIndex
<1> QED
  BY <1>8, <1>9, <1>10, <1>12, <1>13 DEF Inv

LEMMA BuildVariableStep ==
    ASSUME Inv, BuildVariable
    PROVE  Inv'
<1> DEFINE d == definitions[NextToBuild]
           o == Allocated(d, None, {})
<1>1. /\ stage = "objects" /\ Unbuilt # {} /\ d.kind = "variable"
      /\ Build(None, {}) /\ stage' = stage
  BY DEF BuildVariable, Building
<1>2. NextToBuild \in DOMAIN definitions
  BY <1>1, ObjectStage
<1>3. ~Crowded(RecordRange, d.fields)
  BY <1>1, <1>2, NothingIsCrowded DEF Inv, TypeInv, DefinitionsInv
<1>4. IsBuilt(o, d)
  BY <1>1, <1>3 DEF IsBuilt, Allocated
<1> HIDE DEF Build
<1> QED
  BY <1>1, <1>4, BuildStep

LEMMA BuildArrayStep ==
    ASSUME Inv, BuildArray
    PROVE  Inv'
<1> DEFINE d == definitions[NextToBuild]
           entries == {CountEntry(d)}
                        \union {SubEntry(k, d.name, "array-element") : k \in 1..d.length}
           o == Allocated(d, d.length, entries)
<1>1. /\ stage = "objects" /\ Unbuilt # {} /\ d.kind = "array" /\ d.length \in 1..MaxLength
      /\ Build(d.length, entries) /\ stage' = stage
  BY DEF BuildArray, Building
<1>2. NextToBuild \in DOMAIN definitions
  BY <1>1, ObjectStage
<1>3. ~Crowded(RecordRange, d.fields)
  BY <1>1, <1>2, NothingIsCrowded DEF Inv, TypeInv, DefinitionsInv
<1>4. o.count = d.length /\ o.entries = entries /\ d.length \in Nat
  BY <1>1, RangesAssumption DEF Allocated
<1>5. EntriesAreRight(o, d)
  BY <1>1, <1>4, ArrayEntries
<1>6. IsBuilt(o, d)
  BY <1>1, <1>3, <1>5 DEF IsBuilt, Allocated
<1> HIDE DEF Build
<1> QED
  BY <1>1, <1>6, BuildStep

LEMMA RejectArrayLengthStep ==
    ASSUME Inv, RejectArrayLength
    PROVE  Inv'
<1>1. /\ stage = "objects" /\ Unbuilt # {} /\ definitions[NextToBuild].kind = "array"
      /\ definitions[NextToBuild].length \notin 1..MaxLength
      /\ Fail("array_length")
  BY DEF RejectArrayLength, Building
<1>2. NextToBuild \in DOMAIN definitions /\ ~AnyCategoryCrowded
  BY <1>1, ObjectStage
<1>3. AnyCompoundCrowded
  BY <1>1, <1>2 DEF AnyCompoundCrowded
<1> QED
  BY <1>1, <1>2, <1>3, FailStep

LEMMA StartRecordStep ==
    ASSUME Inv, StartRecord
    PROVE  Inv'
<1> DEFINE s == definitions[NextToBuild].fields
<1>1. /\ stage = "objects" /\ Unbuilt # {} /\ definitions[NextToBuild].kind = "record"
      /\ Pass!Call(RecordRange, s)
      /\ stage' = "fields"
      /\ UNCHANGED <<definitions, category, assignments, objects, error, diagnostic>>
  BY DEF StartRecord, Building
<1>2. NamesAreUnique /\ DefinitionsInv /\ NextToBuild \in DOMAIN definitions
  BY <1>1, ObjectStage DEF Inv, TypeInv
<1>3. RecordRange \in Ranges /\ s \in Seq(Items) /\ HasUniqueNames(s)
  BY <1>2, RangesAssumption, DefinitionTypes, DifferentNames
<1>4. A!PassInv' /\ range' = RecordRange /\ items' = s
  BY <1>1, <1>3, PassCalled
<1>5. Unbuilt' = Unbuilt /\ NextToBuild' = NextToBuild
  BY <1>1, StageStep
<1>6. PassOver(RecordRange, definitions[NextToBuild].fields)'
  BY <1>1, <1>4, <1>5 DEF PassOver
<1> QED
  BY <1>1, <1>2, <1>5, <1>6, StageStep DEF Inv, TypeInv, StageInv, PlacedInv, FailedInv

LEMMA EndRecordStep ==
    ASSUME Inv, EndRecord
    PROVE  Inv'
<1> DEFINE d == definitions[NextToBuild]
           entries == {CountEntry(d)}
               \union {SubEntry(assigned[n].address, n, "record-field") : n \in DOMAIN assigned}
           o == Allocated(d, Len(d.fields), entries)
<1>1. /\ stage = "fields" /\ phase = "allocated" /\ stage' = "objects"
      /\ Build(Len(d.fields), entries)
  BY DEF EndRecord
<1>2. /\ Unbuilt # {} /\ d.kind = "record"
      /\ A!PassInv /\ range = RecordRange /\ items = d.fields
  BY <1>1 DEF Inv, StageInv, PassOver
<1>3. NamesAreUnique /\ NextToBuild \in DOMAIN definitions /\ DefinitionsInv
  BY <1>1, <1>2, ObjectStage DEF Inv, TypeInv
<1>4. A!Allocation(RecordRange, Range(d.fields), assigned)
  BY <1>1, <1>2, AllocatedIsPlaced
<1>5. d.fields \in Seq(Items) /\ HasUniqueNames(d.fields)
  BY <1>3, DefinitionTypes, DifferentNames
<1>6. o.count = Len(d.fields) /\ o.entries = entries
  BY DEF Allocated
<1>7. EntriesAreRight(o, d) /\ ~Crowded(RecordRange, d.fields)
  BY <1>4, <1>5, <1>6, RecordEntries
<1>8. IsBuilt(o, d)
  BY <1>2, <1>7 DEF IsBuilt, Allocated
<1> HIDE DEF Build
<1> QED
  BY <1>1, <1>2, <1>8, BuildStep

LEMMA FailRecordStep ==
    ASSUME Inv, FailRecord
    PROVE  Inv'
<1>1. stage = "fields" /\ phase \in Pass!Errors /\ Fail(<<"subindex", phase>>)
  BY DEF FailRecord
<1>2. Unbuilt # {} /\ Crowded(RecordRange, definitions[NextToBuild].fields)
  BY <1>1, RefusedIsCrowded DEF Inv, StageInv, PassOver
<1>3. NextToBuild \in DOMAIN definitions /\ ~AnyCategoryCrowded
  BY <1>1, <1>2, ObjectStage
<1>4. AnyCompoundCrowded
  BY <1>2, <1>3 DEF AnyCompoundCrowded
<1>5. <<"subindex", phase>> \in {<<"subindex", f>> : f \in Pass!Errors}
  BY <1>1
<1> HIDE DEF Fail
<1> QED
  BY <1>1, <1>3, <1>4, <1>5, FailStep

LEMMA ReturnDictionaryStep ==
    ASSUME Inv, ReturnDictionary
    PROVE  Inv'
<1>1. /\ stage = "objects" /\ Unbuilt = {} /\ stage' = "done"
      /\ UNCHANGED <<definitions, category, assignments, objects, error, diagnostic>>
  BY DEF ReturnDictionary
<1> QED
  BY <1>1, StageStep DEF Inv, TypeInv, StageInv, PlacedInv, FailedInv

\* The object of a finished dictionary that has the name of a definition was
\* made of that definition.
LEMMA ObjectOfName ==
    ASSUME Inv, NamesAreUnique, NEW k \in DOMAIN objects, NEW i \in DOMAIN definitions,
           objects[k].name = definitions[i].name
    PROVE  IsBuilt(objects[k], definitions[i])
<1>1. PICK j \in DOMAIN definitions : IsBuilt(objects[k], definitions[j])
  BY DEF Inv, BuiltInv
<1>2. i = j
  BY <1>1, DifferentNames DEF IsBuilt, Inv, TypeInv
<1> QED
  BY <1>1, <1>2

\* A step that only sets the diagnostic.
LEMMA DiagnosticStep ==
    ASSUME Inv, UNCHANGED <<definitions, stage, category, assignments, objects, error>>,
           stage = "done", DiagnosticExplainsIndex'
    PROVE  Inv'
<1>1. /\ DefinitionsInv' /\ (NamesAreUnique' <=> NamesAreUnique)
      /\ \A k : IsPlaced(k) => IsPlaced(k)'
  BY SameDefinitions, SameAssignments DEF Inv, TypeInv
<1>2. /\ (\E S : objects \in Seq(S))' /\ BuiltInv' /\ Unbuilt' = Unbuilt
  BY KeepsObjects DEF Inv
<1> QED
  BY <1>1, <1>2 DEF Inv, TypeInv, StageInv, PlacedInv, FailedInv

LEMMA DiagnoseObjectStep ==
    ASSUME Inv, NEW i \in DOMAIN definitions, DiagnoseObject(i)
    PROVE  Inv'
<1> DEFINE d == definitions[i]
           r == CategoryRange[d.category]
           e == assignments[d.name]
<1>1. PICK k \in DOMAIN objects :
         /\ stage = "done" /\ objects[k].name = d.name
         /\ diagnostic' = [name |-> d.name, range |-> r, initial |-> r.lo + InitialSlot(r, d),
                           final |-> objects[k].index, probe |-> objects[k].probe,
                           source |-> objects[k].source]
         /\ UNCHANGED <<definitions, stage, category, assignments, objects, error>>
  BY DEF DiagnoseObject
<1>2. /\ DefinitionsInv /\ NamesAreUnique /\ category \notin DOMAIN Categories
  BY <1>1, CategoryFacts DEF Inv, TypeInv, StageInv
<1>3. objects[k].index = e.address /\ objects[k].source = e.source /\ objects[k].probe = e.probe
  BY <1>1, <1>2, ObjectOfName DEF IsBuilt
<1>4. /\ r \in Ranges
      /\ e.source = "automatic" => e.probe \in Nat /\ e.address = Candidate(r, d, e.probe)
  BY <1>1, <1>2, AllPlaced, DefinitionIsPlaced
<1>5. DiagnosticExplainsIndex'
  <2>1. /\ diagnostic'.range = r /\ diagnostic'.initial = r.lo + InitialSlot(r, d)
        /\ diagnostic'.final = e.address /\ diagnostic'.probe = e.probe
        /\ diagnostic'.source = e.source
    BY <1>1, <1>3
  <2>2. r.lo \in Int /\ InitialSlot(r, d) \in Int
    <3>1. d.crc \in Nat
      BY DefinitionTypes, <1>2 DEF ObjectDefinitions
    <3>2. Size(r) \in Nat \ {0}
      BY <1>4 DEF Ranges, Size
    <3> QED
      BY <1>4, <3>1, <3>2 DEF Ranges, InitialSlot
  <2>3. (r.lo + InitialSlot(r, d)) - r.lo = InitialSlot(r, d)
    BY <2>2
  <2>4. e.source = "automatic" =>
           e.address = r.lo + (((r.lo + InitialSlot(r, d)) - r.lo + e.probe) % Size(r))
    BY <1>4, <2>3 DEF Candidate
  <2> HIDE DEF r, d, e
  <2> QED
    BY <2>1, <2>4 DEF DiagnosticExplainsIndex
<1> QED
  BY <1>1, <1>5, DiagnosticStep

LEMMA DiagnoseUnknownStep ==
    ASSUME Inv, NEW n, NEW c, DiagnoseUnknown(n, c)
    PROVE  Inv'
<1>1. /\ stage = "done" /\ diagnostic' = [name |-> n, source |-> "unknown"]
      /\ UNCHANGED <<definitions, stage, category, assignments, objects, error>>
  BY DEF DiagnoseUnknown
<1>2. DiagnosticExplainsIndex'
  BY <1>1 DEF DiagnosticExplainsIndex
<1> QED
  BY <1>1, <1>2, DiagnosticStep

LEMMA StutterStep ==
    ASSUME Inv, UNCHANGED vars
    PROVE  Inv'
<1>1. /\ UNCHANGED ownVars
      /\ UNCHANGED <<range, items, next, probe, occupied, assigned, phase>>
  BY DEF vars, passVars
<1>2. UNCHANGED <<definitions, stage, category, assignments, objects, error, diagnostic>>
  BY <1>1 DEF ownVars
<1>3. A!PassInv => A!PassInv'
  <2>1. A!Inv => A!Inv'
    BY <1>1, PassAssumptions, A!NextInv DEF A!vars, A!passVars
  <2>2. A!EntriesInv => A!EntriesInv'
    BY <1>1 DEF A!EntriesInv, A!IsExplicit, A!IsFunction
  <2>3. A!RefusalInv => A!RefusalInv'
    BY <1>1 DEF A!RefusalInv, A!IsExplicit
  <2> QED
    BY <2>1, <2>2, <2>3 DEF A!PassInv
<1>4. stage = "indexing" =>
         PassOver(CategoryRange[Categories[category]], CategoryItems(Categories[category]))'
  <2>1. CategoryItems(Categories[category])' = CategoryItems(Categories[category])
    BY <1>2 DEF CategoryItems, Positions
  <2> QED
    BY <1>1, <1>2, <1>3, <2>1 DEF Inv, StageInv, PassOver
<1>5. stage = "fields" => PassOver(RecordRange, definitions[NextToBuild].fields)'
  BY <1>1, <1>2, <1>3, StageStep DEF Inv, StageInv, PassOver
<1> QED
  BY <1>2, <1>4, <1>5, SameDefinitions, StageStep
     DEF Inv, TypeInv, StageInv, PlacedInv, FailedInv

LEMMA NextKeepsInv == Inv /\ [Next]_vars => Inv'
<1> SUFFICES ASSUME Inv, [Next]_vars PROVE Inv'
  OBVIOUS
<1>1. CASE RejectDuplicate \/ AcceptNames
  BY <1>1, CheckNamesStep
<1>2. CASE StartCategory
  BY <1>2, StartCategoryStep
<1>3. CASE PassStep
  BY <1>3, PassStepStep
<1>4. CASE EndCategory
  BY <1>4, EndCategoryStep
<1>5. CASE FailCategory
  BY <1>5, FailCategoryStep
<1>6. CASE StartObjects
  BY <1>6, StartObjectsStep
<1>7. CASE BuildVariable
  BY <1>7, BuildVariableStep
<1>8. CASE BuildArray
  BY <1>8, BuildArrayStep
<1>9. CASE RejectArrayLength
  BY <1>9, RejectArrayLengthStep
<1>10. CASE StartRecord
  BY <1>10, StartRecordStep
<1>11. CASE EndRecord
  BY <1>11, EndRecordStep
<1>12. CASE FailRecord
  BY <1>12, FailRecordStep
<1>13. CASE ReturnDictionary
  BY <1>13, ReturnDictionaryStep
<1>14. CASE \E i \in DOMAIN definitions : DiagnoseObject(i)
  BY <1>14, DiagnoseObjectStep
<1>15. CASE \E o \in NameOwners, k \in DOMAIN Categories :
               DiagnoseUnknown(QualifiedName(o), Categories[k])
  BY <1>15, DiagnoseUnknownStep
<1>16. CASE UNCHANGED vars
  BY <1>16, StutterStep
<1> QED
  BY <1>1, <1>2, <1>3, <1>4, <1>5, <1>6, <1>7, <1>8, <1>9, <1>10, <1>11, <1>12, <1>13,
     <1>14, <1>15, <1>16 DEF Next

LEMMA InvHolds == Spec => []Inv
BY InitEstablishesInv, NextKeepsInv, PTL DEF Spec

-----------------------------------------------------------------------------
LEMMA FinishedDictionary ==
    ASSUME Inv, stage = "done"
    PROVE  /\ NamesAreUnique /\ DefinitionsInv
           /\ \A k \in DOMAIN Categories : IsPlaced(k)
           /\ ~AnyCategoryCrowded
           /\ \A i \in DOMAIN definitions : \E k \in DOMAIN objects : IsBuilt(objects[k], definitions[i])
<1>1. category \notin DOMAIN Categories /\ Unbuilt = {} /\ DefinitionsInv
  BY CategoryFacts DEF Inv, TypeInv, StageInv
<1>2. NamesAreUnique /\ (\A k \in DOMAIN Categories : IsPlaced(k)) /\ ~AnyCategoryCrowded
  BY <1>1, AllPlaced
<1>3. ASSUME NEW i \in DOMAIN definitions
      PROVE  \E k \in DOMAIN objects : IsBuilt(objects[k], definitions[i])
  <2>1. PICK k \in DOMAIN objects : objects[k].name = definitions[i].name
    BY <1>1 DEF Unbuilt
  <2> QED
    BY <1>2, <2>1, ObjectOfName
<1> QED
  BY <1>1, <1>2, <1>3

\* allocate_object_dictionary places the objects of every category as if it were
\* alone, whatever is in the other categories and in the records.
THEOREM CategoriesArePlaced == Spec => []IndexesArePlaced
<1>1. Inv => IndexesArePlaced
  BY FinishedDictionary, CategoryIsPlaced DEF IndexesArePlaced
<1> QED
  BY <1>1, InvHolds, PTL

\* The entries of every compound object: its fields placed as if they were alone,
\* subindex 0 their count, no subindex twice.
THEOREM CompoundsArePlaced == Spec => []SubindicesArePlaced
<1>1. Inv => SubindicesArePlaced
  <2> SUFFICES ASSUME Inv, stage = "done",
                      NEW k \in DOMAIN objects, NEW i \in DOMAIN definitions,
                      objects[k].name = definitions[i].name, definitions[i].kind # "variable"
               PROVE  /\ \A e \in objects[k].entries : e.subindex = 0 <=> e.role = "count"
                      /\ \A e, f \in objects[k].entries : e.subindex = f.subindex => e = f
                      /\ objects[k].count = Cardinality(Fields(objects[k]))
                      /\ definitions[i].kind = "record" =>
                            IsPlacement(RecordRange, Range(definitions[i].fields),
                                        SubindicesOf(objects[k]))
    BY DEF SubindicesArePlaced, Fields, SubindicesOf
  <2>1. IsBuilt(objects[k], definitions[i])
    BY FinishedDictionary, ObjectOfName
  <2> QED
    BY <2>1 DEF IsBuilt, EntriesAreRight
<1> QED
  BY <1>1, InvHolds, PTL

\* allocate_object_dictionary raises for what is wrong with the definitions, an
\* index fault anywhere before any fault in an object, and returns a dictionary
\* for no definitions in which anything is wrong.
THEOREM FailuresAreJustified == Spec => []FailureIsJustified
<1>1. Inv => FailureIsJustified
  <2> SUFFICES ASSUME Inv PROVE FailureIsJustified
    OBVIOUS
  <2>1. ASSUME stage = "done" PROVE ~AnyCategoryCrowded /\ ~AnyCompoundCrowded /\ NamesAreUnique
    BY <2>1, FinishedDictionary DEF AnyCompoundCrowded, IsBuilt
  <2> QED
    BY <2>1 DEF Inv, FailedInv, FailureIsJustified
<1> QED
  BY <1>1, InvHolds, PTL

\* diagnose_address: the final index of an automatic object is as many probes from
\* the initial one as it says, around the range of its category.
THEOREM DiagnosticsExplain == Spec => []DiagnosticExplainsIndex
<1>1. Inv => DiagnosticExplainsIndex
  BY DEF Inv
<1> QED
  BY <1>1, InvHolds, PTL

-----------------------------------------------------------------------------
\* The order of the objects: what is built has smaller indexes than what is not.

OrderInv ==
    /\ \A j, k \in DOMAIN objects : j < k => objects[j].index < objects[k].index
    /\ \A k \in DOMAIN objects : \A i \in Unbuilt : objects[k].index < IndexOf(i)

\* No index is given twice, within a category or in two of them.
LEMMA IndexesDiffer ==
    ASSUME DefinitionsInv, NamesAreUnique, \A k \in DOMAIN Categories : IsPlaced(k),
           NEW i \in DOMAIN definitions, NEW j \in DOMAIN definitions, IndexOf(i) = IndexOf(j)
    PROVE  i = j
<1> DEFINE x == Item(definitions[i])
           y == Item(definitions[j])
<1>1. /\ definitions[i].category \in Range(Categories)
      /\ definitions[j].category \in Range(Categories)
  BY DefinitionTypes DEF ObjectDefinitions
<1>2. PICK k \in DOMAIN Categories : definitions[i].category = Categories[k]
  BY <1>1, CategoryFacts
<1>3. PICK l \in DOMAIN Categories : definitions[j].category = Categories[l]
  BY <1>1, CategoryFacts
<1>4. k = l
  <2>1. /\ IndexOf(i) \in Addresses(CategoryRange[Categories[k]])
        /\ IndexOf(j) \in Addresses(CategoryRange[Categories[l]])
    BY <1>2, <1>3, DefinitionIsPlaced DEF IndexOf
  <2> QED
    BY <2>1, RangesAssumption
<1> DEFINE S == Range(CategoryItems(Categories[k]))
           m == [n \in {z.name : z \in S} |-> assignments[n].address]
<1>5. x \in S /\ y \in S
  BY <1>2, <1>3, <1>4, ItemsOfCategory DEF Positions
<1>6. IsPlacement(CategoryRange[Categories[k]], S, m)
  BY CategoryIsPlaced
<1>7. m[x.name] = IndexOf(i) /\ m[y.name] = IndexOf(j)
  BY <1>5 DEF IndexOf, Item
<1> HIDE DEF m, S, x, y
<1>8. x = y
  BY <1>5, <1>6, <1>7 DEF IsPlacement
<1> QED
  BY <1>8, DifferentNames DEF x, y, Item

LEMMA KeepsOrder ==
    ASSUME OrderInv, UNCHANGED <<definitions, assignments, objects>>
    PROVE  OrderInv'
BY DEF OrderInv, Unbuilt, IndexOf

\* The definition that sorted(...) puts next has the least index of those left.
LEMMA BuildOrder ==
    ASSUME Inv, OrderInv, stage \in {"objects", "fields"}, Unbuilt # {},
           NEW count, NEW entries, Build(count, entries)
    PROVE  OrderInv'
<1> DEFINE i == NextToBuild
           o == Allocated(definitions[i], count, entries)
<1>1. objects' = Append(objects, o) /\ UNCHANGED <<definitions, assignments>>
  BY DEF Build
<1>2. /\ NamesAreUnique /\ DefinitionsInv /\ \A k \in DOMAIN Categories : IsPlaced(k)
      /\ Unbuilt \subseteq DOMAIN definitions
  BY ObjectStage DEF Inv, TypeInv, Unbuilt
<1>3. i \in Unbuilt /\ \A j \in Unbuilt : IndexOf(i) <= IndexOf(j)
  <2> DEFINE T == {IndexOf(j) : j \in Unbuilt}
  <2>1. T \subseteq Nat /\ T # {}
    BY <1>2, DefinitionIsPlaced DEF IndexOf
  <2>2. \E n \in T : \A m \in T : n <= m
    BY <2>1, PassAssumptions, A!NatHasLeast
  <2>3. \E j \in Unbuilt : \A k \in Unbuilt : IndexOf(j) <= IndexOf(k)
    BY <2>2
  <2> QED
    BY <2>3 DEF NextToBuild
<1>4. o.index = IndexOf(i) /\ o.name = definitions[i].name
  BY DEF Allocated, IndexOf
<1> HIDE DEF o, i
<1>5. PICK n \in Nat :
         /\ DOMAIN objects = 1..n /\ DOMAIN objects' = 1..(n + 1)
         /\ objects'[n + 1] = o
         /\ \A k \in 1..n : objects'[k] = objects[k]
  <2>1. PICK S : objects \in Seq(S)
    BY DEF Inv, TypeInv
  <2> DEFINE T == S \union {o}
  <2>2. objects \in Seq(T) /\ o \in T
    BY <2>1
  <2> HIDE DEF T
  <2>3. /\ Append(objects, o) \in Seq(T) /\ Len(Append(objects, o)) = Len(objects) + 1
        /\ Len(objects) \in Nat /\ DOMAIN objects = 1..Len(objects)
        /\ DOMAIN Append(objects, o) = 1..Len(Append(objects, o))
        /\ \A k \in 1..Len(objects) : Append(objects, o)[k] = objects[k]
        /\ Append(objects, o)[Len(objects) + 1] = o
    BY <2>2, AppendProperties
  <2> QED
    BY <1>1, <2>3
<1>6. Unbuilt' \subseteq Unbuilt \ {i}
  <2> SUFFICES ASSUME NEW j \in Unbuilt' PROVE j \in Unbuilt /\ j # i
    OBVIOUS
  <2>1. /\ j \in DOMAIN definitions
        /\ \A k \in 1..(n + 1) : objects'[k].name # definitions[j].name
    BY <1>1, <1>5 DEF Unbuilt
  <2>2. j \in Unbuilt
    BY <1>5, <2>1 DEF Unbuilt
  <2>3. o.name # definitions[j].name
    BY <1>5, <2>1
  <2> QED
    BY <1>4, <2>2, <2>3
<1>7. \A j : IndexOf(j)' = IndexOf(j)
  BY <1>1 DEF IndexOf
<1>8. \A j \in Unbuilt \ {i} : IndexOf(i) < IndexOf(j)
  <2> SUFFICES ASSUME NEW j \in Unbuilt, j # i PROVE IndexOf(i) < IndexOf(j)
    OBVIOUS
  <2>1. IndexOf(i) \in Nat /\ IndexOf(j) \in Nat
    BY <1>2, <1>3, DefinitionIsPlaced DEF IndexOf
  <2>2. IndexOf(i) # IndexOf(j)
    BY <1>2, <1>3, IndexesDiffer
  <2> QED
    BY <1>3, <2>1, <2>2
<1>9. \A j, k \in DOMAIN objects' : j < k => objects'[j].index < objects'[k].index
  <2> SUFFICES ASSUME NEW j \in 1..(n + 1), NEW k \in 1..(n + 1), j < k
               PROVE  objects'[j].index < objects'[k].index
    BY <1>5
  <2>1. j \in 1..n
    OBVIOUS
  <2>2. CASE k \in 1..n
    BY <1>5, <2>1, <2>2 DEF OrderInv
  <2>3. CASE k = n + 1
    BY <1>3, <1>4, <1>5, <2>1, <2>3 DEF OrderInv
  <2> QED
    BY <2>2, <2>3
<1>10. ASSUME NEW k \in 1..(n + 1), NEW j \in Unbuilt' PROVE objects'[k].index < IndexOf(j)
  <2>1. j \in Unbuilt \ {i}
    BY <1>6
  <2>2. CASE k \in 1..n
    BY <1>5, <2>1, <2>2 DEF OrderInv
  <2>3. CASE k = n + 1
    BY <1>4, <1>5, <1>8, <2>1, <2>3
  <2> QED
    BY <2>2, <2>3
<1> QED
  BY <1>5, <1>7, <1>9, <1>10 DEF OrderInv

LEMMA NextKeepsOrder == Inv /\ OrderInv /\ [Next]_vars => OrderInv'
<1> SUFFICES ASSUME Inv, OrderInv, [Next]_vars PROVE OrderInv'
  OBVIOUS
<1>1. CASE EndCategory
  <2>1. objects' = << >>
    BY <1>1 DEF EndCategory, Inv, StageInv
  <2>2. DOMAIN objects' = {}
    BY <2>1
  <2> QED
    BY <2>2 DEF OrderInv
<1>2. CASE BuildVariable
  BY <1>2, BuildOrder DEF BuildVariable, Building
<1>3. CASE BuildArray
  <2> DEFINE d == definitions[NextToBuild]
  <2>1. /\ stage = "objects" /\ Unbuilt # {}
        /\ Build(d.length, {CountEntry(d)}
                    \union {SubEntry(k, d.name, "array-element") : k \in 1..d.length})
    BY <1>3 DEF BuildArray, Building
  <2> HIDE DEF Build
  <2> QED
    BY <2>1, BuildOrder
<1>4. CASE EndRecord
  <2> DEFINE d == definitions[NextToBuild]
  <2>1. /\ stage = "fields"
        /\ Build(Len(d.fields), {CountEntry(d)}
             \union {SubEntry(assigned[n].address, n, "record-field") : n \in DOMAIN assigned})
    BY <1>4 DEF EndRecord
  <2>2. Unbuilt # {}
    BY <2>1 DEF Inv, StageInv
  <2> HIDE DEF Build
  <2> QED
    BY <2>1, <2>2, BuildOrder
<1>5. CASE RejectDuplicate \/ FailCategory \/ RejectArrayLength \/ FailRecord
  BY <1>5, KeepsOrder DEF RejectDuplicate, FailCategory, RejectArrayLength, FailRecord, Fail
<1>6. CASE AcceptNames \/ StartCategory \/ StartObjects \/ StartRecord \/ ReturnDictionary
  BY <1>6, KeepsOrder
     DEF AcceptNames, StartCategory, StartObjects, StartRecord, ReturnDictionary
<1>7. CASE PassStep \/ UNCHANGED vars
  BY <1>7, KeepsOrder DEF PassStep, vars, ownVars
<1>8. CASE \/ \E i \in DOMAIN definitions : DiagnoseObject(i)
           \/ \E o \in NameOwners, k \in DOMAIN Categories :
                 DiagnoseUnknown(QualifiedName(o), Categories[k])
  BY <1>8, KeepsOrder DEF DiagnoseObject, DiagnoseUnknown
<1> QED
  BY <1>1, <1>2, <1>3, <1>4, <1>5, <1>6, <1>7, <1>8 DEF Next

LEMMA OrderHolds == Spec => []OrderInv
<1>1. Init => OrderInv
  <2>1. Init => DOMAIN objects = {}
    BY DEF Init
  <2> QED
    BY <2>1 DEF OrderInv
<1> QED
  BY <1>1, NextKeepsOrder, InvHolds, PTL DEF Spec

-----------------------------------------------------------------------------
\* What is written of a finished dictionary.

LEMMA FinishedObject ==
    ASSUME Inv, stage = "done", NEW k \in DOMAIN objects
    PROVE  LET o == objects[k] IN
           /\ k \in Nat /\ o.index \in Nat
           /\ \E c \in DOMAIN Categories : o.category = Categories[c]
           /\ \A c \in DOMAIN Categories :
                 o.category = Categories[c] => o.index \in Addresses(CategoryRange[Categories[c]])
           /\ o.count = None => o.entries = {}
           /\ IsFiniteSet(o.entries)
           /\ \A e \in o.entries : e.subindex \in Nat /\ (e.subindex = 0 <=> e.role = "count")
           /\ \A e, f \in o.entries : e.subindex = f.subindex => e = f
<1> DEFINE o == objects[k]
<1>1. PICK i \in DOMAIN definitions : IsBuilt(o, definitions[i])
  BY DEF Inv, BuiltInv
<1> DEFINE d == definitions[i]
<1>2. /\ NamesAreUnique /\ DefinitionsInv /\ \A c \in DOMAIN Categories : IsPlaced(c)
      /\ d.kind \in {"variable", "array", "record"} /\ d.category \in Range(Categories)
  BY FinishedDictionary, DefinitionTypes DEF ObjectDefinitions
<1>3. /\ assignments[d.name].address \in Nat
      /\ assignments[d.name].address \in Addresses(CategoryRange[d.category])
  BY <1>2, DefinitionIsPlaced
<1>4. o.index = assignments[d.name].address /\ o.category = d.category
  BY <1>1 DEF IsBuilt
<1>5. k \in Nat
  BY DEF Inv, TypeInv
<1>6. CASE d.kind = "variable"
  <2>1. o.count = None /\ o.entries = {}
    BY <1>1, <1>6 DEF IsBuilt
  <2> HIDE DEF o, d
  <2> QED
    BY <1>2, <1>3, <1>4, <1>5, <2>1, CategoryFacts, FS_EmptySet DEF o
<1>7. CASE d.kind # "variable"
  <2>1. EntriesAreRight(o, d)
    BY <1>1, <1>7 DEF IsBuilt
  <2>2. o.count # None
    BY <2>1, NoneAssumption DEF EntriesAreRight
  <2> HIDE DEF o, d
  <2> QED
    BY <1>2, <1>3, <1>4, <1>5, <2>1, <2>2, CategoryFacts DEF EntriesAreRight, o
<1> QED
  BY <1>6, <1>7

\* The parts of a place.
LEMMA PlaceParts ==
    /\ \A k, E : <<k, E>>[1] = k /\ <<k, E>>[2] = E /\ ObjectAt(<<k, E>>) = objects[k]
    /\ \A k, e : EntryAt(<<k, {e}>>) = e /\ {e} # {}
    /\ \A k, E, p : p \in Places(k, E) <=> p = <<k, {}>> \/ \E e \in E : p = <<k, {e}>>
BY DEF ObjectAt, EntryAt, Places

\* Objects have indexes in the order of their places and their entries have
\* subindexes in the order of theirs.
LEMMA PlacesAscend ==
    ASSUME Inv, OrderInv, stage = "done", NEW z \in Int, NEW f,
           \A p \in DOMAIN f : \E k \in DOMAIN objects :
              \/ p = <<k, {}>> /\ f[p] = <<objects[k].index, z>>
              \/ \E e \in objects[k].entries :
                    e.subindex > z /\ p = <<k, {e}>> /\ f[p] = <<objects[k].index, e.subindex>>
    PROVE  Ascends(f)
<1> SUFFICES ASSUME NEW p \in DOMAIN f, NEW q \in DOMAIN f, p # q
             PROVE  \/ IsBefore(p, q) /\ Precedes(f[p], f[q])
                    \/ IsBefore(q, p) /\ Precedes(f[q], f[p])
  BY DEF Ascends
<1> DEFINE IsAt(k, E, s) ==
              \/ E = {} /\ s = z
              \/ \E e \in objects[k].entries : e.subindex > z /\ E = {e} /\ s = e.subindex
<1>1. PICK k \in DOMAIN objects : \E E, s :
         p = <<k, E>> /\ f[p] = <<objects[k].index, s>> /\ IsAt(k, E, s)
  OBVIOUS
<1>2. PICK E, s : p = <<k, E>> /\ f[p] = <<objects[k].index, s>> /\ IsAt(k, E, s)
  BY <1>1
<1>3. PICK l \in DOMAIN objects : \E F, t :
         q = <<l, F>> /\ f[q] = <<objects[l].index, t>> /\ IsAt(l, F, t)
  OBVIOUS
<1>4. PICK F, t : q = <<l, F>> /\ f[q] = <<objects[l].index, t>> /\ IsAt(l, F, t)
  BY <1>3
<1>5. /\ k \in Nat /\ l \in Nat
      /\ k < l => objects[k].index < objects[l].index
      /\ l < k => objects[l].index < objects[k].index
      /\ \A e \in objects[k].entries : e.subindex \in Nat
      /\ \A e, g \in objects[k].entries : e.subindex = g.subindex => e = g
  BY FinishedObject DEF OrderInv
<1>6. CASE k < l
  BY <1>2, <1>4, <1>5, <1>6 DEF IsBefore, Precedes
<1>7. CASE l < k
  BY <1>2, <1>4, <1>5, <1>7 DEF IsBefore, Precedes
<1>8. CASE k = l
  <2>1. CASE E = {} /\ F = {}
    BY <1>2, <1>4, <1>8, <2>1
  <2>2. ASSUME NEW g \in objects[k].entries, E = {} /\ s = z, g.subindex > z, F = {g}, t = g.subindex
        PROVE  IsBefore(p, q) /\ Precedes(f[p], f[q])
    BY <1>2, <1>4, <1>5, <1>8, <2>2 DEF IsBefore, Precedes
  <2>3. ASSUME NEW e \in objects[k].entries, F = {} /\ t = z, e.subindex > z, E = {e}, s = e.subindex
        PROVE  IsBefore(q, p) /\ Precedes(f[q], f[p])
    BY <1>2, <1>4, <1>5, <1>8, <2>3 DEF IsBefore, Precedes
  <2>4. ASSUME NEW e \in objects[k].entries, NEW g \in objects[k].entries,
               E = {e}, s = e.subindex, F = {g}, t = g.subindex
        PROVE  \/ IsBefore(p, q) /\ Precedes(f[p], f[q])
               \/ IsBefore(q, p) /\ Precedes(f[q], f[p])
    <3>1. e # g
      BY <1>2, <1>4, <1>8, <2>4
    <3>2. e.subindex < g.subindex \/ g.subindex < e.subindex
      BY <1>5, <3>1
    <3>3. CASE e.subindex < g.subindex
      BY <1>2, <1>4, <1>8, <2>4, <3>3 DEF IsBefore, Precedes
    <3>4. CASE g.subindex < e.subindex
      BY <1>2, <1>4, <1>8, <2>4, <3>4 DEF IsBefore, Precedes
    <3> QED
      BY <3>2, <3>3, <3>4
  <2> QED
    BY <1>2, <1>4, <1>8, <2>1, <2>2, <2>3, <2>4
<1> QED
  BY <1>5, <1>6, <1>7, <1>8

\* The places of the EDS and what is written there.
LEMMA EdsPlacesAre ==
    ASSUME Inv, stage = "done"
    PROVE  \A p : p \in EdsPlaces <=>
              \E k \in DOMAIN objects :
                 p = <<k, {}>> \/ \E e \in objects[k].entries : p = <<k, {e}>>
<1>1. ASSUME NEW k \in DOMAIN objects
      PROVE  (IF objects[k].count = None THEN {} ELSE objects[k].entries) = objects[k].entries
  BY FinishedObject
<1>2. EdsPlaces = UNION {Places(k, objects[k].entries) : k \in DOMAIN objects}
  BY <1>1 DEF EdsPlaces
<1> QED
  BY <1>2, PlaceParts

LEMMA SectionsAre ==
    ASSUME Inv, stage = "done"
    PROVE  \A k \in DOMAIN objects :
              LET o == objects[k] IN
              /\ EdsSections[<<k, {}>>] =
                    Section(o.index, None, o.name,
                            IF o.count = None THEN None ELSE Cardinality(o.entries))
              /\ \A e \in o.entries :
                    EdsSections[<<k, {e}>>] = Section(o.index, e.subindex, e.name, None)
<1> SUFFICES ASSUME NEW k \in DOMAIN objects
             PROVE  LET o == objects[k] IN
                    /\ EdsSections[<<k, {}>>] =
                          Section(o.index, None, o.name,
                                  IF o.count = None THEN None ELSE Cardinality(o.entries))
                    /\ \A e \in o.entries :
                          EdsSections[<<k, {e}>>] = Section(o.index, e.subindex, e.name, None)
  OBVIOUS
<1>1. /\ <<k, {}>> \in EdsPlaces
      /\ \A e \in objects[k].entries : <<k, {e}>> \in EdsPlaces
  BY EdsPlacesAre
<1>2. EdsSections[<<k, {}>>] = IF objects[k].count = None THEN VariableSection(objects[k])
                               ELSE ContainerSection(objects[k])
  BY <1>1, PlaceParts DEF EdsSections
<1>3. ASSUME NEW e \in objects[k].entries
      PROVE  EdsSections[<<k, {e}>>] = EntrySection(objects[k], e)
  BY <1>1, PlaceParts DEF EdsSections
<1> QED
  BY <1>2, <1>3 DEF VariableSection, ContainerSection, EntrySection

LEMMA ObjectSection ==
    ASSUME Inv, stage = "done", NEW k \in DOMAIN objects
    PROVE  LET o == objects[k]
               s == EdsSections[<<k, {}>>]
           IN  /\ <<k, {}>> \in EdsPlaces
               /\ s.index = o.index /\ s.sub = None /\ s.name = o.name
               /\ s.subNumber = IF o.count = None THEN None ELSE Cardinality(o.entries)
<1>1. EdsSections[<<k, {}>>] =
         Section(objects[k].index, None, objects[k].name,
                 IF objects[k].count = None THEN None ELSE Cardinality(objects[k].entries))
  BY SectionsAre
<1>2. <<k, {}>> \in EdsPlaces
  BY EdsPlacesAre
<1> QED
  BY <1>1, <1>2 DEF Section

LEMMA SubentrySection ==
    ASSUME Inv, stage = "done", NEW k \in DOMAIN objects, NEW e \in objects[k].entries
    PROVE  LET s == EdsSections[<<k, {e}>>]
           IN  /\ <<k, {e}>> \in EdsPlaces
               /\ s.index = objects[k].index /\ s.sub = e.subindex /\ s.name = e.name
               /\ s.subNumber = None /\ s.sub # None
<1>1. EdsSections[<<k, {e}>>] = Section(objects[k].index, e.subindex, e.name, None)
  BY SectionsAre
<1>2. e.subindex # None /\ <<k, {e}>> \in EdsPlaces
  BY FinishedObject, EdsPlacesAre, NoneAssumption
<1> QED
  BY <1>1, <1>2 DEF Section

\* The places of a category in the map, and the lines there.
LEMMA LinesAre ==
    ASSUME NEW c \in DOMAIN Categories
    PROVE  /\ \A p : p \in DOMAIN MapLines[c] <=>
                 \E k \in DOMAIN objects :
                    /\ objects[k].category = Categories[c]
                    /\ \/ p = <<k, {}>>
                       \/ \E e \in objects[k].entries : e.role # "count" /\ p = <<k, {e}>>
           /\ \A k \in DOMAIN objects : objects[k].category = Categories[c] =>
                 /\ MapLines[c][<<k, {}>>] = Line(objects[k].index, 0, objects[k].name)
                 /\ \A e \in objects[k].entries : e.role # "count" =>
                       MapLines[c][<<k, {e}>>] = Line(objects[k].index, e.subindex, e.name)
<1>1. MapLines[c] = CategoryLines(Categories[c])
  BY DEF MapLines
<1>2. DOMAIN MapLines[c] = CategoryPlaces(Categories[c])
  BY <1>1 DEF CategoryLines
<1>3. \A p : p \in CategoryPlaces(Categories[c]) <=>
                 \E k \in DOMAIN objects :
                    /\ objects[k].category = Categories[c]
                    /\ \/ p = <<k, {}>>
                       \/ \E e \in objects[k].entries : e.role # "count" /\ p = <<k, {e}>>
  <2> SUFFICES ASSUME NEW p
               PROVE  p \in CategoryPlaces(Categories[c]) <=>
                         \E k \in DOMAIN objects :
                            /\ objects[k].category = Categories[c]
                            /\ \/ p = <<k, {}>>
                               \/ \E e \in objects[k].entries : e.role # "count" /\ p = <<k, {e}>>
    OBVIOUS
  <2>1. p \in CategoryPlaces(Categories[c]) <=>
           \E k \in ObjectsIn(Categories[c]) : p \in Places(k, ShownEntries(objects[k]))
    BY DEF CategoryPlaces
  <2>2. \A k : p \in Places(k, ShownEntries(objects[k])) <=>
                  p = <<k, {}>> \/ \E e \in ShownEntries(objects[k]) : p = <<k, {e}>>
    BY PlaceParts
  <2>3. \A k, e : e \in ShownEntries(objects[k]) <=> e \in objects[k].entries /\ e.role # "count"
    BY DEF ShownEntries
  <2>4. \A k : k \in ObjectsIn(Categories[c]) <=>
                  k \in DOMAIN objects /\ objects[k].category = Categories[c]
    BY DEF ObjectsIn
  <2> QED
    BY <2>1, <2>2, <2>3, <2>4
<1>4. ASSUME NEW k \in DOMAIN objects, objects[k].category = Categories[c]
      PROVE  /\ MapLines[c][<<k, {}>>] = Line(objects[k].index, 0, objects[k].name)
             /\ \A e \in objects[k].entries : e.role # "count" =>
                   MapLines[c][<<k, {e}>>] = Line(objects[k].index, e.subindex, e.name)
  <2>1. <<k, {}>> \in CategoryPlaces(Categories[c])
    BY <1>3, <1>4
  <2>2. MapLines[c][<<k, {}>>] = Line(objects[k].index, 0, objects[k].name)
    BY <1>1, <2>1, PlaceParts DEF CategoryLines
  <2>3. ASSUME NEW e \in objects[k].entries, e.role # "count"
        PROVE  MapLines[c][<<k, {e}>>] = Line(objects[k].index, e.subindex, e.name)
    <3>1. <<k, {e}>> \in CategoryPlaces(Categories[c])
      BY <1>3, <1>4, <2>3
    <3> DEFINE p == <<k, {e}>>
    <3>2. ObjectAt(p) = objects[k] /\ EntryAt(p) = e /\ p[2] # {}
      BY PlaceParts
    <3> HIDE DEF p
    <3>3. MapLines[c][p] = Line(objects[k].index, e.subindex, e.name)
      BY <1>1, <3>1, <3>2 DEF CategoryLines, p
    <3> QED
      BY <3>3 DEF p
  <2> QED
    BY <2>2, <2>3
<1> QED
  BY <1>2, <1>3, <1>4

LEMMA ObjectLine ==
    ASSUME NEW c \in DOMAIN Categories, NEW k \in DOMAIN objects,
           objects[k].category = Categories[c]
    PROVE  /\ <<k, {}>> \in DOMAIN MapLines[c]
           /\ MapLines[c][<<k, {}>>] = Line(objects[k].index, 0, objects[k].name)
           /\ MapLines[c][<<k, {}>>].index = objects[k].index
           /\ MapLines[c][<<k, {}>>].subindex = 0
<1>1. /\ <<k, {}>> \in DOMAIN MapLines[c]
      /\ MapLines[c][<<k, {}>>] = Line(objects[k].index, 0, objects[k].name)
  BY LinesAre
<1> QED
  BY <1>1 DEF Line

LEMMA SubentryLine ==
    ASSUME NEW c \in DOMAIN Categories, NEW k \in DOMAIN objects,
           objects[k].category = Categories[c],
           NEW e \in objects[k].entries, e.role # "count"
    PROVE  /\ <<k, {e}>> \in DOMAIN MapLines[c]
           /\ MapLines[c][<<k, {e}>>] = Line(objects[k].index, e.subindex, e.name)
           /\ MapLines[c][<<k, {e}>>].index = objects[k].index
           /\ MapLines[c][<<k, {e}>>].subindex = e.subindex
<1>1. /\ <<k, {e}>> \in DOMAIN MapLines[c]
      /\ MapLines[c][<<k, {e}>>] = Line(objects[k].index, e.subindex, e.name)
  BY LinesAre
<1> QED
  BY <1>1 DEF Line

\* The document has the lines of the map.
LEMMA DocumentIsMap ==
    ASSUME NEW c \in DOMAIN Categories
    PROVE  MapLines[c] = DocumentLines(c)
<1> DEFINE tables == DocumentTables[c]
           J == ObjectsIn(Categories[c])
<1>1. DOMAIN tables = J /\ \A j \in J : tables[j] = ObjectTable(objects[j])
  BY DEF DocumentTables
<1>2. \A j \in J : /\ DOMAIN tables[j].rows = ShownEntries(objects[j])
                   /\ tables[j].address[1] = objects[j].index /\ tables[j].address[2] = 0
                   /\ tables[j].name = objects[j].name
                   /\ \A e \in ShownEntries(objects[j]) :
                         /\ tables[j].rows[e].subindex = e.subindex
                         /\ tables[j].rows[e].name = e.name
  <2> SUFFICES ASSUME NEW j \in J
               PROVE  /\ DOMAIN tables[j].rows = ShownEntries(objects[j])
                      /\ tables[j].address[1] = objects[j].index /\ tables[j].address[2] = 0
                      /\ tables[j].name = objects[j].name
                      /\ \A e \in ShownEntries(objects[j]) :
                            /\ tables[j].rows[e].subindex = e.subindex
                            /\ tables[j].rows[e].name = e.name
    OBVIOUS
  <2> DEFINE o == objects[j]
             rows == [e \in ShownEntries(o) |-> [subindex |-> e.subindex, name |-> e.name]]
  <2>1. tables[j] = [address |-> <<o.index, 0>>, name |-> o.name, rows |-> rows]
    BY <1>1 DEF ObjectTable
  <2>2. \A e \in ShownEntries(o) : rows[e].subindex = e.subindex /\ rows[e].name = e.name
    OBVIOUS
  <2>3. DOMAIN rows = ShownEntries(o)
    OBVIOUS
  <2> HIDE DEF rows, o
  <2>4. /\ tables[j].rows = rows /\ tables[j].name = o.name
        /\ tables[j].address[1] = o.index /\ tables[j].address[2] = 0
    BY <2>1
  <2> QED
    BY <2>2, <2>3, <2>4 DEF o
<1> HIDE DEF tables, J
<1>3. UNION {Places(j, DOMAIN tables[j].rows) : j \in J} = CategoryPlaces(Categories[c])
  BY <1>2 DEF CategoryPlaces, J
<1> DEFINE text(p) == LET t == tables[p[1]] IN
                      IF p[2] = {} THEN Line(t.address[1], t.address[2], t.name)
                      ELSE Line(t.address[1], t.rows[EntryAt(p)].subindex, t.rows[EntryAt(p)].name)
           line(p) == IF p[2] = {} THEN Line(ObjectAt(p).index, 0, ObjectAt(p).name)
                      ELSE Line(ObjectAt(p).index, EntryAt(p).subindex, EntryAt(p).name)
<1>4. DocumentLines(c) = [p \in CategoryPlaces(Categories[c]) |-> text(p)]
  BY <1>1, <1>3 DEF DocumentLines, tables
<1>5. MapLines[c] = [p \in CategoryPlaces(Categories[c]) |-> line(p)]
  BY DEF MapLines, CategoryLines
<1>6. ASSUME NEW p \in CategoryPlaces(Categories[c]) PROVE text(p) = line(p)
  <2>1. PICK j \in J : p \in Places(j, ShownEntries(objects[j]))
    BY <1>6 DEF CategoryPlaces, J
  <2>2. CASE p = <<j, {}>>
    BY <1>2, <2>1, <2>2, PlaceParts
  <2>3. ASSUME NEW e \in ShownEntries(objects[j]), p = <<j, {e}>> PROVE text(p) = line(p)
    <3>1. p[1] = j /\ p[2] # {} /\ EntryAt(p) = e /\ ObjectAt(p) = objects[j]
      BY <2>3, PlaceParts
    <3> QED
      BY <1>2, <2>1, <3>1
  <2> QED
    BY <2>1, <2>2, <2>3, PlaceParts
<1> HIDE DEF text, line
<1> QED
  BY <1>4, <1>5, <1>6

\* The addresses of the sections ascend, and those of the lines under a heading.
LEMMA SectionsAscend ==
    ASSUME Inv, OrderInv, stage = "done"
    PROVE  Ascends(SectionAddresses)
<1>1. DOMAIN SectionAddresses = EdsPlaces
  BY DEF SectionAddresses
<1>2. ASSUME NEW k \in DOMAIN objects
      PROVE  SectionAddresses[<<k, {}>>] = <<objects[k].index, -1>>
  BY ObjectSection DEF SectionAddresses
<1>3. ASSUME NEW k \in DOMAIN objects, NEW e \in objects[k].entries
      PROVE  /\ SectionAddresses[<<k, {e}>>] = <<objects[k].index, e.subindex>>
             /\ e.subindex > -1
  <2>1. SectionAddresses[<<k, {e}>>] = <<objects[k].index, e.subindex>>
    BY SubentrySection DEF SectionAddresses
  <2>2. e.subindex \in Nat
    BY FinishedObject
  <2> QED
    BY <2>1, <2>2
<1>4. \A p \in DOMAIN SectionAddresses : \E k \in DOMAIN objects :
         \/ p = <<k, {}>> /\ SectionAddresses[p] = <<objects[k].index, -1>>
         \/ \E e \in objects[k].entries :
               /\ e.subindex > -1 /\ p = <<k, {e}>>
               /\ SectionAddresses[p] = <<objects[k].index, e.subindex>>
  BY <1>1, <1>2, <1>3, EdsPlacesAre
<1>5. -1 \in Int
  OBVIOUS
<1> QED
  BY <1>4, <1>5, PlacesAscend

LEMMA LinesAscend ==
    ASSUME Inv, OrderInv, stage = "done", NEW c \in DOMAIN Categories
    PROVE  Ascends(LineAddresses(c))
<1>1. DOMAIN LineAddresses(c) = DOMAIN MapLines[c]
  BY DEF LineAddresses
<1>2. ASSUME NEW k \in DOMAIN objects, objects[k].category = Categories[c]
      PROVE  LineAddresses(c)[<<k, {}>>] = <<objects[k].index, 0>>
  BY <1>2, ObjectLine DEF LineAddresses
<1>3. ASSUME NEW k \in DOMAIN objects, objects[k].category = Categories[c],
             NEW e \in objects[k].entries, e.role # "count"
      PROVE  LineAddresses(c)[<<k, {e}>>] = <<objects[k].index, e.subindex>> /\ e.subindex > 0
  <2>1. LineAddresses(c)[<<k, {e}>>] = <<objects[k].index, e.subindex>>
    BY <1>3, SubentryLine DEF LineAddresses
  <2>2. e.subindex > 0
    BY <1>3, FinishedObject
  <2> QED
    BY <2>1, <2>2
<1>4. \A p \in DOMAIN LineAddresses(c) : \E k \in DOMAIN objects :
         \/ p = <<k, {}>> /\ LineAddresses(c)[p] = <<objects[k].index, 0>>
         \/ \E e \in objects[k].entries :
               /\ e.subindex > 0 /\ p = <<k, {e}>>
               /\ LineAddresses(c)[p] = <<objects[k].index, e.subindex>>
  BY <1>1, <1>2, <1>3, LinesAre
<1> QED
  BY <1>4, PlacesAscend

\* A section announces as many subentries as follow it.
LEMMA CountsFollow ==
    ASSUME Inv, OrderInv, stage = "done",
           NEW p \in EdsPlaces, EdsSections[p].subNumber # None
    PROVE  EdsSections[p].subNumber =
              Cardinality({q \in EdsPlaces : /\ EdsSections[q].index = EdsSections[p].index
                                             /\ EdsSections[q].sub # None})
<1> DEFINE Q == {q \in EdsPlaces : /\ EdsSections[q].index = EdsSections[p].index
                                   /\ EdsSections[q].sub # None}
<1>1. PICK k \in DOMAIN objects : p = <<k, {}>>
  BY EdsPlacesAre, SubentrySection
<1> DEFINE E == objects[k].entries
           f == [e \in E |-> <<k, {e}>>]
<1>2. EdsSections[p].subNumber = Cardinality(E) /\ EdsSections[p].index = objects[k].index
  <2>1. objects[k].count # None
    BY <1>1, ObjectSection
  <2> QED
    BY <1>1, <2>1, ObjectSection
<1>3. IsFiniteSet(E)
  BY FinishedObject
<1>4. ASSUME NEW e \in E PROVE <<k, {e}>> \in Q
  BY <1>2, SubentrySection
<1>5. ASSUME NEW q \in Q PROVE \E e \in E : <<k, {e}>> = q
  <2>1. q \in EdsPlaces /\ EdsSections[q].index = objects[k].index /\ EdsSections[q].sub # None
    BY <1>2
  <2>2. PICK l \in DOMAIN objects : \E e \in objects[l].entries : q = <<l, {e}>>
    BY <2>1, EdsPlacesAre, ObjectSection
  <2>3. objects[l].index = objects[k].index
    BY <2>1, <2>2, SubentrySection
  <2>4. l = k
    <3>1. l \in Nat /\ k \in Nat /\ objects[k].index \in Nat
      BY FinishedObject
    <3>2. l < k => objects[l].index < objects[k].index
      BY DEF OrderInv
    <3>3. k < l => objects[k].index < objects[l].index
      BY DEF OrderInv
    <3> QED
      BY <2>3, <3>1, <3>2, <3>3
  <2> QED
    BY <2>2, <2>4
<1> HIDE DEF Q, E
<1>6. f \in [E -> Q] /\ \A q \in Q : \E e \in E : f[e] = q
  BY <1>4, <1>5
<1>7. \A e, g \in E : f[e] = f[g] => e = g
  OBVIOUS
<1> HIDE DEF f
<1>8. f \in Bijection(E, Q)
  BY <1>6, <1>7 DEF Bijection, Injection, Surjection, IsInjective
<1>9. Cardinality(Q) = Cardinality(E)
  BY <1>3, <1>8, FS_Bijection DEF ExistsBijection
<1> QED
  BY <1>2, <1>9 DEF Q

\* There is one object for each definition.
LEMMA AsManyObjects ==
    ASSUME Inv, OrderInv, stage = "done"
    PROVE  \E n \in Nat : DOMAIN objects = 1..n /\ DOMAIN definitions = 1..n
<1>1. PICK m \in Nat : DOMAIN objects = 1..m
  BY DEF Inv, TypeInv
<1>2. PICK n \in Nat : DOMAIN definitions = 1..n
  BY FinishedDictionary DEF DefinitionsInv
<1> DEFINE of(k) == CHOOSE i \in DOMAIN definitions : IsBuilt(objects[k], definitions[i])
           f == [k \in 1..m |-> of(k)]
<1>3. \A k \in DOMAIN objects : of(k) \in DOMAIN definitions /\ IsBuilt(objects[k], definitions[of(k)])
  BY DEF Inv, BuiltInv
<1> HIDE DEF of
<1>4. f \in [1..m -> 1..n] /\ \A k \in 1..m : IsBuilt(objects[k], definitions[f[k]])
  BY <1>1, <1>2, <1>3
<1> HIDE DEF f
<1>5. ASSUME NEW j \in 1..m, NEW k \in 1..m, f[j] = f[k] PROVE j = k
  <2>1. objects[j].index = objects[k].index
    BY <1>4, <1>5 DEF IsBuilt
  <2>2. objects[j].index \in Nat /\ objects[k].index \in Nat
    BY <1>1, FinishedObject
  <2>3. /\ j < k => objects[j].index < objects[k].index
        /\ k < j => objects[k].index < objects[j].index
    BY <1>1 DEF OrderInv
  <2> QED
    BY <2>1, <2>2, <2>3
<1>6. ASSUME NEW i \in 1..n PROVE \E k \in 1..m : f[k] = i
  <2>1. PICK k \in 1..m : IsBuilt(objects[k], definitions[i])
    BY <1>1, <1>2, FinishedDictionary
  <2>2. definitions[f[k]].name = definitions[i].name /\ f[k] \in DOMAIN definitions
    BY <1>2, <1>4, <2>1 DEF IsBuilt
  <2> QED
    BY <1>2, <2>2, FinishedDictionary, DifferentNames
<1>7. Cardinality(1..n) = m
  BY <1>4, <1>5, <1>6, CountsEntries
<1>8. Cardinality(1..n) = n
  BY FS_Interval
<1> QED
  BY <1>1, <1>2, <1>7, <1>8

\* Sorting what ascends changes nothing.
LEMMA SortedIsSame ==
    ASSUME NEW n \in Nat, NEW g, \A j \in 1..n : g[j] \in Nat,
           \A j, k \in 1..n : j < k => g[j] < g[k],
           NEW p \in Bijection(1..n, 1..n),
           \A j, k \in 1..n : j < k => g[p[j]] <= g[p[k]]
    PROVE  \A j \in 1..n : p[j] = j
<1> DEFINE D == {j \in 1..n : p[j] # j}
<1> SUFFICES ASSUME D # {} PROVE FALSE
  OBVIOUS
<1>1. D \subseteq Nat
  OBVIOUS
<1>2. PICK i \in D : \A j \in D : i <= j
  BY <1>1, PassAssumptions, A!NatHasLeast
<1>3. /\ p \in [1..n -> 1..n]
      /\ \A j, k \in 1..n : p[j] = p[k] => j = k
      /\ \A j \in 1..n : \E k \in 1..n : p[k] = j
  BY DEF Bijection, Injection, Surjection, IsInjective
<1>4. \A j \in 1..n : j < i => p[j] = j
  BY <1>2
<1>5. p[i] \in 1..n /\ i \in 1..n /\ p[i] # i
  BY <1>2, <1>3
<1>6. i < p[i]
  <2>1. CASE p[i] < i
    <3>1. p[p[i]] = p[i]
      BY <1>4, <1>5, <2>1
    <3> QED
      BY <1>3, <1>5, <3>1
  <2> QED
    BY <1>5, <2>1
<1>7. PICK v \in 1..n : p[v] = i
  BY <1>3, <1>5
<1>8. i < v
  BY <1>4, <1>5, <1>6, <1>7
<1>9. g[p[i]] <= g[i]
  BY <1>5, <1>7, <1>8
<1>10. g[i] < g[p[i]]
  BY <1>5, <1>6
<1> QED
  BY <1>5, <1>9, <1>10

\* The announced indexes are those of the objects, as they come.
LEMMA IndexesAnnounced ==
    ASSUME Inv, OrderInv, stage = "done"
    PROVE  AnnouncedIndexes = [k \in DOMAIN definitions |-> objects[k].index]
<1>1. PICK n \in Nat : DOMAIN objects = 1..n /\ DOMAIN definitions = 1..n
  BY AsManyObjects
<1> DEFINE g == [k \in 1..n |-> objects[k].index]
           Sorts(p) == \A j, k \in DOMAIN p : j < k => objects[p[j]].index <= objects[p[k]].index
           id == [k \in 1..n |-> k]
           s == CHOOSE p \in Bijection(1..n, 1..n) : Sorts(p)
<1>2. \A j \in 1..n : g[j] \in Nat
  BY <1>1, FinishedObject
<1>3. \A j, k \in 1..n : j < k => g[j] < g[k]
  BY <1>1 DEF OrderInv
<1>4. id \in Bijection(1..n, 1..n) /\ Sorts(id)
  <2>1. id \in [1..n -> 1..n] /\ \A k \in 1..n : id[k] = k
    OBVIOUS
  <2> HIDE DEF id
  <2>2. id \in Bijection(1..n, 1..n)
    BY <2>1 DEF Bijection, Injection, Surjection, IsInjective
  <2>3. ASSUME NEW j \in 1..n, NEW k \in 1..n, j < k
        PROVE  objects[id[j]].index <= objects[id[k]].index
    <3>1. g[j] \in Nat /\ g[k] \in Nat /\ g[j] < g[k]
      BY <1>2, <1>3, <2>3
    <3>2. g[j] <= g[k]
      BY <3>1
    <3> QED
      BY <2>1, <3>2
  <2> QED
    BY <2>1, <2>2, <2>3
<1> HIDE DEF Sorts
<1>5. s \in Bijection(1..n, 1..n) /\ Sorts(s)
  BY <1>4
<1>6. AnnouncedIndexes = [k \in 1..n |-> objects[s[k]].index]
  BY <1>1 DEF AnnouncedIndexes, Sorts
<1> HIDE DEF s
<1>7. s \in [1..n -> 1..n]
  BY <1>5 DEF Bijection, Injection
<1>8. \A j, k \in 1..n : j < k => g[s[j]] <= g[s[k]]
  BY <1>5, <1>7 DEF Sorts
<1> HIDE DEF g
<1>9. \A j \in 1..n : s[j] = j
  BY <1>2, <1>3, <1>5, <1>8, SortedIsSame
<1> QED
  BY <1>1, <1>6, <1>9

\* The lines of all categories have the addresses of the sections, less the counts.
LEMMA MapIsEds ==
    ASSUME Inv, OrderInv, stage = "done"
    PROVE  UNION {Range(MapLines[c]) : c \in DOMAIN Categories} = EdsAddresses
<1> DEFINE shown(s) == Line(s.index, IF s.sub = None THEN 0 ELSE s.sub, s.name)
<1>1. \A l : l \in EdsAddresses <=>
                 \E p \in EdsPlaces : EdsSections[p].sub # 0 /\ l = shown(EdsSections[p])
  <2>1. DOMAIN EdsSections = EdsPlaces
    BY DEF EdsSections
  <2> QED
    BY <2>1 DEF EdsAddresses, Range
<1>2. None # 0
  BY NoneAssumption
<1>3. ASSUME NEW k \in DOMAIN objects
      PROVE  shown(EdsSections[<<k, {}>>]) = Line(objects[k].index, 0, objects[k].name)
  BY ObjectSection
<1>4. ASSUME NEW k \in DOMAIN objects, NEW e \in objects[k].entries
      PROVE  shown(EdsSections[<<k, {e}>>]) = Line(objects[k].index, e.subindex, e.name)
  BY SubentrySection
<1>5. ASSUME NEW c \in DOMAIN Categories, NEW p \in DOMAIN MapLines[c]
      PROVE  MapLines[c][p] \in EdsAddresses
  <2>1. PICK k \in DOMAIN objects :
           /\ objects[k].category = Categories[c]
           /\ p = <<k, {}>> \/ \E e \in objects[k].entries : e.role # "count" /\ p = <<k, {e}>>
    BY LinesAre
  <2>2. CASE p = <<k, {}>>
    <3>1. MapLines[c][p] = Line(objects[k].index, 0, objects[k].name)
      BY <2>1, <2>2, ObjectLine
    <3>2. p \in EdsPlaces /\ EdsSections[p].sub # 0
      BY <1>2, <2>2, ObjectSection
    <3> QED
      BY <1>1, <1>3, <2>2, <3>1, <3>2
  <2>3. ASSUME NEW e \in objects[k].entries, e.role # "count", p = <<k, {e}>>
        PROVE  MapLines[c][p] \in EdsAddresses
    <3>1. MapLines[c][p] = Line(objects[k].index, e.subindex, e.name)
      BY <2>1, <2>3, SubentryLine
    <3>2. e.subindex # 0
      BY <2>3, FinishedObject
    <3>3. p \in EdsPlaces /\ EdsSections[p].sub # 0
      BY <2>3, <3>2, SubentrySection
    <3> QED
      BY <1>1, <1>4, <2>3, <3>1, <3>3
  <2> QED
    BY <2>1, <2>2, <2>3
<1>6. ASSUME NEW p \in EdsPlaces, EdsSections[p].sub # 0
      PROVE  \E c \in DOMAIN Categories : shown(EdsSections[p]) \in Range(MapLines[c])
  <2>1. PICK k \in DOMAIN objects :
           p = <<k, {}>> \/ \E e \in objects[k].entries : p = <<k, {e}>>
    BY EdsPlacesAre
  <2>2. PICK c \in DOMAIN Categories : objects[k].category = Categories[c]
    BY FinishedObject
  <2>3. CASE p = <<k, {}>>
    <3>1. /\ p \in DOMAIN MapLines[c]
          /\ MapLines[c][p] = Line(objects[k].index, 0, objects[k].name)
      BY <2>2, <2>3, ObjectLine
    <3> QED
      BY <1>3, <2>3, <3>1 DEF Range
  <2>4. ASSUME NEW e \in objects[k].entries, p = <<k, {e}>>
        PROVE  shown(EdsSections[p]) \in Range(MapLines[c])
    <3>1. e.role # "count"
      BY <1>6, <2>4, FinishedObject, SubentrySection
    <3>2. /\ p \in DOMAIN MapLines[c]
          /\ MapLines[c][p] = Line(objects[k].index, e.subindex, e.name)
      BY <2>2, <2>4, <3>1, SubentryLine
    <3> QED
      BY <1>4, <2>4, <3>2 DEF Range
  <2> QED
    BY <2>1, <2>3, <2>4
<1> HIDE DEF shown
<1>7. \A l : l \in EdsAddresses => \E c \in DOMAIN Categories : l \in Range(MapLines[c])
  BY <1>1, <1>6
<1>8. \A c \in DOMAIN Categories : Range(MapLines[c]) \subseteq EdsAddresses
  BY <1>5 DEF Range
<1> QED
  BY <1>7, <1>8

\* Under a heading there are indexes of its range only.
LEMMA LinesInRange ==
    ASSUME Inv, stage = "done", NEW c \in DOMAIN Categories, NEW l \in Range(MapLines[c])
    PROVE  l.index \in Addresses(CategoryRange[Categories[c]])
<1>1. PICK p \in DOMAIN MapLines[c] : l = MapLines[c][p]
  BY DEF Range
<1>2. PICK k \in DOMAIN objects :
         /\ objects[k].category = Categories[c]
         /\ p = <<k, {}>> \/ \E e \in objects[k].entries : e.role # "count" /\ p = <<k, {e}>>
  BY LinesAre
<1>3. l.index = objects[k].index
  <2>1. CASE p = <<k, {}>>
    BY <1>1, <1>2, <2>1, ObjectLine
  <2>2. ASSUME NEW e \in objects[k].entries, e.role # "count", p = <<k, {e}>>
        PROVE  l.index = objects[k].index
    BY <1>1, <1>2, <2>2, SubentryLine
  <2> QED
    BY <1>2, <2>1, <2>2
<1> QED
  BY <1>2, <1>3, FinishedObject

\* Every definition has a section of its own name.
LEMMA DefinitionsHaveSections ==
    ASSUME Inv, stage = "done", NEW i \in DOMAIN definitions
    PROVE  \E p \in EdsPlaces : /\ EdsSections[p].sub = None
                                /\ EdsSections[p].name = definitions[i].name
<1>1. PICK k \in DOMAIN objects : IsBuilt(objects[k], definitions[i])
  BY FinishedDictionary
<1> QED
  BY <1>1, ObjectSection DEF IsBuilt

\* The EDS, the address map and the Markdown document, each written by code of its
\* own, list every object and every subentry of the returned dictionary, at the
\* same addresses, in ascending order and once.
THEOREM ArtifactsAreComplete == Spec => []ArtifactsListEveryEntry
<1>1. Inv /\ OrderInv => ArtifactsListEveryEntry
  <2> SUFFICES ASSUME Inv, OrderInv, stage = "done" PROVE ArtifactsListEveryEntry
    BY DEF ArtifactsListEveryEntry
  <2>1. ASSUME NEW c \in DOMAIN Categories
        PROVE  /\ Ascends(LineAddresses(c))
               /\ \A l \in Range(MapLines[c]) : l.index \in Addresses(CategoryRange[Categories[c]])
               /\ MapLines[c] = DocumentLines(c)
    BY LinesAscend, LinesInRange, DocumentIsMap
  <2> QED
    BY <2>1, DefinitionsHaveSections, SectionsAscend, IndexesAnnounced, CountsFollow, MapIsEds
       DEF ArtifactsListEveryEntry
<1> QED
  BY <1>1, InvHolds, OrderHolds, PTL
=============================================================================
