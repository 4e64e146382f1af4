-------------------------- MODULE PdoMappingProofs --------------------------
(***************************************************************************)
(* A reference of a PDO stays within the imports of the PDO's owner, what  *)
(* is mapped can be transferred from where it is addressed, and a device   *)
(* is refused for a fault of its own; whatever the device.                 *)
(***************************************************************************)
EXTENDS PdoMapping, TLAPS, SequenceTheorems, FiniteSetTheorems, WellFoundedInduction

AnyLeaf ==
    [key : Names, role : {"object", "count", "record-field", "array-element"},
     access : Accesses \union {"none"}, bits : Nat, subindex : Nat]

Entries == [declared : Names, name : Names, index : Nat, subindex : Nat, bits : Nat]

\* The stages after the last reference has been resolved.
LateStages ==
    {"entries", "done", "container", "write_only", "read_only", "unmappable", "budget"}

TypeInv ==
    /\ device \in Devices
    /\ stage \in Errors \union {"references", "entries", "done"}
    /\ pdo \in 1..(Len(Pdos) + 1)
    /\ references \in [DOMAIN Pdos -> Seq(Names)]
    /\ entries \in [DOMAIN Pdos -> Seq(Entries)]

\* How far each stage has come.
ProgressInv ==
    /\ \A p \in DOMAIN Pdos :
          /\ Len(references[p]) <= Len(Pdos[p].mapping)
          /\ Len(entries[p]) <= Len(references[p])
          /\ stage = "references" /\ p < pdo => Len(references[p]) = Len(Pdos[p].mapping)
          /\ stage \in LateStages => Len(references[p]) = Len(Pdos[p].mapping)
          /\ stage \in LateStages /\ p < pdo =>
                Len(entries[p]) = Len(references[p]) /\ TotalBits(p) <= MaxPayload
    /\ stage = "done" => pdo = Len(Pdos) + 1

\* A leaf that a PDO of direction can carry.
Transferable(direction, leaf) ==
    leaf.access # "none" /\ ~IsWrongWay(direction, leaf) /\ leaf.bits > 0

\* An entry has the address and the width of its reference's leaf.
Carries(direction, e, name) ==
    /\ Transferable(direction, Leaf(name))
    /\ e.name = name
    /\ e.index = Objects[Holder(name)].index
    /\ e.subindex = Leaf(name).subindex
    /\ e.bits = Leaf(name).bits

\* Its declared name is how the PDO spells the target there or before.
EntriesInv ==
    \A p \in DOMAIN Pdos : \A i \in DOMAIN entries[p] :
        /\ Carries(Pdos[p].direction, entries[p][i], references[p][i])
        /\ \E j \in 1..i : /\ references[p][j] = references[p][i]
                          /\ entries[p][i].declared = Pdos[p].mapping[j]

Inv ==
    /\ TypeInv
    /\ ProgressInv
    /\ LookupIsScoped
    /\ EntriesInv
    /\ RejectionIsJustified

-----------------------------------------------------------------------------
\* The device and its dictionary.

LEMMA DeviceType ==
    ASSUME TypeInv
    PROVE  /\ Objects \in Seq(DictionaryObjects)
           /\ DOMAIN Objects = 1..Len(Objects) /\ Len(Objects) \in Nat
           /\ \A k \in DOMAIN Objects : Objects[k] \in DictionaryObjects
           /\ Pdos \in Seq([owner : DOMAIN device.dependencies, direction : {"tpdo", "rpdo"},
                            mapping : Seq(Names)])
           /\ DOMAIN Pdos = 1..Len(Pdos) /\ Len(Pdos) \in Nat
           /\ \A p \in DOMAIN Pdos :
                 /\ Pdos[p].owner \in DOMAIN device.dependencies
                 /\ Pdos[p].direction \in {"tpdo", "rpdo"}
                 /\ Pdos[p].mapping \in Seq(Names)
<1>1. /\ Objects \in Seq(DictionaryObjects)
      /\ Pdos \in Seq([owner : DOMAIN device.dependencies, direction : {"tpdo", "rpdo"},
                       mapping : Seq(Names)])
    BY DevicesAssumption DEF TypeInv, Objects, Pdos
<1>2. /\ DOMAIN Objects = 1..Len(Objects) /\ Len(Objects) \in Nat
      /\ DOMAIN Pdos = 1..Len(Pdos) /\ Len(Pdos) \in Nat
    BY <1>1
<1>3. \A k \in DOMAIN Objects : Objects[k] \in DictionaryObjects
    BY <1>1, <1>2, ElementOfSeq
<1>4. \A p \in DOMAIN Pdos : Pdos[p] \in [owner : DOMAIN device.dependencies,
                                         direction : {"tpdo", "rpdo"}, mapping : Seq(Names)]
    BY <1>1, <1>2, ElementOfSeq
<1>5. QED
    BY <1>1, <1>2, <1>3, <1>4

LEMMA NatHasLeast ==
    ASSUME NEW T, T \subseteq Nat, T # {}
    PROVE  \E x \in T : \A y \in T : x <= y
<1> DEFINE R == {ss \in Nat \X Nat : ss[1] < ss[2]}
<1>1. IsWellFoundedOn(R, Nat)
    BY NatLessThanWellFounded DEF OpToRel
<1>2. \A x, y \in Nat : <<x, y>> \notin R => y <= x
    OBVIOUS
<1> HIDE DEF R
<1>3. PICK x \in T : \A y \in T : <<y, x>> \notin R
    BY <1>1, WFMin
<1>4. QED
    BY <1>2, <1>3

\* The leaves of an object: the object itself and then its subentries.
LEMMA LeavesType ==
    ASSUME NEW o \in DictionaryObjects
    PROVE  /\ Leaves(o) \in Seq(AnyLeaf)
           /\ DOMAIN Leaves(o) = 1..(Len(o.subs) + 1) /\ Len(o.subs) \in Nat
           /\ DOMAIN o.subs = 1..Len(o.subs)
           /\ Leaves(o)[1] = [key |-> o.key, role |-> "object", access |-> o.access,
                              bits |-> o.bits, subindex |-> 0]
           /\ \A i \in 1..Len(o.subs) : Leaves(o)[i + 1] = o.subs[i]
           /\ \A i \in DOMAIN Leaves(o) : Leaves(o)[i] \in AnyLeaf
<1> DEFINE l == [key |-> o.key, role |-> "object", access |-> o.access, bits |-> o.bits, subindex |-> 0]
           n == Len(o.subs)
<1>1. l \in AnyLeaf /\ o.subs \in Seq(SubEntries)
    BY DEF DictionaryObjects, AnyLeaf
<1>2. SubEntries \subseteq AnyLeaf
    BY DEF SubEntries, AnyLeaf
<1>3. o.subs \in Seq(AnyLeaf) /\ n \in Nat /\ DOMAIN o.subs = 1..n
    <2> HIDE DEF n
    <2>1. o.subs \in Seq(AnyLeaf)
        BY <1>1, <1>2, SeqMonotonic
    <2>2. QED
        BY <2>1 DEF n
<1>4. Leaves(o) = <<l>> \o o.subs
    BY DEF Leaves
<1> HIDE DEF l
<1>5. <<l>> \in Seq(AnyLeaf) /\ Len(<<l>>) = 1 /\ <<l>>[1] = l
    BY <1>1
<1>6. /\ Leaves(o) \in Seq(AnyLeaf)
      /\ Len(Leaves(o)) = 1 + n
      /\ \A i \in 1..(1 + n) : Leaves(o)[i] = IF i <= 1 THEN <<l>>[i] ELSE o.subs[i - 1]
    <2> HIDE DEF AnyLeaf
    <2>1. QED
        BY <1>3, <1>4, <1>5, ConcatProperties
<1> HIDE DEF n
<1>7. Leaves(o)[1] = l
    BY <1>3, <1>5, <1>6
<1>8. \A i \in 1..n : Leaves(o)[i + 1] = o.subs[i]
    <2>1. SUFFICES ASSUME NEW i \in 1..n PROVE Leaves(o)[i + 1] = o.subs[i]
        OBVIOUS
    <2>2. i + 1 \in 1..(1 + n) /\ ~(i + 1 <= 1) /\ (i + 1) - 1 = i
        BY <1>3
    <2>3. QED
        BY <1>6, <2>2
<1>9. DOMAIN Leaves(o) = 1..(n + 1)
    BY <1>3, <1>6
<1>10. \A i \in DOMAIN Leaves(o) : Leaves(o)[i] \in AnyLeaf
    <2> HIDE DEF AnyLeaf
    <2>1. QED
        BY <1>3, <1>6, <1>9, ElementOfSeq
<1>11. QED
    BY <1>3, <1>6, <1>7, <1>8, <1>9, <1>10 DEF l, n

-----------------------------------------------------------------------------
\* The holder of a name, and its leaf: the first object by index, and the first
\* of its leaves, that the name says.

LEMMA TargetIsHeld ==
    ASSUME TypeInv, NEW t \in Targets
    PROVE  /\ \E k \in DOMAIN Objects : Holds(k, Name(t))
           /\ t.owner \in Names /\ t.key \in Names /\ Name(t) \in Names
<1>1. PICK o \in Range(Objects) :
          t \in {[owner |-> o.owner, key |-> o.key]}
                \union {[owner |-> o.owner, key |-> s.key] :
                          s \in {s \in Range(o.subs) : s.role = "record-field"}}
    BY DEF Targets
<1>2. PICK k \in DOMAIN Objects : o = Objects[k]
    BY DEF Range
<1>3. o \in DictionaryObjects
    BY <1>2, DeviceType
<1>4. PICK i \in DOMAIN Leaves(o) : Leaves(o)[i].key = t.key
    <2>0. /\ DOMAIN Leaves(o) = 1..(Len(o.subs) + 1) /\ Len(o.subs) \in Nat
          /\ DOMAIN o.subs = 1..Len(o.subs)
          /\ Leaves(o)[1] = [key |-> o.key, role |-> "object", access |-> o.access,
                             bits |-> o.bits, subindex |-> 0]
          /\ \A i \in 1..Len(o.subs) : Leaves(o)[i + 1] = o.subs[i]
        BY <1>3, LeavesType
    <2>1. CASE t = [owner |-> o.owner, key |-> o.key]
        <3>1. Leaves(o)[1].key = t.key /\ 1 \in DOMAIN Leaves(o)
            BY <2>0, <2>1
        <3>2. QED
            BY <3>1
    <2>2. CASE \E s \in Range(o.subs) : t = [owner |-> o.owner, key |-> s.key]
        <3>1. PICK i \in DOMAIN o.subs : t = [owner |-> o.owner, key |-> o.subs[i].key]
            BY <2>2 DEF Range
        <3>2. i \in 1..Len(o.subs) /\ Len(o.subs) \in Nat /\ i + 1 \in DOMAIN Leaves(o)
            BY <2>0, <3>1
        <3>3. Leaves(o)[i + 1].key = t.key
            BY <2>0, <3>1, <3>2
        <3>4. QED
            BY <3>2, <3>3
    <2>3. QED
        BY <1>1, <2>1, <2>2
<1>5. t.owner = o.owner
    BY <1>1
<1>6. Holds(k, Name(t))
    BY <1>2, <1>4, <1>5 DEF Holds, Name, Range
<1>7. t.owner \in Names /\ t.key \in Names
    <2>1. o.owner \in Names
        BY <1>3 DEF DictionaryObjects
    <2>2. Leaves(o)[i].key \in Names
        BY <1>3, <1>4, LeavesType DEF AnyLeaf
    <2>3. QED
        BY <1>4, <1>5, <2>1, <2>2
<1>8. Name(t) \in Names
    BY <1>7 DEF Name, Qualified, Names
<1>9. QED
    BY <1>6, <1>7, <1>8

LEMMA HolderOfTarget ==
    ASSUME TypeInv, NEW t \in Targets
    PROVE  /\ Holder(Name(t)) \in DOMAIN Objects /\ Holds(Holder(Name(t)), Name(t))
           /\ \A j \in 1..(Holder(Name(t)) - 1) : ~Holds(j, Name(t))
<1> DEFINE T == {k \in DOMAIN Objects : Holds(k, Name(t))}
<1>1. T \subseteq Nat /\ T # {}
    BY DeviceType, TargetIsHeld
<1>2. PICK k \in T : \A j \in T : k <= j
    BY <1>1, NatHasLeast
<1>3. \A j \in 1..(k - 1) : ~Holds(j, Name(t))
    <2>1. SUFFICES ASSUME NEW j \in 1..(k - 1) PROVE j \notin T
        BY <1>2, DeviceType
    <2>2. k \in Nat /\ ~(k <= j)
        BY <1>1
    <2>3. QED
        BY <1>2, <2>2
<1>4. k \in DOMAIN Objects /\ Holds(k, Name(t))
    OBVIOUS
<1>5. QED
    BY <1>3, <1>4 DEF Holder

\* The leaf of a name: it has that name within its object, and no leaf before
\* it has.
LEMMA LeafOfTarget ==
    ASSUME TypeInv, NEW t \in Targets
    PROVE  LET o == Objects[Holder(Name(t))] IN
           \E i \in DOMAIN Leaves(o) :
              /\ Leaf(Name(t)) = Leaves(o)[i]
              /\ Qualified(o.owner, Leaves(o)[i].key) = Name(t)
              /\ \A j \in 1..(i - 1) : Qualified(o.owner, Leaves(o)[j].key) # Name(t)
<1> DEFINE o == Objects[Holder(Name(t))]
           Named(i) == Qualified(o.owner, Leaves(o)[i].key) = Name(t)
           T == {i \in DOMAIN Leaves(o) : Named(i)}
<1>1. o \in DictionaryObjects
    BY HolderOfTarget, DeviceType
<1>2. /\ T \subseteq Nat /\ T # {}
      /\ \A i \in DOMAIN Leaves(o) : \A j \in 1..(i - 1) : j \in DOMAIN Leaves(o)
    <2>1. DOMAIN Leaves(o) = 1..(Len(o.subs) + 1) /\ Len(o.subs) \in Nat
        BY <1>1, LeavesType
    <2>2. T # {}
        BY HolderOfTarget DEF Holds, Range
    <2>3. QED
        BY <2>1, <2>2
<1>3. PICK i \in T : \A j \in T : i <= j
    BY <1>2, NatHasLeast
<1>4. \A j \in 1..(i - 1) : ~Named(j)
    <2>1. SUFFICES ASSUME NEW j \in 1..(i - 1) PROVE j \notin T
        BY <1>2, <1>3
    <2>2. i \in Nat /\ ~(i <= j)
        BY <1>2
    <2>3. QED
        BY <1>3, <2>2
<1>5. i \in DOMAIN Leaves(o) /\ Named(i)
    OBVIOUS
<1> DEFINE c == CHOOSE k \in DOMAIN Leaves(o) : Named(k) /\ \A j \in 1..(k - 1) : ~Named(j)
<1>6. c \in DOMAIN Leaves(o) /\ Named(c) /\ \A j \in 1..(c - 1) : ~Named(j)
    BY <1>4, <1>5
<1>7. Leaf(Name(t)) = Leaves(o)[c]
    BY DEF Leaf
<1> HIDE DEF c
<1>8. QED
    BY <1>6, <1>7

LEMMA LeafOfTargetType ==
    ASSUME TypeInv, NEW t \in Targets
    PROVE  Leaf(Name(t)) \in AnyLeaf /\ Objects[Holder(Name(t))] \in DictionaryObjects
<1> DEFINE o == Objects[Holder(Name(t))]
<1>1. o \in DictionaryObjects
    BY HolderOfTarget, DeviceType
<1>2. PICK i \in DOMAIN Leaves(o) : Leaf(Name(t)) = Leaves(o)[i]
    BY LeafOfTarget
<1>3. Leaves(o) \in Seq(AnyLeaf)
    BY <1>1, LeavesType
<1> HIDE DEF o
<1>4. Leaves(o)[i] \in AnyLeaf
    BY <1>3
<1>5. QED
    BY <1>1, <1>2, <1>4 DEF o

\* At the address of a mappable target is its leaf, which is no count: the name
\* of a count is that of its object, which comes first.
LEMMA TargetIsAddressed ==
    ASSUME TypeInv, NEW t \in Targets, NEW e,
           Leaf(Name(t)).bits > 0,
           e.index = Objects[Holder(Name(t))].index,
           e.subindex = Leaf(Name(t)).subindex
    PROVE  AddressedLeaf(e) = Leaf(Name(t)) /\ Leaf(Name(t)).role # "count"
<1> DEFINE h == Holder(Name(t))
           o == Objects[h]
           leaf == Leaf(Name(t))
<1>1. h \in DOMAIN Objects /\ o \in DictionaryObjects /\ o \in Range(Objects)
    BY HolderOfTarget, DeviceType DEF Range
<1>2. AddressedObject(e) = o
    <2>1. \A x \in Range(Objects) : x.index = e.index => x = o
        BY <1>1, DevicesAssumption DEF TypeInv, Objects, Range
    <2>2. o.index = e.index
        OBVIOUS
    <2> HIDE DEF o
    <2>3. QED
        BY <1>1, <2>1, <2>2 DEF AddressedObject
<1>3. PICK i \in DOMAIN Leaves(o) :
          /\ leaf = Leaves(o)[i]
          /\ Qualified(o.owner, Leaves(o)[i].key) = Name(t)
          /\ \A j \in 1..(i - 1) : Qualified(o.owner, Leaves(o)[j].key) # Name(t)
    BY LeafOfTarget
<1>4. /\ o.subs # << >> => o.bits = 0
      /\ \A j, k \in DOMAIN o.subs : o.subs[j].subindex = o.subs[k].subindex => j = k
      /\ \A j \in DOMAIN o.subs : o.subs[j].role = "count" => o.subs[j].key = o.key
    BY <1>1, DevicesAssumption DEF TypeInv, Objects
<1>5. AddressedLeaf(e) = IF o.subs = << >> THEN Leaves(o)[1]
                         ELSE CHOOSE s \in Range(o.subs) : s.subindex = e.subindex
    BY <1>2 DEF AddressedLeaf
<1>6. leaf.bits > 0 /\ leaf.subindex = e.subindex
    OBVIOUS
<1> HIDE DEF h, o, leaf
<1>7. /\ DOMAIN Leaves(o) = 1..(Len(o.subs) + 1) /\ Len(o.subs) \in Nat
      /\ DOMAIN o.subs = 1..Len(o.subs) /\ o.subs \in Seq(SubEntries)
      /\ Leaves(o)[1].bits = o.bits /\ Leaves(o)[1].role = "object" /\ Leaves(o)[1].key = o.key
      /\ \A j \in 1..Len(o.subs) : Leaves(o)[j + 1] = o.subs[j]
    <2>1. o.subs \in Seq(SubEntries)
        BY <1>1 DEF DictionaryObjects
    <2>2. /\ DOMAIN Leaves(o) = 1..(Len(o.subs) + 1) /\ Len(o.subs) \in Nat
          /\ DOMAIN o.subs = 1..Len(o.subs)
          /\ Leaves(o)[1] = [key |-> o.key, role |-> "object", access |-> o.access,
                             bits |-> o.bits, subindex |-> 0]
          /\ \A j \in 1..Len(o.subs) : Leaves(o)[j + 1] = o.subs[j]
        BY <1>1, LeavesType
    <2>3. QED
        BY <2>1, <2>2
<1>8. CASE o.subs = << >>
    <2>1. i = 1
        BY <1>3, <1>7, <1>8
    <2>2. QED
        BY <1>3, <1>5, <1>7, <1>8, <2>1 DEF leaf
<1>9. CASE o.subs # << >>
    <2>1. i # 1
        BY <1>3, <1>4, <1>6, <1>7, <1>9
    <2>2. PICK j \in 1..Len(o.subs) : i = j + 1
        <3>1. i - 1 \in 1..Len(o.subs) /\ i = (i - 1) + 1
            BY <1>7, <2>1
        <3>2. QED
            BY <3>1
    <2>3. leaf = o.subs[j] /\ j \in DOMAIN o.subs /\ leaf \in Range(o.subs)
        BY <1>3, <1>7, <2>2 DEF Range
    <2>4. \A s \in Range(o.subs) : s.subindex = e.subindex => s = leaf
        BY <1>4, <1>6, <2>3 DEF Range
    <2>5. AddressedLeaf(e) = leaf
        BY <1>5, <1>6, <1>9, <2>3, <2>4
    <2>6. leaf.role # "count"
        <3>1. SUFFICES ASSUME leaf.role = "count" PROVE FALSE
            OBVIOUS
        <3>2. leaf.key = Leaves(o)[1].key
            BY <1>4, <1>7, <2>3, <3>1
        <3>3. 1 \in 1..(i - 1)
            BY <1>7, <2>2
        <3>4. QED
            BY <1>3, <3>2, <3>3
    <2>7. QED
        BY <2>5, <2>6 DEF leaf
<1>10. QED
    BY <1>8, <1>9

-----------------------------------------------------------------------------
\* What no step changes.

LEMMA SameDevice ==
    ASSUME UNCHANGED device
    PROVE  /\ Objects' = Objects /\ Pdos' = Pdos /\ Targets' = Targets
           /\ \A p : VisibleTargets(p)' = VisibleTargets(p)
           /\ \A p, r : IsOwn(p, r)' <=> IsOwn(p, r)
           /\ \A n : Holder(n)' = Holder(n) /\ Leaf(n)' = Leaf(n)
           /\ \A e : AddressedLeaf(e)' = AddressedLeaf(e)
           /\ \A d, e, n : Carries(d, e, n)' <=> Carries(d, e, n)
<1>1. Objects' = Objects /\ Pdos' = Pdos /\ Targets' = Targets
    BY DEF Objects, Pdos, Targets
<1>2. \A p : VisibleTargets(p)' = VisibleTargets(p)
    BY <1>1 DEF VisibleTargets
<1>3. \A p, r : IsOwn(p, r)' <=> IsOwn(p, r)
    BY <1>1 DEF IsOwn
<1>4. \A n : Holder(n)' = Holder(n)
    BY <1>1 DEF Holder, Holds
<1>5. \A n : Leaf(n)' = Leaf(n)
    BY <1>1, <1>4 DEF Leaf
<1>6. \A e : AddressedLeaf(e)' = AddressedLeaf(e)
    BY <1>1 DEF AddressedLeaf, AddressedObject
<1>7. \A d, e, n : Carries(d, e, n)' <=> Carries(d, e, n)
    BY <1>1, <1>4, <1>5 DEF Carries, Transferable, IsWrongWay
<1>8. QED
    BY <1>1, <1>2, <1>3, <1>4, <1>5, <1>6, <1>7

\* What RejectionIsJustified says of the error s.
Justified(s) ==
    /\ s = "unknown" =>
          \A t \in VisibleTargets(CurrentPdo) : t.key # Reference /\ Name(t) # Reference
    /\ s = "ambiguous" =>
          /\ ~IsOwn(CurrentPdo, Reference)
          /\ \E t, u \in VisibleTargets(CurrentPdo) :
                t.owner # u.owner /\ t.key = Reference /\ u.key = Reference
    /\ s \in {"container", "write_only", "read_only", "unmappable"} =>
          /\ \E t \in VisibleTargets(CurrentPdo) : Name(t) = Target
          /\ \/ Leaf(Target).bits = 0
             \/ IsWrongWay(CurrentPdo.direction, Leaf(Target))
    /\ s = "budget" => SumFunction([i \in DOMAIN CurrentPdo.mapping |->
                                      Leaf(references[pdo][i]).bits]) > MaxPayload

\* Nothing has changed but the stage, which may have become a justified error.
LEMMA FrozenKeepsInv ==
    ASSUME Inv, UNCHANGED <<device, pdo, references, entries>>,
           \/ stage' = stage
           \/ stage' \in Errors /\ Justified(stage') /\ (stage' \in LateStages => stage = "entries")
    PROVE  Inv'
<1> USE SameDevice
<1>0. UNCHANGED device
    OBVIOUS
<1>1. TypeInv'
    BY <1>0 DEF Inv, TypeInv
<1>2. ProgressInv'
    <2>1. \A p : TotalBits(p)' = TotalBits(p)
        BY DEF TotalBits
    <2>2. (stage' \in LateStages => stage \in LateStages)
          /\ (stage' = "references" => stage = "references") /\ (stage' = "done" => stage = "done")
        BY DEF Errors, LateStages
    <2>3. QED
        BY <1>0, <2>1, <2>2 DEF Inv, ProgressInv
<1>3. LookupIsScoped'
    BY <1>0 DEF Inv, LookupIsScoped
<1>4. EntriesInv'
    BY <1>0 DEF Inv, EntriesInv
<1>5. RejectionIsJustified'
    <2>1. Justified(stage')
        BY DEF Inv, RejectionIsJustified, Justified
    <2>2. /\ CurrentPdo' = CurrentPdo /\ Reference' = Reference /\ Target' = Target
        BY <1>0 DEF CurrentPdo, Reference, Target
    <2>3. QED
        BY <1>0, <2>1, <2>2 DEF Justified, RejectionIsJustified
<1>6. QED
    BY <1>1, <1>2, <1>3, <1>4, <1>5 DEF Inv

-----------------------------------------------------------------------------
\* The resolution of references.

\* The owner of a PDO is visible to itself.
LEMMA OwnIsLocal ==
    ASSUME TypeInv, pdo \in DOMAIN Pdos, IsOwn(CurrentPdo, Reference)
    PROVE  IsLocal
<1>1. PICK t \in Targets : t.owner = CurrentPdo.owner /\ t.key = Reference
    BY DEF IsOwn
<1>2. CurrentPdo.owner \in DOMAIN device.dependencies
    BY DeviceType DEF CurrentPdo
<1>3. t \in VisibleTargets(CurrentPdo)
    BY <1>1, <1>2 DEF VisibleTargets, Visible
<1>4. Name(t) = LocalName
    BY <1>1 DEF Name, LocalName
<1>5. QED
    BY <1>3, <1>4 DEF IsLocal, QualifiedTargets

\* A name resolved for the reference at hand is that of a visible target, and
\* the local one if the owner has declared it.
LEMMA ResolveStep ==
    ASSUME Inv, Resolving, NEW name, Resolve(name),
           \E t \in VisibleTargets(CurrentPdo) : Name(t) = name,
           IsOwn(CurrentPdo, Reference) => name = LocalName
    PROVE  Inv'
<1> DEFINE n == Len(references[pdo])
<1>1. PICK t \in VisibleTargets(CurrentPdo) : Name(t) = name
    OBVIOUS
<1>2. t \in Targets /\ t.owner \in Visible(device.dependencies, CurrentPdo.owner) /\ name \in Names
    BY <1>1, TargetIsHeld DEF VisibleTargets, Inv
<1>3. /\ pdo \in DOMAIN Pdos /\ stage = "references" /\ n < Len(Pdos[pdo].mapping)
      /\ references \in [DOMAIN Pdos -> Seq(Names)] /\ references[pdo] \in Seq(Names)
      /\ references' = [references EXCEPT ![pdo] = Append(references[pdo], name)]
      /\ UNCHANGED <<device, stage, pdo, entries>>
    BY DEF Resolving, Resolve, Inv, TypeInv, CurrentPdo
<1>4. /\ n \in Nat /\ DOMAIN references[pdo] = 1..n
      /\ references'[pdo] \in Seq(Names)
      /\ Len(references'[pdo]) = n + 1 /\ DOMAIN references'[pdo] = 1..(n + 1)
      /\ \A i \in 1..n : references'[pdo][i] = references[pdo][i]
      /\ references'[pdo][n + 1] = name
      /\ \A p \in DOMAIN Pdos : p # pdo => references'[p] = references[p]
    BY <1>2, <1>3 DEF Names
<1>5. references' \in [DOMAIN Pdos -> Seq(Names)]
    BY <1>3, <1>4
<1>6. UNCHANGED device
    BY <1>3
<1>7. LocalName = Qualified(Pdos[pdo].owner, Pdos[pdo].mapping[n + 1])
      /\ Reference = Pdos[pdo].mapping[n + 1] /\ CurrentPdo = Pdos[pdo]
    BY DEF LocalName, Reference, CurrentPdo
<1> HIDE DEF n
<1> USE SameDevice
<1>8. TypeInv'
    BY <1>3, <1>5, <1>6 DEF Inv, TypeInv
<1>9. ProgressInv'
    <2>1. \A p : TotalBits(p)' = TotalBits(p)
        BY <1>3 DEF TotalBits
    <2>2. stage \notin LateStages /\ stage # "done"
        BY <1>3 DEF LateStages
    <2>3. ASSUME NEW p \in DOMAIN Pdos
          PROVE  /\ Len(references'[p]) <= Len(Pdos[p].mapping)
                 /\ Len(entries[p]) <= Len(references'[p])
                 /\ p < pdo => Len(references'[p]) = Len(Pdos[p].mapping)
        <3>1. /\ Len(references[p]) <= Len(Pdos[p].mapping)
              /\ Len(entries[p]) <= Len(references[p])
              /\ p < pdo => Len(references[p]) = Len(Pdos[p].mapping)
            BY <1>3 DEF Inv, ProgressInv
        <3>2. CASE p # pdo
            BY <1>4, <3>1, <3>2
        <3>3. CASE p = pdo
            <4>1. Len(entries[pdo]) \in Nat /\ Len(Pdos[pdo].mapping) \in Nat /\ pdo \in Nat
                BY <1>3, DeviceType DEF Inv, TypeInv
            <4>2. n + 1 <= Len(Pdos[pdo].mapping) /\ Len(entries[pdo]) <= n + 1
                BY <1>3, <1>4, <3>1, <3>3, <4>1 DEF n
            <4>3. QED
                BY <1>4, <3>3, <4>1, <4>2
        <3>4. QED
            BY <3>2, <3>3
    <2>4. QED
        BY <1>3, <1>6, <2>2, <2>3 DEF ProgressInv
<1>10. LookupIsScoped'
    <2>1. ASSUME NEW p \in DOMAIN Pdos, NEW i \in DOMAIN references'[p]
          PROVE  /\ \E u \in Targets :
                       /\ Name(u) = references'[p][i]
                       /\ u.owner \in Visible(device.dependencies, Pdos[p].owner)
                 /\ IsOwn(Pdos[p], Pdos[p].mapping[i]) =>
                       references'[p][i] = Qualified(Pdos[p].owner, Pdos[p].mapping[i])
        <3>1. CASE p # pdo \/ i \in 1..n
            <4>1. i \in DOMAIN references[p] /\ references'[p][i] = references[p][i]
                BY <1>4, <2>1, <3>1
            <4>2. QED
                BY <4>1 DEF Inv, LookupIsScoped
        <3>2. CASE p = pdo /\ i = n + 1
            BY <1>1, <1>2, <1>4, <1>7, <3>2
        <3>3. QED
            BY <1>4, <3>1, <3>2
    <2>2. QED
        BY <1>6, <2>1 DEF LookupIsScoped
<1>11. EntriesInv'
    <2>1. ASSUME NEW p \in DOMAIN Pdos, NEW i \in DOMAIN entries[p]
          PROVE  \A j \in 1..i : references'[p][j] = references[p][j]
        <3>1. CASE p # pdo
            BY <1>4, <3>1
        <3>2. CASE p = pdo
            <4>1. entries[p] \in Seq(Entries) /\ Len(entries[p]) <= n
                BY <3>2, DeviceType DEF Inv, TypeInv, ProgressInv, n
            <4>2. 1..i \subseteq 1..n
                BY <1>4, <4>1
            <4>3. QED
                BY <1>4, <3>2, <4>2
        <3>3. QED
            BY <3>1, <3>2
    <2>2. ASSUME NEW p \in DOMAIN Pdos, NEW i \in DOMAIN entries[p]
          PROVE  /\ Carries(Pdos[p].direction, entries[p][i], references'[p][i])
                 /\ \E j \in 1..i : /\ references'[p][j] = references'[p][i]
                                   /\ entries[p][i].declared = Pdos[p].mapping[j]
        <3>1. i \in 1..i
            <4>1. entries[p] \in Seq(Entries)
                BY DEF Inv, TypeInv
            <4>2. QED
                BY <4>1
        <3>2. references'[p][i] = references[p][i]
            BY <2>1, <3>1
        <3>3. Carries(Pdos[p].direction, entries[p][i], references[p][i])
            BY DEF Inv, EntriesInv
        <3>4. PICK j \in 1..i : /\ references[p][j] = references[p][i]
                                /\ entries[p][i].declared = Pdos[p].mapping[j]
            BY DEF Inv, EntriesInv
        <3>5. QED
            BY <2>1, <3>2, <3>3, <3>4
    <2>3. entries' = entries /\ Pdos' = Pdos
          /\ \A d, e, m : Carries(d, e, m)' <=> Carries(d, e, m)
        BY <1>3, <1>6
    <2>4. QED
        BY <2>2, <2>3 DEF EntriesInv
<1>12. RejectionIsJustified'
    BY <1>3 DEF RejectionIsJustified
<1>13. QED
    BY <1>8, <1>9, <1>10, <1>11, <1>12 DEF Inv

LEMMA ResolvingStep ==
    ASSUME Inv, ResolveLocal \/ ResolveQualified \/ ResolveImported
    PROVE  Inv'
<1>0. Resolving /\ pdo \in DOMAIN Pdos /\ TypeInv
    BY DEF ResolveLocal, ResolveQualified, ResolveImported, Resolving, Inv
<1>1. CASE ResolveLocal
    BY <1>0, <1>1, ResolveStep DEF ResolveLocal, IsLocal, QualifiedTargets
<1>2. CASE ResolveQualified
    BY <1>0, <1>2, ResolveStep, OwnIsLocal DEF ResolveQualified, IsQualified, QualifiedTargets
<1>3. CASE ResolveImported
    BY <1>0, <1>3, ResolveStep, OwnIsLocal DEF ResolveImported, IsImported, Candidates
<1>4. QED
    BY <1>1, <1>2, <1>3

LEMMA RejectUnknownStep ==
    ASSUME Inv, RejectUnknown
    PROVE  Inv'
<1>1. Justified("unknown")
    BY DEF RejectUnknown, IsImported, IsQualified, QualifiedTargets, Candidates, Justified
<1>2. QED
    BY <1>1, FrozenKeepsInv DEF RejectUnknown, Fail, Errors, LateStages

\* Two names of one key differ by their owners.
LEMMA RejectAmbiguousStep ==
    ASSUME Inv, RejectAmbiguous
    PROVE  Inv'
<1> DEFINE C == Candidates(CurrentPdo, Reference)
<1>1. Cardinality(C) > 1 /\ ~IsLocal /\ pdo \in DOMAIN Pdos /\ TypeInv /\ Fail("ambiguous")
    BY DEF RejectAmbiguous, IsImported, Resolving, Inv
<1>2. PICK x, y \in C : x # y
    <2>1. SUFFICES ASSUME \A x, y \in C : x = y PROVE FALSE
        OBVIOUS
    <2> HIDE DEF C
    <2>2. C = {} \/ \E x : C = {x}
        BY <2>1
    <2>3. Cardinality(C) = 0 \/ Cardinality(C) = 1
        BY <2>2, FS_EmptySet, FS_Singleton
    <2>4. QED
        BY <1>1, <2>3
<1>3. PICK t, u \in VisibleTargets(CurrentPdo) :
          t.key = Reference /\ u.key = Reference /\ Name(t) = x /\ Name(u) = y
    BY DEF Candidates
<1>4. t.owner # u.owner
    BY <1>2, <1>3 DEF Name
<1>5. ~IsOwn(CurrentPdo, Reference)
    BY <1>1, OwnIsLocal
<1>6. Justified("ambiguous")
    BY <1>3, <1>4, <1>5 DEF Justified
<1>7. QED
    BY <1>1, <1>6, FrozenKeepsInv DEF Fail, Errors, LateStages

LEMMA NextPdoStep ==
    ASSUME Inv, NextPdo
    PROVE  Inv'
<1>1. /\ stage = "references" /\ pdo \in DOMAIN Pdos
      /\ Len(references[pdo]) = Len(Pdos[pdo].mapping)
      /\ pdo' = pdo + 1 /\ UNCHANGED <<device, stage, references, entries>>
    BY DEF NextPdo, CurrentPdo
<1>2. DOMAIN Pdos = 1..Len(Pdos) /\ Len(Pdos) \in Nat /\ TypeInv
    BY DeviceType DEF Inv
<1>3. UNCHANGED device
    BY <1>1
<1> USE SameDevice
<1>4. TypeInv'
    <2>1. pdo' \in 1..(Len(Pdos) + 1)
        BY <1>1, <1>2
    <2>2. QED
        BY <1>1, <1>2, <1>3, <2>1 DEF TypeInv
<1>5. ProgressInv'
    <2>1. \A p \in DOMAIN Pdos : p < pdo + 1 => p < pdo \/ p = pdo
        BY <1>1, <1>2
    <2>2. stage \notin LateStages
        BY <1>1 DEF LateStages
    <2>3. QED
        BY <1>1, <1>3, <2>1, <2>2 DEF Inv, ProgressInv
<1>6. LookupIsScoped'
    BY <1>1, <1>3 DEF Inv, LookupIsScoped
<1>7. EntriesInv'
    BY <1>1, <1>3 DEF Inv, EntriesInv
<1>8. RejectionIsJustified'
    BY <1>1 DEF RejectionIsJustified
<1>9. QED
    BY <1>4, <1>5, <1>6, <1>7, <1>8 DEF Inv

LEMMA ReturnReferencesStep ==
    ASSUME Inv, ReturnReferences
    PROVE  Inv'
<1>1. /\ stage = "references" /\ pdo \notin DOMAIN Pdos
      /\ stage' = "entries" /\ pdo' = 1 /\ UNCHANGED <<device, references, entries>>
    BY DEF ReturnReferences
<1>2. /\ DOMAIN Pdos = 1..Len(Pdos) /\ Len(Pdos) \in Nat /\ TypeInv
      /\ \A p \in DOMAIN Pdos : p < pdo /\ ~(p < 1)
    BY <1>1, DeviceType DEF Inv, TypeInv
<1>3. UNCHANGED device
    BY <1>1
<1> USE SameDevice
<1>4. TypeInv'
    <2>1. pdo' \in 1..(Len(Pdos) + 1)
        BY <1>1, <1>2
    <2>2. QED
        BY <1>1, <1>2, <1>3, <2>1 DEF TypeInv
<1>5. ProgressInv'
    BY <1>1, <1>2, <1>3 DEF Inv, ProgressInv
<1>6. LookupIsScoped'
    BY <1>1, <1>3 DEF Inv, LookupIsScoped
<1>7. EntriesInv'
    BY <1>1, <1>3 DEF Inv, EntriesInv
<1>8. RejectionIsJustified'
    BY <1>1 DEF RejectionIsJustified
<1>9. QED
    BY <1>4, <1>5, <1>6, <1>7, <1>8 DEF Inv

-----------------------------------------------------------------------------
\* The encoding of entries.

\* The target of an entry is a visible one, and what has no access has no bits.
LEMMA EntryTarget ==
    ASSUME Inv, AtEntry
    PROVE  \E t \in VisibleTargets(CurrentPdo) :
              /\ Name(t) = Target /\ t \in Targets
              /\ Leaf(Target) \in AnyLeaf
              /\ Leaf(Target).access = "none" => Leaf(Target).bits = 0
<1> DEFINE n == Len(entries[pdo])
<1>1. /\ pdo \in DOMAIN Pdos /\ n < Len(references[pdo]) /\ Target = references[pdo][n + 1]
      /\ entries[pdo] \in Seq(Entries) /\ references[pdo] \in Seq(Names) /\ TypeInv
    BY DEF AtEntry, Target, Inv, TypeInv
<1>2. n + 1 \in DOMAIN references[pdo]
    BY <1>1
<1>3. PICK t \in Targets : Name(t) = Target
                           /\ t.owner \in Visible(device.dependencies, CurrentPdo.owner)
    BY <1>1, <1>2 DEF Inv, LookupIsScoped, CurrentPdo
<1>4. t \in VisibleTargets(CurrentPdo)
    BY <1>3 DEF VisibleTargets
<1> DEFINE o == Objects[Holder(Name(t))]
<1>5. o \in DictionaryObjects /\ o \in Range(Objects)
    BY <1>1, HolderOfTarget, DeviceType DEF Range
<1>6. PICK i \in DOMAIN Leaves(o) : Leaf(Name(t)) = Leaves(o)[i]
    BY <1>1, LeafOfTarget
<1>7. /\ o.access = "none" => o.subs # << >>
      /\ o.subs # << >> => o.bits = 0
    BY <1>1, <1>5, DevicesAssumption DEF TypeInv, Objects
<1> HIDE DEF o
<1>8. /\ DOMAIN Leaves(o) = 1..(Len(o.subs) + 1) /\ Len(o.subs) \in Nat
      /\ Leaves(o)[1] = [key |-> o.key, role |-> "object", access |-> o.access,
                         bits |-> o.bits, subindex |-> 0]
      /\ \A j \in 1..Len(o.subs) : Leaves(o)[j + 1] = o.subs[j]
    BY <1>5, LeavesType
<1>9. Leaves(o)[i].access = "none" => Leaves(o)[i].bits = 0
    <2>1. CASE i = 1
        BY <1>7, <1>8, <2>1
    <2>2. CASE i # 1
        <3>1. i - 1 \in 1..Len(o.subs) /\ (i - 1) + 1 = i
            BY <1>8, <2>2
        <3>2. Leaves(o)[i] = o.subs[i - 1]
            BY <1>8, <3>1
        <3>3. o.subs[i - 1] \in SubEntries
            BY <1>5, <3>1 DEF DictionaryObjects
        <3>4. QED
            BY <3>2, <3>3 DEF SubEntries, Accesses
    <2>3. QED
        BY <2>1, <2>2
<1>10. Leaf(Name(t)) \in AnyLeaf
    BY <1>1, LeafOfTargetType
<1>11. QED
    BY <1>3, <1>4, <1>6, <1>9, <1>10

LEMMA RejectEntryStep ==
    ASSUME Inv, RejectContainer \/ RejectWriteOnly \/ RejectReadOnly \/ RejectUnmappable
    PROVE  Inv'
<1>1. AtEntry /\ stage = "entries"
    BY DEF RejectContainer, RejectWriteOnly, RejectReadOnly, RejectUnmappable, AtEntry
<1>2. PICK e \in {"container", "write_only", "read_only", "unmappable"} :
          /\ Fail(e)
          /\ \/ Leaf(Target).access = "none" \/ Leaf(Target).bits = 0
             \/ IsWrongWay(CurrentPdo.direction, Leaf(Target))
    BY DEF RejectContainer, RejectWriteOnly, RejectReadOnly, RejectUnmappable
<1>3. Justified(e)
    BY <1>1, <1>2, EntryTarget DEF Justified
<1>4. QED
    BY <1>1, <1>2, <1>3, FrozenKeepsInv DEF Fail, Errors

LEMMA RejectBudgetStep ==
    ASSUME Inv, RejectBudget
    PROVE  Inv'
<1>1. /\ stage = "entries" /\ pdo \in DOMAIN Pdos /\ Len(entries[pdo]) = Len(references[pdo])
      /\ TotalBits(pdo) > MaxPayload /\ Fail("budget")
    BY DEF RejectBudget, Encoded
<1>2. /\ Len(references[pdo]) = Len(CurrentPdo.mapping)
      /\ CurrentPdo.mapping \in Seq(Names) /\ entries[pdo] \in Seq(Entries)
    BY <1>1, DeviceType DEF Inv, ProgressInv, CurrentPdo, LateStages, TypeInv
<1>3. DOMAIN entries[pdo] = DOMAIN CurrentPdo.mapping
    BY <1>1, <1>2
<1>4. \A i \in DOMAIN entries[pdo] : entries[pdo][i].bits = Leaf(references[pdo][i]).bits
    BY <1>1 DEF Inv, EntriesInv, Carries
<1>5. [i \in DOMAIN entries[pdo] |-> entries[pdo][i].bits]
          = [i \in DOMAIN CurrentPdo.mapping |-> Leaf(references[pdo][i]).bits]
    BY <1>3, <1>4
<1>6. SumFunction([i \in DOMAIN CurrentPdo.mapping |-> Leaf(references[pdo][i]).bits]) > MaxPayload
    BY <1>1, <1>5 DEF TotalBits
<1>7. Justified("budget")
    BY <1>6 DEF Justified
<1>8. QED
    BY <1>1, <1>7, FrozenKeepsInv DEF Fail, Errors

\* The first reference to the target is that of the entry or one before it.
LEMMA DeclaredType ==
    ASSUME Inv, AtEntry
    PROVE  /\ Declared(Target) \in Names
           /\ \E j \in 1..(Len(entries[pdo]) + 1) :
                 /\ references[pdo][j] = Target
                 /\ Declared(Target) = Pdos[pdo].mapping[j]
<1> DEFINE n == Len(entries[pdo])
           T == {i \in DOMAIN references[pdo] : references[pdo][i] = Target}
<1>1. /\ pdo \in DOMAIN Pdos /\ stage = "entries" /\ n < Len(references[pdo])
      /\ Target = references[pdo][n + 1] /\ TypeInv
      /\ entries[pdo] \in Seq(Entries) /\ references[pdo] \in Seq(Names)
    BY DEF AtEntry, Target, Inv, TypeInv
<1>2. n + 1 \in T
    BY <1>1
<1>3. T \subseteq Nat
    BY <1>1
<1>4. PICK i \in T : \A j \in T : i <= j
    BY <1>2, <1>3, NatHasLeast
<1>5. \A j \in 1..(i - 1) : references[pdo][j] # Target
    <2>1. SUFFICES ASSUME NEW j \in 1..(i - 1) PROVE references[pdo][j] # Target
        OBVIOUS
    <2>2. j \in DOMAIN references[pdo] /\ ~(i <= j)
        BY <1>1, <1>4
    <2>3. QED
        BY <1>4, <2>2
<1> DEFINE c == CHOOSE k \in DOMAIN references[pdo] :
                   references[pdo][k] = Target /\ \A j \in 1..(k - 1) : references[pdo][j] # Target
<1>6. /\ c \in DOMAIN references[pdo] /\ references[pdo][c] = Target
      /\ \A j \in 1..(c - 1) : references[pdo][j] # Target
    BY <1>4, <1>5
<1>7. Declared(Target) = CurrentPdo.mapping[c]
    BY DEF Declared
<1> HIDE DEF c
<1>8. Len(references[pdo]) = Len(CurrentPdo.mapping) /\ CurrentPdo.mapping \in Seq(Names)
    BY <1>1, DeviceType DEF Inv, ProgressInv, CurrentPdo, LateStages
<1>9. c \in 1..Len(CurrentPdo.mapping)
    BY <1>1, <1>6, <1>8
<1>10. CurrentPdo.mapping[c] \in Names
    <2> HIDE DEF Names
    <2>1. QED
        BY <1>8, <1>9, ElementOfSeq
<1>11. c \in 1..(n + 1)
    <2>1. c \in Nat /\ n \in Nat /\ c >= 1
        BY <1>1, <1>6
    <2>2. ~(n + 1 \in 1..(c - 1))
        BY <1>1, <1>6
    <2>3. QED
        BY <2>1, <2>2
<1>12. QED
    BY <1>6, <1>7, <1>10, <1>11 DEF CurrentPdo

LEMMA EncodeEntryStep ==
    ASSUME Inv, EncodeEntry
    PROVE  Inv'
<1> DEFINE n == Len(entries[pdo])
           e == [declared |-> Declared(Target), name |-> Target,
                 index |-> Objects[Holder(Target)].index,
                 subindex |-> Leaf(Target).subindex, bits |-> Leaf(Target).bits]
<1>1. /\ AtEntry /\ pdo \in DOMAIN Pdos /\ stage = "entries" /\ n < Len(references[pdo])
      /\ Target = references[pdo][n + 1]
      /\ Transferable(CurrentPdo.direction, Leaf(Target))
      /\ entries' = [entries EXCEPT ![pdo] = Append(entries[pdo], e)]
      /\ UNCHANGED <<device, stage, pdo, references>>
    BY DEF EncodeEntry, AtEntry, Target, Transferable
<1>2. PICK t \in Targets : Name(t) = Target /\ Leaf(Target) \in AnyLeaf
    BY <1>1, EntryTarget
<1>3. Objects[Holder(Target)] \in DictionaryObjects /\ Target \in Names
    BY <1>2, LeafOfTargetType, TargetIsHeld DEF Inv
<1>4. e \in Entries /\ Carries(CurrentPdo.direction, e, Target)
    <2>1. /\ Objects[Holder(Target)].index \in Nat
          /\ Leaf(Target).subindex \in Nat /\ Leaf(Target).bits \in Nat
        BY <1>2, <1>3 DEF DictionaryObjects, AnyLeaf
    <2>2. e \in Entries
        BY <1>1, <1>3, <2>1, DeclaredType DEF Entries
    <2>3. Carries(CurrentPdo.direction, e, Target)
        BY <1>1 DEF Carries
    <2>4. QED
        BY <2>2, <2>3
<1> HIDE DEF e
<1>5. /\ entries \in [DOMAIN Pdos -> Seq(Entries)] /\ entries[pdo] \in Seq(Entries)
      /\ references[pdo] \in Seq(Names)
      /\ n \in Nat /\ DOMAIN entries[pdo] = 1..n /\ Len(references[pdo]) \in Nat
    BY <1>1 DEF Inv, TypeInv
<1>6. /\ entries'[pdo] = Append(entries[pdo], e)
      /\ \A p \in DOMAIN Pdos : p # pdo => entries'[p] = entries[p]
      /\ DOMAIN entries' = DOMAIN Pdos
    BY <1>1, <1>5
<1>7. /\ entries'[pdo] \in Seq(Entries)
      /\ Len(entries'[pdo]) = n + 1
      /\ \A i \in 1..n : entries'[pdo][i] = entries[pdo][i]
      /\ entries'[pdo][n + 1] = e
    <2> HIDE DEF Entries
    <2>1. QED
        BY <1>4, <1>5, <1>6, AppendProperties
<1>8. DOMAIN entries'[pdo] = 1..(n + 1)
    BY <1>7
<1>9. entries' \in [DOMAIN Pdos -> Seq(Entries)]
    BY <1>1, <1>5, <1>7
<1>10. UNCHANGED device /\ CurrentPdo = Pdos[pdo]
    BY <1>1 DEF CurrentPdo
<1> HIDE DEF n
<1> USE SameDevice
<1>11. TypeInv'
    BY <1>1, <1>9, <1>10 DEF Inv, TypeInv
<1>12. ProgressInv'
    <2>1. \A p \in DOMAIN Pdos : p # pdo => TotalBits(p)' = TotalBits(p)
        BY <1>6 DEF TotalBits
    <2>2. ~(pdo < pdo) /\ n + 1 <= Len(references[pdo])
        BY <1>1, <1>5, DeviceType DEF Inv, TypeInv, n
    <2>3. ASSUME NEW p \in DOMAIN Pdos
          PROVE  /\ Len(references[p]) <= Len(Pdos[p].mapping)
                 /\ Len(entries'[p]) <= Len(references[p])
                 /\ Len(references[p]) = Len(Pdos[p].mapping)
                 /\ p < pdo => Len(entries'[p]) = Len(references[p]) /\ TotalBits(p)' <= MaxPayload
        <3>1. /\ Len(references[p]) <= Len(Pdos[p].mapping)
              /\ Len(references[p]) = Len(Pdos[p].mapping)
              /\ Len(entries[p]) <= Len(references[p])
              /\ p < pdo => Len(entries[p]) = Len(references[p]) /\ TotalBits(p) <= MaxPayload
            BY <1>1 DEF Inv, ProgressInv, LateStages
        <3>2. CASE p # pdo
            BY <1>6, <2>1, <3>1, <3>2
        <3>3. CASE p = pdo
            BY <1>7, <2>2, <3>1, <3>3
        <3>4. QED
            BY <3>2, <3>3
    <2>4. QED
        BY <1>1, <1>10, <2>3 DEF ProgressInv
<1>13. LookupIsScoped'
    BY <1>1, <1>10 DEF Inv, LookupIsScoped
<1>14. EntriesInv'
    <2>1. ASSUME NEW p \in DOMAIN Pdos, NEW i \in DOMAIN entries'[p]
          PROVE  /\ Carries(Pdos[p].direction, entries'[p][i], references[p][i])
                 /\ \E j \in 1..i : /\ references[p][j] = references[p][i]
                                   /\ entries'[p][i].declared = Pdos[p].mapping[j]
        <3>1. CASE p # pdo \/ i \in 1..n
            <4>1. i \in DOMAIN entries[p] /\ entries'[p][i] = entries[p][i]
                BY <1>5, <1>6, <1>7, <2>1, <3>1
            <4>2. QED
                BY <4>1 DEF Inv, EntriesInv
        <3>2. CASE p = pdo /\ i = n + 1
            <4>1. Carries(Pdos[p].direction, entries'[p][i], references[p][i])
                BY <1>1, <1>4, <1>7, <1>10, <3>2
            <4>2. PICK j \in 1..(n + 1) : /\ references[pdo][j] = Target
                                          /\ Declared(Target) = Pdos[pdo].mapping[j]
                BY <1>1, DeclaredType DEF n
            <4>3. entries'[p][i].declared = Declared(Target)
                BY <1>7, <3>2 DEF e
            <4>4. QED
                BY <1>1, <3>2, <4>1, <4>2, <4>3
        <3>3. QED
            BY <1>5, <1>8, <3>1, <3>2
    <2>2. QED
        BY <1>1, <1>10, <2>1 DEF EntriesInv
<1>15. RejectionIsJustified'
    BY <1>1 DEF RejectionIsJustified
<1>16. QED
    BY <1>11, <1>12, <1>13, <1>14, <1>15 DEF Inv

LEMMA AcceptPdoStep ==
    ASSUME Inv, AcceptPdo
    PROVE  Inv'
<1>1. /\ stage = "entries" /\ pdo \in DOMAIN Pdos /\ Len(entries[pdo]) = Len(references[pdo])
      /\ TotalBits(pdo) <= MaxPayload
      /\ pdo' = pdo + 1 /\ UNCHANGED <<device, stage, references, entries>>
    BY DEF AcceptPdo, Encoded
<1>2. DOMAIN Pdos = 1..Len(Pdos) /\ Len(Pdos) \in Nat /\ TypeInv
    BY DeviceType DEF Inv
<1>3. UNCHANGED device
    BY <1>1
<1> USE SameDevice
<1>4. TypeInv'
    <2>1. pdo' \in 1..(Len(Pdos) + 1)
        BY <1>1, <1>2
    <2>2. QED
        BY <1>1, <1>2, <1>3, <2>1 DEF TypeInv
<1>5. ProgressInv'
    <2>1. \A p \in DOMAIN Pdos : p < pdo + 1 => p < pdo \/ p = pdo
        BY <1>1, <1>2
    <2>2. \A p : TotalBits(p)' = TotalBits(p)
        BY <1>1 DEF TotalBits
    <2>3. QED
        BY <1>1, <1>3, <2>1, <2>2 DEF Inv, ProgressInv
<1>6. LookupIsScoped'
    BY <1>1, <1>3 DEF Inv, LookupIsScoped
<1>7. EntriesInv'
    BY <1>1, <1>3 DEF Inv, EntriesInv
<1>8. RejectionIsJustified'
    BY <1>1 DEF RejectionIsJustified
<1>9. QED
    BY <1>4, <1>5, <1>6, <1>7, <1>8 DEF Inv

LEMMA ReturnMappingsStep ==
    ASSUME Inv, ReturnMappings
    PROVE  Inv'
<1>1. /\ stage = "entries" /\ pdo \notin DOMAIN Pdos
      /\ stage' = "done" /\ UNCHANGED <<device, pdo, references, entries>>
    BY DEF ReturnMappings
<1>2. DOMAIN Pdos = 1..Len(Pdos) /\ Len(Pdos) \in Nat /\ TypeInv
    BY DeviceType DEF Inv
<1>3. UNCHANGED device
    BY <1>1
<1> USE SameDevice
<1>4. TypeInv'
    BY <1>1, <1>2, <1>3 DEF TypeInv
<1>5. ProgressInv'
    <2>1. pdo = Len(Pdos) + 1
        BY <1>1, <1>2 DEF TypeInv
    <2>2. \A p : TotalBits(p)' = TotalBits(p)
        BY <1>1 DEF TotalBits
    <2>3. stage \in LateStages
        BY <1>1 DEF LateStages
    <2>4. QED
        BY <1>1, <1>3, <2>1, <2>2, <2>3 DEF Inv, ProgressInv
<1>6. LookupIsScoped'
    BY <1>1, <1>3 DEF Inv, LookupIsScoped
<1>7. EntriesInv'
    BY <1>1, <1>3 DEF Inv, EntriesInv
<1>8. RejectionIsJustified'
    BY <1>1 DEF RejectionIsJustified
<1>9. QED
    BY <1>4, <1>5, <1>6, <1>7, <1>8 DEF Inv

-----------------------------------------------------------------------------
LEMMA InitEstablishesInv == Init => Inv
<1> SUFFICES ASSUME Init PROVE Inv
    OBVIOUS
<1>1. /\ device \in Devices /\ stage = "references" /\ pdo = 1
      /\ references = [p \in DOMAIN Pdos |-> << >>] /\ entries = [p \in DOMAIN Pdos |-> << >>]
    BY DEF Init
<1>2. Len(Pdos) \in Nat /\ DOMAIN Pdos = 1..Len(Pdos)
      /\ \A p \in DOMAIN Pdos : Pdos[p].mapping \in Seq(Names)
    <2>1. Pdos \in Seq([owner : DOMAIN device.dependencies, direction : {"tpdo", "rpdo"},
                       mapping : Seq(Names)])
        BY <1>1, DevicesAssumption DEF Pdos
    <2>2. Len(Pdos) \in Nat /\ DOMAIN Pdos = 1..Len(Pdos)
        BY <2>1
    <2>3. \A p \in DOMAIN Pdos : Pdos[p] \in [owner : DOMAIN device.dependencies,
                                         direction : {"tpdo", "rpdo"}, mapping : Seq(Names)]
        BY <2>1, <2>2, ElementOfSeq
    <2>4. QED
        BY <2>2, <2>3
<1>3. TypeInv
    <2>1. references \in [DOMAIN Pdos -> Seq(Names)] /\ entries \in [DOMAIN Pdos -> Seq(Entries)]
        BY <1>1
    <2>2. QED
        BY <1>1, <1>2, <2>1 DEF TypeInv
<1>4. \A p \in DOMAIN Pdos : DOMAIN references[p] = {} /\ DOMAIN entries[p] = {}
                             /\ Len(references[p]) = 0 /\ Len(entries[p]) = 0
    BY <1>1
<1>5. ProgressInv
    <2>1. \A p \in DOMAIN Pdos : ~(p < 1) /\ 0 <= Len(Pdos[p].mapping)
        BY <1>2
    <2>2. QED
        BY <1>1, <1>4, <2>1 DEF ProgressInv, LateStages
<1>6. LookupIsScoped /\ EntriesInv
    BY <1>4 DEF LookupIsScoped, EntriesInv
<1>7. RejectionIsJustified
    BY <1>1 DEF RejectionIsJustified
<1>8. QED
    BY <1>3, <1>5, <1>6, <1>7 DEF Inv

LEMMA NextKeepsInv == Inv /\ [Next]_vars => Inv'
<1> SUFFICES ASSUME Inv, [Next]_vars PROVE Inv'
    OBVIOUS
<1>1. CASE ResolveLocal \/ ResolveQualified \/ ResolveImported
    BY <1>1, ResolvingStep
<1>2. CASE RejectUnknown
    BY <1>2, RejectUnknownStep
<1>3. CASE RejectAmbiguous
    BY <1>3, RejectAmbiguousStep
<1>4. CASE NextPdo
    BY <1>4, NextPdoStep
<1>5. CASE ReturnReferences
    BY <1>5, ReturnReferencesStep
<1>6. CASE RejectContainer \/ RejectWriteOnly \/ RejectReadOnly \/ RejectUnmappable
    BY <1>6, RejectEntryStep
<1>7. CASE EncodeEntry
    BY <1>7, EncodeEntryStep
<1>8. CASE RejectBudget
    BY <1>8, RejectBudgetStep
<1>9. CASE AcceptPdo
    BY <1>9, AcceptPdoStep
<1>10. CASE ReturnMappings
    BY <1>10, ReturnMappingsStep
<1>11. CASE UNCHANGED vars
    BY <1>11, FrozenKeepsInv DEF vars
<1>12. QED
    BY <1>1, <1>2, <1>3, <1>4, <1>5, <1>6, <1>7, <1>8, <1>9, <1>10, <1>11 DEF Next

LEMMA InvHolds == Spec => []Inv
BY InitEstablishesInv, NextKeepsInv, PTL DEF Spec

-----------------------------------------------------------------------------
\* resolve_pdo_references resolves a reference to what its owner declares or
\* imports, and to the owner's own declaration whenever there is one.
THEOREM LooksUpInScope == Spec => []LookupIsScoped
<1>1. Inv => LookupIsScoped
    BY DEF Inv
<1>2. QED
    BY <1>1, InvHolds, PTL

\* resolve_pdo_mappings encodes addresses at which the dictionary has a value
\* of that width that the PDO can transfer, and at most 64 bits for each PDO.
THEOREM MapsTransferableAddresses == Spec => []MappedAddressesAreTransferable
<1>1. Inv => MappedAddressesAreTransferable
    <2> SUFFICES ASSUME Inv, stage = "done", NEW p \in DOMAIN Pdos
                 PROVE  /\ Len(entries[p]) = Len(Pdos[p].mapping)
                        /\ TotalBits(p) <= MaxPayload
                        /\ \A i \in DOMAIN entries[p] :
                              LET leaf == AddressedLeaf(entries[p][i]) IN
                              /\ leaf.role # "count"
                              /\ leaf.bits = entries[p][i].bits /\ leaf.bits > 0
                              /\ ~IsWrongWay(Pdos[p].direction, leaf)
        BY DEF MappedAddressesAreTransferable
    <2>1. p < pdo
        BY DeviceType DEF Inv, ProgressInv
    <2>2. Len(entries[p]) = Len(Pdos[p].mapping) /\ TotalBits(p) <= MaxPayload
        BY <2>1 DEF Inv, ProgressInv, LateStages
    <2>3. ASSUME NEW i \in DOMAIN entries[p]
          PROVE  /\ AddressedLeaf(entries[p][i]).role # "count"
                 /\ AddressedLeaf(entries[p][i]).bits = entries[p][i].bits
                 /\ AddressedLeaf(entries[p][i]).bits > 0
                 /\ ~IsWrongWay(Pdos[p].direction, AddressedLeaf(entries[p][i]))
        <3>1. i \in DOMAIN references[p]
            <4>1. entries[p] \in Seq(Entries) /\ references[p] \in Seq(Names)
                  /\ Len(entries[p]) <= Len(references[p])
                BY DEF Inv, TypeInv, ProgressInv
            <4>2. QED
                BY <4>1
        <3>2. PICK t \in Targets : Name(t) = references[p][i]
            BY <3>1 DEF Inv, LookupIsScoped
        <3>3. Carries(Pdos[p].direction, entries[p][i], Name(t))
            BY <3>2 DEF Inv, EntriesInv
        <3>4. AddressedLeaf(entries[p][i]) = Leaf(Name(t)) /\ Leaf(Name(t)).role # "count"
            BY <3>3, TargetIsAddressed DEF Inv, Carries, Transferable
        <3>5. QED
            BY <3>3, <3>4 DEF Carries, Transferable
    <2>4. QED
        BY <2>2, <2>3
<1>2. QED
    BY <1>1, InvHolds, PTL

\* A PdoValidationError or a reference error tells of a fault of the device.
THEOREM RejectsOnlyFaults == Spec => []RejectionIsJustified
<1>1. Inv => RejectionIsJustified
    BY DEF Inv
<1>2. QED
    BY <1>1, InvHolds, PTL

-----------------------------------------------------------------------------
\* The lookup of the document and that of the mapping, one of which skips the
\* counts: the name of a count is that of its object, which both find before it.
LEMMA DocumentedLeafIsLeaf ==
    ASSUME TypeInv, NEW t \in Targets
    PROVE  DocumentedLeaf(Name(t)) = Leaf(Name(t))
<1> DEFINE name == Name(t)
           h == Holder(name)
           o == Objects[h]
<1>1. h \in DOMAIN Objects /\ o \in DictionaryObjects
    BY HolderOfTarget, DeviceType
<1>2. PICK i \in DOMAIN Leaves(o) :
          /\ Leaf(name) = Leaves(o)[i]
          /\ Qualified(o.owner, Leaves(o)[i].key) = name
          /\ \A j \in 1..(i - 1) : Qualified(o.owner, Leaves(o)[j].key) # name
    BY LeafOfTarget
<1>3. \A k \in DOMAIN Objects : Objects[k] \in DictionaryObjects /\ k \in Nat
    BY DeviceType
<1>4. \A k \in DOMAIN Objects : \A j \in DOMAIN Leaves(Objects[k]) : j \in Nat /\ j >= 1
    <2>1. SUFFICES ASSUME NEW x \in DictionaryObjects, NEW j \in DOMAIN Leaves(x)
                   PROVE  j \in Nat /\ j >= 1
        BY <1>3
    <2>2. DOMAIN Leaves(x) = 1..(Len(x.subs) + 1) /\ Len(x.subs) \in Nat
        BY LeavesType
    <2>3. QED
        BY <2>2
<1>5. Leaves(o)[i].role # "count"
    <2>1. \A j \in DOMAIN o.subs : o.subs[j].role = "count" => o.subs[j].key = o.key
        BY <1>1, DevicesAssumption DEF TypeInv, Objects, Range
    <2> HIDE DEF o, name
    <2>2. /\ DOMAIN Leaves(o) = 1..(Len(o.subs) + 1) /\ Len(o.subs) \in Nat
          /\ DOMAIN o.subs = 1..Len(o.subs)
          /\ Leaves(o)[1] = [key |-> o.key, role |-> "object", access |-> o.access,
                             bits |-> o.bits, subindex |-> 0]
          /\ \A j \in 1..Len(o.subs) : Leaves(o)[j + 1] = o.subs[j]
        BY <1>1, LeavesType
    <2>3. SUFFICES ASSUME Leaves(o)[i].role = "count" PROVE FALSE
        OBVIOUS
    <2>4. i # 1
        BY <2>2, <2>3
    <2>5. i \in Nat /\ i - 1 \in 1..Len(o.subs) /\ (i - 1) + 1 = i
        BY <1>2, <2>2, <2>4
    <2>6. Leaves(o)[i] = o.subs[i - 1] /\ o.subs[i - 1].role = "count"
        BY <2>2, <2>3, <2>5
    <2>7. Leaves(o)[i].key = Leaves(o)[1].key
        BY <2>1, <2>2, <2>5, <2>6
    <2>8. 1 \in 1..(i - 1)
        BY <1>2, <2>2, <2>4, <2>5
    <2>9. QED
        BY <1>2, <2>7, <2>8
<1> DEFINE first == <<h, i>>
<1>6. first \in DocumentedAt(name)
    BY <1>1, <1>2, <1>5 DEF DocumentedAt
<1>7. \A at \in DocumentedAt(name) :
          /\ at = <<at[1], at[2]>>
          /\ at[1] \in DOMAIN Objects /\ at[2] \in DOMAIN Leaves(Objects[at[1]])
          /\ Qualified(Objects[at[1]].owner, Leaves(Objects[at[1]])[at[2]].key) = name
    BY DEF DocumentedAt
<1>8. \A j \in 1..(h - 1) : ~Holds(j, name)
    BY HolderOfTarget
<1>9. \A at \in DocumentedAt(name) : first = at \/ ComesBefore(first, at)
    <2>1. SUFFICES ASSUME NEW at \in DocumentedAt(name), first # at
                   PROVE  ComesBefore(first, at)
        OBVIOUS
    <2> DEFINE k == at[1]
               j == at[2]
    <2>2. /\ at = <<k, j>> /\ k \in DOMAIN Objects /\ j \in DOMAIN Leaves(Objects[k])
          /\ Qualified(Objects[k].owner, Leaves(Objects[k])[j].key) = name
        BY <1>7
    <2>3. k \in Nat /\ h \in Nat /\ i \in Nat /\ j \in Nat /\ i >= 1 /\ j >= 1 /\ k >= 1
        BY <1>1, <1>2, <1>4, <2>2, DeviceType
    <2>4. Holds(k, name)
        BY <2>2 DEF Holds, Range
    <2> HIDE DEF k, j, h, name
    <2>5. ~(k < h)
        BY <1>8, <2>3, <2>4
    <2>6. k = h => ~(j < i)
        BY <1>2, <2>2, <2>3
    <2>7. k = h => j # i
        BY <2>1, <2>2
    <2>8. h < k \/ (h = k /\ i < j)
        BY <2>3, <2>5, <2>6, <2>7
    <2>9. QED
        BY <2>2, <2>8 DEF ComesBefore
<1>10. \A s, u \in DocumentedAt(name) : ~(ComesBefore(s, u) /\ ComesBefore(u, s))
    <2>1. \A s \in DocumentedAt(name) : s[1] \in Nat /\ s[2] \in Nat
        BY <1>3, <1>4, <1>7
    <2>2. QED
        BY <2>1 DEF ComesBefore
<1>11. first = CHOOSE s \in DocumentedAt(name) :
                  \A u \in DocumentedAt(name) : s = u \/ ComesBefore(s, u)
    <2> HIDE DEF first
    <2>1. QED
        BY <1>6, <1>9, <1>10
<1>12. DocumentedLeaf(name) = Leaves(Objects[first[1]])[first[2]]
    <2> HIDE DEF first
    <2>1. QED
        BY <1>11 DEF DocumentedLeaf
<1>13. QED
    BY <1>2, <1>12

\* The Markdown document of an accepted device shows of each PDO what is mapped:
\* the lookup of _mapping_type finds what that of pdo.py has found.
THEOREM DocumentsWhatIsMapped == Spec => []DocumentationMatchesMapping
<1>1. Inv => DocumentationMatchesMapping
    <2> SUFFICES ASSUME Inv, stage = "done", NEW p \in DOMAIN Pdos,
                        NEW i \in DOMAIN Pdos[p].mapping
                 PROVE  /\ DocumentedRow(p, i).name = entries[p][i].name
                        /\ DocumentedRow(p, i).bits = entries[p][i].bits
                        /\ \/ DocumentedRow(p, i).declared = entries[p][i].declared
                           \/ \E j \in 1..(i - 1) :
                                 /\ DocumentedRow(p, j).declared = entries[p][i].declared
                                 /\ references[p][j] = references[p][i]
        BY DEF DocumentationMatchesMapping
    <2>1. p < pdo /\ Pdos[p].mapping \in Seq(Names)
        BY DeviceType DEF Inv, ProgressInv
    <2>2. /\ Len(entries[p]) = Len(references[p]) /\ Len(references[p]) = Len(Pdos[p].mapping)
          /\ entries[p] \in Seq(Entries) /\ references[p] \in Seq(Names)
        BY <2>1 DEF Inv, TypeInv, ProgressInv, LateStages
    <2>3. i \in DOMAIN references[p] /\ i \in DOMAIN entries[p] /\ i \in Nat
        BY <2>1, <2>2
    <2>4. PICK t \in Targets : Name(t) = references[p][i]
        BY <2>3 DEF Inv, LookupIsScoped
    <2>5. /\ Carries(Pdos[p].direction, entries[p][i], references[p][i])
          /\ \E j \in 1..i : /\ references[p][j] = references[p][i]
                             /\ entries[p][i].declared = Pdos[p].mapping[j]
        BY <2>3 DEF Inv, EntriesInv
    <2>6. DocumentedRow(p, i).name = entries[p][i].name
          /\ DocumentedRow(p, i).bits = entries[p][i].bits
        BY <2>4, <2>5, DocumentedLeafIsLeaf DEF DocumentedRow, Carries, Inv
    <2>7. \A j : DocumentedRow(p, j).declared = Pdos[p].mapping[j]
        BY DEF DocumentedRow
    <2>8. \A j \in 1..i : j = i \/ j \in 1..(i - 1)
        BY <2>3
    <2>9. QED
        BY <2>5, <2>6, <2>7, <2>8
<1>2. QED
    BY <1>1, InvHolds, PTL
=============================================================================
