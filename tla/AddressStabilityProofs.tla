----------------------- MODULE AddressStabilityProofs -----------------------
(***************************************************************************)
(* Proofs about two allocations with an edit in between, for every range,  *)
(* every sequence of items with distinct names and every value of the      *)
(* hash.                                                                   *)
(*                                                                         *)
(* Allocation says what a successful pass has assigned, in terms of the    *)
(* set of its items.  The first section compares the allocations of two    *)
(* sets, without any pass; the second shows that a pass ends with the      *)
(* allocation of its items, or that they have none; the third carries the  *)
(* outcome of the first pass through the second one.                       *)
(***************************************************************************)
EXTENDS AddressStability, AddressRangeProofs, SequenceTheorems

\* With more items, no item stands earlier along its probe sequence: the first
\* by name to do so would have taken an address that an earlier item has left,
\* and an item leaves its address only for one that precedes it.
LEMMA ProbesOnlyGrow ==
    ASSUME NEW r \in Ranges, NEW S, NEW T, S \subseteq T, T \subseteq Items,
           NEW a1, NEW a2, Allocation(r, S, a1), Allocation(r, T, a2)
    PROVE  \A x \in S : a1[x.name].probe <= a2[x.name].probe
<1> DEFINE D == {n \in {x.name : x \in S} : ~(a1[n].probe <= a2[n].probe)}
<1> SUFFICES ASSUME D # {} PROVE FALSE
  OBVIOUS
<1>1. \A x \in T : x.name \in Nat
  BY DEF Items
<1>2. D \subseteq Nat
  BY <1>1
<1>3. PICK n \in D : \A k \in D : n <= k
  BY <1>2, NatHasLeast
<1>4. PICK x \in S : x.name = n
  OBVIOUS
<1>5. ~(a1[x.name].probe <= a2[x.name].probe)
  BY <1>4
<1>6. \A y \in S : y.name < x.name => a1[y.name].probe <= a2[y.name].probe
  <2> SUFFICES ASSUME NEW y \in S, y.name < x.name,
                      ~(a1[y.name].probe <= a2[y.name].probe)
               PROVE  FALSE
    OBVIOUS
  <2>1. y.name \in D
    OBVIOUS
  <2> QED
    BY <1>1, <1>3, <1>4, <2>1
<1> HIDE DEF D
<1>7. x.explicit = None
  <2>1. ASSUME x.explicit # None
        PROVE  a1[x.name].probe = 0 /\ a2[x.name].probe = 0
    BY <2>1, ExplicitEntry DEF Allocation
  <2>2. \A j, k : j = 0 /\ k = 0 => j <= k
    OBVIOUS
  <2> QED
    BY <1>5, <2>1, <2>2
<1> DEFINE p1 == a1[x.name].probe
           p2 == a2[x.name].probe
           a == Candidate(r, x, p2)
<1>8. Automatically(r, S, a1, x, a1[x.name]) /\ Automatically(r, T, a2, x, a2[x.name])
  BY <1>7 DEF Allocation
<1>9. p1 \in Nat /\ p2 \in Nat /\ p2 \in 0..(p1 - 1) /\ a2[x.name].address = a
  BY <1>5, <1>8 DEF Automatically
<1>10. PICK y \in S : HasPriority(y, x) /\ a1[y.name].address = a
  BY <1>8, <1>9 DEF Automatically
<1> HIDE DEF a
<1>11. y # x
  BY <1>1, <1>7, <1>10 DEF HasPriority
<1>12. a2[y.name].address # a
  BY <1>9, <1>11 DEF Allocation
<1>13. y.explicit = None
  BY <1>10, <1>12, ExplicitEntry DEF Allocation
<1>14. y.name < x.name
  BY <1>10, <1>13 DEF HasPriority
<1>15. Automatically(r, S, a1, y, a1[y.name]) /\ Automatically(r, T, a2, y, a2[y.name])
  BY <1>13 DEF Allocation
<1> DEFINE q1 == a1[y.name].probe
           q2 == a2[y.name].probe
<1>16. /\ q1 \in Nat /\ q2 \in Nat /\ q1 <= q2
       /\ a = Candidate(r, y, q1) /\ a2[y.name].address = Candidate(r, y, q2)
  BY <1>6, <1>10, <1>14, <1>15 DEF Automatically
<1>17. q1 # q2
  BY <1>12, <1>16
<1>18. q1 \in 0..(q2 - 1)
  <2> HIDE DEF q1, q2
  <2> QED
    BY <1>16, <1>17
<1>19. PICK z \in T : HasPriority(z, y) /\ a2[z.name].address = a
  BY <1>15, <1>16, <1>18 DEF Automatically
<1>20. z = x
  BY <1>9, <1>19 DEF Allocation
<1> QED
  BY <1>1, <1>7, <1>14, <1>19, <1>20 DEF HasPriority

\* An automatic item at an equal probe distance has the same entry.
LEMMA SameProbeSameEntry ==
    ASSUME NEW r, NEW S, NEW T, S \subseteq T,
           NEW a1, NEW a2, Allocation(r, S, a1), Allocation(r, T, a2), NEW x \in S,
           a1[x.name].probe = a2[x.name].probe
    PROVE  a1[x.name] = a2[x.name]
<1>1. CASE x.explicit # None
  BY <1>1 DEF Allocation, Explicitly
<1>2. CASE x.explicit = None
  <2>1. Automatically(r, S, a1, x, a1[x.name]) /\ Automatically(r, T, a2, x, a2[x.name])
    BY <1>2 DEF Allocation
  <2>2. a1[x.name].address = a2[x.name].address
    BY <2>1 DEF Automatically
  <2> QED
    BY <2>1, <2>2 DEF Automatically
<1> QED
  BY <1>1, <1>2

\* A set of items has one allocation, down to the probe distances.
LEMMA OneAllocation ==
    ASSUME NEW r \in Ranges, NEW S, S \subseteq Items,
           NEW a1, NEW a2, Allocation(r, S, a1), Allocation(r, S, a2)
    PROVE  a1 = a2
<1>1. \A x \in S : a1[x.name].probe <= a2[x.name].probe
  BY ProbesOnlyGrow
<1>2. \A x \in S : a2[x.name].probe <= a1[x.name].probe
  BY ProbesOnlyGrow
<1>3. ASSUME NEW x \in S PROVE a1[x.name].probe \in Nat /\ a2[x.name].probe \in Nat
  <2>1. CASE x.explicit # None
    <3>1. a1[x.name].probe = 0 /\ a2[x.name].probe = 0
      BY <2>1, ExplicitEntry DEF Allocation
    <3> QED
      BY <3>1
  <2>2. CASE x.explicit = None
    BY <2>2 DEF Allocation, Automatically
  <2> QED
    BY <2>1, <2>2
<1>4. \A x \in S : a1[x.name].probe = a2[x.name].probe
  BY <1>1, <1>2, <1>3
<1>5. \A x \in S : a1[x.name] = a2[x.name]
  BY <1>4, SameProbeSameEntry
<1>6. \A n \in DOMAIN a1 : a1[n] = a2[n]
  BY <1>5 DEF Allocation
<1> QED
  BY <1>6 DEF Allocation, IsFunction

\* An automatic newcomer x stands behind every automatic item with a smaller
\* name: those keep their entries.
LEMMA SmallerNamesStay ==
    ASSUME NEW r \in Ranges, NEW S, NEW x \in Items, S \subseteq Items,
           x.explicit = None,
           NEW a1, NEW a2, Allocation(r, S, a1), Allocation(r, S \union {x}, a2)
    PROVE  \A y \in S : y.name < x.name => a1[y.name] = a2[y.name]
<1> DEFINE T == S \union {x}
           D == {n \in {y.name : y \in S} : n < x.name /\ a1[n] # a2[n]}
<1> SUFFICES ASSUME D # {} PROVE FALSE
  OBVIOUS
<1>1. x.name \in Nat /\ \A y \in S : y.name \in Nat
  BY DEF Items
<1>2. D \subseteq Nat
  BY <1>1
<1>3. PICK n \in D : \A k \in D : n <= k
  BY <1>2, NatHasLeast
<1>4. PICK y \in S : y.name = n
  OBVIOUS
<1>5. y.name < x.name /\ a1[y.name] # a2[y.name]
  BY <1>4
<1>6. \A z \in S : z.name < y.name => a1[z.name] = a2[z.name]
  <2> SUFFICES ASSUME NEW z \in S, z.name < y.name, a1[z.name] # a2[z.name]
               PROVE  FALSE
    OBVIOUS
  <2>1. z.name < x.name
    BY <1>1, <1>5
  <2>2. z.name \in D
    BY <2>1
  <2> QED
    BY <1>1, <1>3, <1>4, <2>2
<1> HIDE DEF D
<1>7. y.explicit = None
  BY <1>5 DEF Allocation, Explicitly
<1>8. S \subseteq T /\ T \subseteq Items /\ Allocation(r, T, a2)
  OBVIOUS
<1>9. Automatically(r, S, a1, y, a1[y.name]) /\ Automatically(r, T, a2, y, a2[y.name])
  BY <1>7, <1>8 DEF Allocation
<1> HIDE DEF T
<1> DEFINE p1 == a1[y.name].probe
           p2 == a2[y.name].probe
           a == a1[y.name].address
<1>10. p1 \in Nat /\ p2 \in Nat /\ p1 <= p2
  BY <1>8, <1>9, ProbesOnlyGrow DEF Automatically
<1>11. p1 # p2
  BY <1>5, <1>8, SameProbeSameEntry
<1>12. p1 \in 0..(p2 - 1)
  <2> HIDE DEF p1, p2
  <2> QED
    BY <1>10, <1>11
<1>13. a = Candidate(r, y, p1)
  BY <1>9 DEF Automatically
<1>14. PICK z \in T : HasPriority(z, y) /\ a2[z.name].address = a
  BY <1>9, <1>12, <1>13 DEF Automatically
<1> HIDE DEF a
<1>15. z \in S
  <2>1. ~(x.name < y.name)
    BY <1>1, <1>5
  <2>2. z # x
    BY <1>14, <2>1 DEF HasPriority
  <2> QED
    BY <2>2 DEF T
<1>16. a1[z.name].address = a
  <2>1. CASE z.explicit # None
    <3>1. a1[z.name].address = z.explicit /\ a2[z.name].address = z.explicit
      BY <1>8, <1>15, <2>1, ExplicitEntry DEF Allocation
    <3> QED
      BY <1>14, <3>1
  <2>2. CASE z.explicit = None
    BY <1>6, <1>14, <1>15, <2>2 DEF HasPriority
  <2> QED
    BY <2>1, <2>2
<1>17. z = y
  BY <1>15, <1>16 DEF Allocation, a
<1> QED
  BY <1>1, <1>7, <1>14, <1>17 DEF HasPriority

\* The addresses of an allocation are a placement of its items with one of
\* them pinned where it stands.
LEMMA PinnedPlacement ==
    ASSUME NEW r \in Ranges, NEW S, S \subseteq Items, NEW as, Allocation(r, S, as),
           NEW x \in S, NEW y \in Items,
           y.name = x.name, y.explicit = as[x.name].address,
           NEW T, T = (S \ {x}) \union {y}
    PROVE  /\ {z.name : z \in T} = {z.name : z \in S}
           /\ IsPlacement(r, T, AddressesOf(as))
<1> DEFINE m == AddressesOf(as)
           N == {z.name : z \in S}
<1>1. m \in [N -> Addresses(r)] /\ IsPlacement(r, S, m)
  BY AllocationIsPlacement
<1>2. m[x.name] = as[x.name].address
  BY DEF AddressesOf, Allocation
<1>3. T \subseteq Items /\ {z.name : z \in T} = N
  OBVIOUS
\* Every item of T stands where the item of S with its name stands.
<1>4. \A z \in T : \E w \in S : w.name = z.name /\ (z = w \/ (z = y /\ w = x))
  OBVIOUS
<1>5. \A w \in S : \E z \in T : z.name = w.name /\ (z = w \/ (z = y /\ w = x))
  OBVIOUS
<1>6. y.explicit # None
  <2>1. as[x.name].address \in Addresses(r)
    BY DEF Allocation
  <2>2. Addresses(r) \subseteq Nat
    BY DEF Addresses, Ranges
  <2> QED
    BY <2>1, <2>2, NoneAssumption
<1> HIDE DEF m, N
<1>7. \A z \in T : m[z.name] \in Addresses(r)
  BY <1>1, <1>4 DEF IsPlacement
<1>8. ASSUME NEW z \in T, NEW w \in T, m[z.name] = m[w.name] PROVE z = w
  <2>1. PICK z1 \in S : z1.name = z.name /\ (z = z1 \/ (z = y /\ z1 = x))
    BY <1>4
  <2>2. PICK w1 \in S : w1.name = w.name /\ (w = w1 \/ (w = y /\ w1 = x))
    BY <1>4
  <2>3. z1 = w1
    BY <1>1, <1>8, <2>1, <2>2 DEF IsPlacement
  <2> QED
    BY <2>1, <2>2, <2>3
<1>9. \A z \in T : z.explicit # None => m[z.name] = z.explicit
  BY <1>1, <1>2 DEF IsPlacement
<1>10. ASSUME NEW z \in T, z.explicit = None
       PROVE  \E p \in 0..(Size(r) - 1) : IsFirstFree(r, T, m, z, p)
  <2>1. z \in S
    BY <1>6, <1>10
  <2>2. PICK p \in 0..(Size(r) - 1) : IsFirstFree(r, S, m, z, p)
    BY <1>1, <1>10, <2>1 DEF IsPlacement
  <2>3. ASSUME NEW q \in 0..(p - 1)
        PROVE  \E w \in T : HasPriority(w, z) /\ m[w.name] = Candidate(r, z, q)
    <3>1. PICK w \in S : HasPriority(w, z) /\ m[w.name] = Candidate(r, z, q)
      BY <2>2 DEF IsFirstFree
    <3>2. PICK v \in T : v.name = w.name /\ (v = w \/ (v = y /\ w = x))
      BY <1>5
    <3>3. HasPriority(v, z)
      BY <1>6, <3>1, <3>2 DEF HasPriority
    <3> QED
      BY <3>1, <3>2, <3>3
  <2>4. IsFirstFree(r, T, m, z, p)
    BY <2>2, <2>3 DEF IsFirstFree
  <2> QED
    BY <2>4
<1>11. IsPlacement(r, T, m)
  BY <1>1, <1>3, <1>7, <1>8, <1>9, <1>10 DEF IsPlacement, N
<1> QED
  BY <1>3, <1>11 DEF m, N

-----------------------------------------------------------------------------
\* Once the configuration is edited, before holds the outcome of the first pass
\* over the configuration that was.
BeforeInv ==
    edit # "none" =>
        /\ before.items \in Seq(Items)
        /\ HasUniqueNames(before.items)
        /\ Outcome(range, before.items, before.phase, before.assigned)

\* The items s once address a is written into the definition of s[i].
PinAt(s, i, a) == [s EXCEPT ![i].explicit = a]

\* The address that the item was given.
Given(as, x) == as[x.name].address

\* What the edit has made of the items: the same set, one more item, or one
\* automatic item with the address it had been given.
Reordered == Range(items) = Range(before.items)

Added ==
    \E x \in Items :
        /\ x.name \notin Names(before.items)
        /\ items = Append(before.items, x)

Pinned ==
    /\ before.phase = "allocated"
    /\ \E i \in DOMAIN before.items :
          items = PinAt(before.items, i, Given(before.assigned, before.items[i]))

EditInv ==
    /\ edit \in {"none", "reorder", "add", "pin"}
    /\ edit = "reorder" => Reordered
    /\ edit = "add" => Added
    /\ edit = "pin" => Pinned

StabilityInv == PassInv /\ BeforeInv /\ EditInv

LEMMA InitStabilityInv == FirstInit => StabilityInv
BY InitPassInv DEF FirstInit, StabilityInv, BeforeInv, EditInv

\* A second pass over items with distinct names begins from the outcome of the
\* first one.
LEMMA RegenerateInv ==
    ASSUME StabilityInv, NEW kind \in {"reorder", "add", "pin"},
           NEW s \in Seq(Items), HasUniqueNames(s), Regenerate(kind, s)
    PROVE  /\ PassInv' /\ BeforeInv'
           /\ edit' = kind /\ range' = range /\ items' = s
           /\ before' = [items |-> items, phase |-> phase, assigned |-> assigned]
<1>1. /\ edit' = kind /\ range' = range /\ items' = s /\ phase \in Ended
      /\ before' = [items |-> items, phase |-> phase, assigned |-> assigned]
      /\ Call(range, s)
  BY DEF Regenerate, Call
<1>2. /\ items \in Seq(Items) /\ HasUniqueNames(items) /\ range \in Ranges
  BY DEF StabilityInv, PassInv, Inv, TypeOK
<1>3. PassInv'
  BY <1>1, <1>2, CallPassInv
<1>4. Outcome(range, items, phase, assigned)
  BY <1>1, EndedOutcome DEF StabilityInv
<1>5. /\ before'.items = items /\ before'.phase = phase /\ before'.assigned = assigned
  BY <1>1
<1>6. BeforeInv'
  BY <1>1, <1>2, <1>4, <1>5 DEF BeforeInv
<1> QED
  BY <1>1, <1>3, <1>6

LEMMA ReorderInv ==
    ASSUME StabilityInv, Reorder
    PROVE  StabilityInv'
<1>1. PICK f \in Bijection(DOMAIN items, DOMAIN items) :
         Regenerate("reorder", [i \in DOMAIN items |-> items[f[i]]])
  BY DEF Reorder
<1> DEFINE s == [i \in DOMAIN items |-> items[f[i]]]
           D == DOMAIN items
<1>2. /\ items \in Seq(Items) /\ HasUniqueNames(items)
      /\ Len(items) \in Nat /\ D = 1..Len(items)
  BY DEF StabilityInv, PassInv, Inv, TypeOK
<1>3. /\ f \in [D -> D]
      /\ \A i, j \in D : f[i] = f[j] => i = j
      /\ \A j \in D : \E i \in D : f[i] = j
  BY DEF Bijection, Injection, Surjection, IsInjective
<1>4. DOMAIN s = D /\ \A i \in D : s[i] = items[f[i]]
  OBVIOUS
<1>5. s \in Seq(Items)
  BY <1>2, <1>3
<1>6. Regenerate("reorder", s)
  BY <1>1
<1> HIDE DEF s
<1>7. HasUniqueNames(s)
  BY <1>2, <1>3, <1>4 DEF HasUniqueNames
<1>8. Range(s) = Range(items)
  <2>1. \A i \in D : s[i] \in Range(items) /\ items[i] \in Range(s)
    BY <1>3, <1>4 DEF Range
  <2> QED
    BY <1>4, <2>1 DEF Range
<1>9. /\ PassInv' /\ BeforeInv' /\ edit' = "reorder" /\ items' = s
      /\ before' = [items |-> items, phase |-> phase, assigned |-> assigned]
  BY <1>5, <1>6, <1>7, RegenerateInv
<1>10. Reordered'
  BY <1>8, <1>9 DEF Reordered
<1> QED
  BY <1>9, <1>10 DEF StabilityInv, EditInv

LEMMA AddItemInv ==
    ASSUME StabilityInv, AddItem
    PROVE  StabilityInv'
<1>1. PICK x \in NewItems :
         x.name \notin Names(items) /\ Regenerate("add", Append(items, x))
  BY DEF AddItem
<1> DEFINE s == Append(items, x)
           n == Len(items)
<1>2. /\ items \in Seq(Items) /\ HasUniqueNames(items) /\ x \in Items
      /\ n \in Nat /\ DOMAIN items = 1..n
  BY NewItemsAssumption DEF StabilityInv, PassInv, Inv, TypeOK
<1>3. /\ s \in Seq(Items) /\ DOMAIN s = 1..(n + 1)
      /\ \A i \in 1..n : s[i] = items[i]
      /\ s[n + 1] = x
  <2> HIDE DEF Items
  <2> QED
    BY <1>2, AppendProperties
<1>4. Regenerate("add", s)
  BY <1>1
<1> HIDE DEF s, n
<1>5. \A i \in 1..n : items[i].name # x.name
  BY <1>1, <1>2 DEF Names
<1>6. \A i \in 1..(n + 1) : i \in 1..n \/ i = n + 1
  BY <1>2
<1>7. HasUniqueNames(s)
  BY <1>2, <1>3, <1>5, <1>6 DEF HasUniqueNames
<1>8. /\ PassInv' /\ BeforeInv' /\ edit' = "add" /\ items' = s
      /\ before' = [items |-> items, phase |-> phase, assigned |-> assigned]
  BY <1>3, <1>4, <1>7, RegenerateInv
<1>9. Added'
  BY <1>1, <1>2, <1>8 DEF Added, s
<1> QED
  BY <1>8, <1>9 DEF StabilityInv, EditInv

\* What pinning item i to address a makes of a sequence of items.
LEMMA PinnedSequence ==
    ASSUME NEW s, s \in Seq(Items), HasUniqueNames(s), NEW i, i \in DOMAIN s,
           NEW a, a \in Nat
    PROVE  /\ PinAt(s, i, a) \in Seq(Items) /\ HasUniqueNames(PinAt(s, i, a))
           /\ \E y \in Items :
                 /\ y.name = s[i].name /\ y.explicit = a
                 /\ Range(PinAt(s, i, a)) = (Range(s) \ {s[i]}) \union {y}
<1> DEFINE y == [s[i] EXCEPT !.explicit = a]
           t == [s EXCEPT ![i] = y]
<1>1. Len(s) \in Nat /\ DOMAIN s = 1..Len(s) /\ s[i] \in Items
  OBVIOUS
<1>2. y \in Items /\ y.name = s[i].name /\ y.explicit = a
  BY <1>1 DEF Items
<1>3. PinAt(s, i, a) = t
  BY Zenon DEF PinAt
<1> HIDE DEF y
<1>4. DOMAIN t = DOMAIN s /\ t[i] = y /\ \A j \in DOMAIN s : j # i => t[j] = s[j]
  OBVIOUS
<1>5. t \in Seq(Items)
  <2> HIDE DEF Items
  <2> QED
    BY <1>1, <1>2, ExceptSeq
<1> HIDE DEF t
<1>6. HasUniqueNames(t)
  BY <1>2, <1>4 DEF HasUniqueNames
<1>7. Range(t) = (Range(s) \ {s[i]}) \union {y}
  <2>1. \A j \in DOMAIN s : j # i => s[j] # s[i]
    BY DEF HasUniqueNames
  <2>2. \A z : z \in Range(t) <=> z = y \/ \E j \in DOMAIN s : j # i /\ z = s[j]
    BY <1>4 DEF Range
  <2>3. \A z : (z \in Range(s) /\ z # s[i]) <=> \E j \in DOMAIN s : j # i /\ z = s[j]
    BY <2>1 DEF Range
  <2> QED
    BY <2>2, <2>3
<1> QED
  BY <1>2, <1>3, <1>5, <1>6, <1>7

LEMMA PinInv ==
    ASSUME StabilityInv, Pin
    PROVE  StabilityInv'
<1>1. PICK i \in DOMAIN items :
         /\ phase = "allocated" /\ ~IsExplicit(i)
         /\ Regenerate("pin",
                [items EXCEPT ![i].explicit = assigned[items[i].name].address])
  BY DEF Pin
<1> DEFINE a == assigned[items[i].name].address
           s == PinAt(items, i, a)
<1>2. items \in Seq(Items) /\ HasUniqueNames(items)
  BY DEF StabilityInv, PassInv, Inv, TypeOK
<1>3. a \in Nat
  <2>1. items[i].name \in DOMAIN assigned
    BY <1>1 DEF StabilityInv, PassInv, Inv, ExhaustedOnlyWhenFull
  <2> QED
    BY <2>1 DEF StabilityInv, PassInv, Inv, TypeOK
<1>4. Regenerate("pin", s)
  BY <1>1 DEF PinAt
<1>5. s \in Seq(Items) /\ HasUniqueNames(s)
  <2> HIDE DEF a
  <2> QED
    BY <1>2, <1>3, PinnedSequence
<1> HIDE DEF s
<1>6. /\ PassInv' /\ BeforeInv' /\ edit' = "pin" /\ items' = s
      /\ before' = [items |-> items, phase |-> phase, assigned |-> assigned]
  BY <1>4, <1>5, RegenerateInv
<1>7. before'.phase = phase /\ before'.items = items /\ before'.assigned = assigned
  BY <1>6
<1>8. Pinned'
  BY <1>1, <1>6, <1>7 DEF Pinned, Given, s
<1> QED
  BY <1>6, <1>8 DEF StabilityInv, EditInv

\* The steps of a pass keep its range and its items, and leave before alone.
LEMMA PassStepInv ==
    ASSUME StabilityInv, PassStep \/ UNCHANGED stabilityVars
    PROVE  StabilityInv'
<1>1. UNCHANGED <<before, edit>> /\ (Next \/ UNCHANGED passVars)
  BY DEF PassStep, stabilityVars
<1>2. UNCHANGED <<range, items>>
  BY <1>1 DEF Next, SkipAutomatic, RejectOutOfRange, RejectCollision, ReserveExplicit,
     BeginAutomatic, ProbeOccupied, AssignAutomatic, RejectExhausted, Finish, passVars
<1>3. PassInv'
  <2>1. CASE Next
    BY <2>1, NextPassInv DEF StabilityInv
  <2>2. CASE UNCHANGED passVars
    <3>1. Inv'
      BY <2>2, NextInv DEF StabilityInv, PassInv, vars
    <3>2. EntriesInv' /\ RefusalInv'
      BY <2>2 DEF passVars, StabilityInv, PassInv, EntriesInv, RefusalInv, IsExplicit,
         IsFunction
    <3> QED
      BY <3>1, <3>2 DEF PassInv
  <2> QED
    BY <1>1, <2>1, <2>2
<1>4. BeforeInv'
  BY <1>1, <1>2 DEF StabilityInv, BeforeInv
<1>5. EditInv'
  BY <1>1, <1>2 DEF StabilityInv, EditInv, Reordered, Added, Pinned
<1> QED
  BY <1>3, <1>4, <1>5 DEF StabilityInv

LEMMA StabilityInvIsInvariant == StabilitySpec => []StabilityInv
<1>1. FirstInit => StabilityInv
  BY InitStabilityInv
<1>2. StabilityInv /\ [StabilityNext]_stabilityVars => StabilityInv'
  BY PassStepInv, ReorderInv, AddItemInv, PinInv DEF StabilityNext
<1> QED
  BY <1>1, <1>2, PTL DEF StabilitySpec

LEMMA ItemsInRange ==
    ASSUME NEW s \in Seq(Items)
    PROVE  /\ Range(s) \subseteq Items
           /\ \A i \in DOMAIN s : s[i] \in Range(s)
           /\ \A x \in Range(s) : \E i \in DOMAIN s : x = s[i]
BY DEF Range

\* Once the second pass has ended, both passes have their outcome.
LEMMA TwoOutcomes ==
    ASSUME StabilityInv, NEW kind, SecondPassEnded(kind), kind # "none"
    PROVE  /\ range \in Ranges /\ items \in Seq(Items) /\ before.items \in Seq(Items)
           /\ HasUniqueNames(before.items)
           /\ Outcome(range, items, phase, assigned)
           /\ Outcome(range, before.items, before.phase, before.assigned)
<1>1. range \in Ranges /\ items \in Seq(Items)
  BY DEF StabilityInv, PassInv, Inv, TypeOK
<1>2. Outcome(range, items, phase, assigned)
  BY EndedOutcome DEF StabilityInv, SecondPassEnded
<1> QED
  BY <1>1, <1>2 DEF StabilityInv, BeforeInv, SecondPassEnded

\* A set of items that has a placement is never refused.
LEMMA PlacedIsAllocated ==
    ASSUME NEW r, NEW s, NEW ph, NEW as, NEW m,
           Outcome(r, s, ph, as), IsPlacement(r, Range(s), m)
    PROVE  ph = "allocated" /\ Allocation(r, Range(s), as)
BY DEF Outcome, Ended

-----------------------------------------------------------------------------
\* Whatever the range, the items and their hashes: another order of the same
\* items is given the same dictionary, or refused again.
THEOREM OrderNeverMatters == StabilitySpec => []OrderIsIrrelevant
<1>1. StabilityInv => OrderIsIrrelevant
  <2> DEFINE S == Range(items)
  <2> SUFFICES ASSUME StabilityInv, SecondPassEnded("reorder")
               PROVE  IF before.phase = "allocated"
                      THEN phase = "allocated" /\ assigned = before.assigned
                      ELSE phase \in Errors
    BY DEF OrderIsIrrelevant
  <2>1. /\ range \in Ranges /\ S \subseteq Items /\ S = Range(before.items)
        /\ Outcome(range, items, phase, assigned)
        /\ Outcome(range, before.items, before.phase, before.assigned)
    BY TwoOutcomes, ItemsInRange DEF StabilityInv, EditInv, Reordered, SecondPassEnded
  <2> HIDE DEF S
  <2>2. CASE before.phase = "allocated"
    <3>1. Allocation(range, S, before.assigned)
      BY <2>1, <2>2 DEF Outcome
    <3>2. IsPlacement(range, S, AddressesOf(before.assigned))
      BY <2>1, <3>1, AllocationIsPlacement
    <3>3. phase = "allocated" /\ Allocation(range, S, assigned)
      BY <2>1, <3>2, PlacedIsAllocated DEF S
    <3>4. assigned = before.assigned
      BY <2>1, <3>1, <3>3, OneAllocation
    <3> QED
      BY <2>2, <3>3, <3>4
  <2>3. CASE before.phase # "allocated"
    <3>1. before.phase \in Errors
      BY <2>1, <2>3 DEF Outcome, Ended
    <3>2. \A m : ~IsPlacement(range, S, m)
      BY <2>1, <3>1 DEF Outcome
    <3>3. phase # "allocated"
      BY <2>1, <3>2, AllocationIsPlacement DEF Outcome, S
    <3>4. phase \in Errors
      BY <2>1, <3>3 DEF Outcome, Ended
    <3> QED
      BY <2>3, <3>4
  <2> QED
    BY <2>2, <2>3
<1> QED
  BY <1>1, StabilityInvIsInvariant, PTL

\* Pinned items are allocated, and where they stood.
LEMMA PinnedAllocation ==
    ASSUME NEW r, r \in Ranges, NEW s, s \in Seq(Items), HasUniqueNames(s),
           NEW a1, Allocation(r, Range(s), a1), NEW i, i \in DOMAIN s,
           NEW a, a = Given(a1, s[i]), NEW t, t = PinAt(s, i, a),
           NEW ph, NEW a2, Outcome(r, t, ph, a2)
    PROVE  /\ ph = "allocated"
           /\ \A n \in DOMAIN a2 : a2[n].address = a1[n].address
<1> DEFINE S == Range(s)
           T == Range(t)
           N == {z.name : z \in S}
<1>1. S \subseteq Items /\ s[i] \in S
  BY ItemsInRange
<1>2. PICK x \in S : x = s[i]
  BY <1>1
<1>3. a \in Addresses(r) /\ a = a1[x.name].address
  BY <1>1, <1>2 DEF Allocation, Given
<1>4. a \in Nat
  BY <1>3 DEF Addresses, Ranges
<1>5. /\ t \in Seq(Items)
      /\ \E y \in Items : y.name = x.name /\ y.explicit = a /\ T = (S \ {x}) \union {y}
  BY <1>2, <1>4, PinnedSequence
<1>6. PICK y \in Items : y.name = x.name /\ y.explicit = a /\ T = (S \ {x}) \union {y}
  BY <1>5
<1>7. T \subseteq Items
  BY <1>5, ItemsInRange
<1> HIDE DEF S, T
<1>8. Allocation(r, S, a1)
  BY DEF S
<1>9. {z.name : z \in T} = N /\ IsPlacement(r, T, AddressesOf(a1))
  BY <1>1, <1>3, <1>6, <1>8, PinnedPlacement
<1>10. ph = "allocated" /\ Allocation(r, T, a2)
  BY <1>9, PlacedIsAllocated DEF T
<1>11. /\ AddressesOf(a1) \in [N -> Addresses(r)]
       /\ AddressesOf(a2) \in [N -> Addresses(r)]
       /\ IsPlacement(r, T, AddressesOf(a2))
  BY <1>1, <1>7, <1>8, <1>9, <1>10, AllocationIsPlacement
<1>12. AddressesOf(a2) = AddressesOf(a1)
  BY <1>7, <1>9, <1>11, UniquePlacement
<1>13. DOMAIN a1 = N /\ DOMAIN a2 = N
  BY <1>8, <1>9, <1>10 DEF Allocation
<1>14. /\ \A n \in N : AddressesOf(a2)[n] = a2[n].address
       /\ \A n \in N : AddressesOf(a1)[n] = a1[n].address
  BY <1>13 DEF AddressesOf
<1> QED
  BY <1>10, <1>12, <1>13, <1>14

\* Whatever the range, the items and their hashes: an address written into the
\* definition it was given to is accepted, and no item moves.
THEOREM PinningIsHarmless == StabilitySpec => []PinningMovesNothing
<1>1. StabilityInv => PinningMovesNothing
  <2> SUFFICES ASSUME StabilityInv, SecondPassEnded("pin")
               PROVE  /\ phase = "allocated"
                      /\ \A n \in DOMAIN assigned :
                            assigned[n].address = before.assigned[n].address
    BY DEF PinningMovesNothing
  <2>1. /\ range \in Ranges /\ before.items \in Seq(Items)
        /\ HasUniqueNames(before.items)
        /\ Outcome(range, items, phase, assigned)
        /\ Outcome(range, before.items, before.phase, before.assigned)
        /\ Pinned
    BY TwoOutcomes DEF StabilityInv, EditInv, SecondPassEnded
  <2>2. Allocation(range, Range(before.items), before.assigned)
    BY <2>1 DEF Outcome, Pinned
  <2>3. PICK i \in DOMAIN before.items :
           items = PinAt(before.items, i, Given(before.assigned, before.items[i]))
    BY <2>1 DEF Pinned
  <2> QED
    BY <2>1, <2>2, <2>3, PinnedAllocation
<1> QED
  BY <1>1, StabilityInvIsInvariant, PTL

LEMMA ProbesAreNaturals ==
    ASSUME NEW r, NEW S, NEW as, Allocation(r, S, as), NEW y \in S
    PROVE  as[y.name].probe \in Nat
<1>1. CASE y.explicit # None
  <2>1. as[y.name].probe = 0
    BY <1>1, ExplicitEntry DEF Allocation
  <2> QED
    BY <2>1
<1>2. CASE y.explicit = None
  BY <1>2 DEF Allocation, Automatically
<1> QED
  BY <1>1, <1>2

\* What a new item x may do to the entry of an item y.
Forward(x, y, e1, e2) ==
    /\ e2.probe >= e1.probe
    /\ y.explicit # None => e2 = e1
    /\ (x.explicit = None /\ y.name < x.name) => e2 = e1

LEMMA AddedAllocation ==
    ASSUME NEW r \in Ranges, NEW S, S \subseteq Items, NEW x \in Items,
           NEW a1, Allocation(r, S, a1), NEW a2, Allocation(r, S \union {x}, a2),
           NEW y \in S
    PROVE  Forward(x, y, a1[y.name], a2[y.name])
<1> DEFINE T == S \union {x}
           e1 == a1[y.name]
           e2 == a2[y.name]
<1>1. S \subseteq T /\ T \subseteq Items /\ Allocation(r, T, a2)
  OBVIOUS
<1>2. (x.explicit = None /\ y.name < x.name) => e1 = e2
  BY SmallerNamesStay
<1> HIDE DEF T
<1>3. e2.probe >= e1.probe
  <2>1. e1.probe <= e2.probe
    BY <1>1, ProbesOnlyGrow
  <2>2. e1.probe \in Nat /\ e2.probe \in Nat
    BY <1>1, ProbesAreNaturals
  <2> QED
    BY <2>1, <2>2
<1>4. y.explicit # None => e2 = e1
  BY <1>1 DEF Allocation, Explicitly
<1> QED
  BY <1>2, <1>3, <1>4 DEF Forward

\* Whatever the range, the items and their hashes: a new item moves no explicit
\* item, others only further along, and an automatic one moves larger names.
THEOREM NewItemsPushForward == StabilitySpec => []AddingMovesForward
<1>1. StabilityInv => AddingMovesForward
  <2> DEFINE S == Range(before.items)
             a1 == before.assigned
  <2> SUFFICES ASSUME StabilityInv, SecondPassEnded("add"),
                      phase = "allocated", before.phase = "allocated",
                      NEW i \in DOMAIN before.items
               PROVE  LET n == before.items[i].name
                          x == items[Len(items)]
                      IN  /\ assigned[n].probe >= a1[n].probe
                          /\ (IsExplicit(i) \/ (x.explicit = None /\ n < x.name))
                                => assigned[n] = a1[n]
    BY DEF AddingMovesForward
  <2>1. /\ range \in Ranges /\ before.items \in Seq(Items) /\ items \in Seq(Items)
        /\ Outcome(range, items, phase, assigned)
        /\ Outcome(range, before.items, before.phase, a1)
        /\ Added
    BY TwoOutcomes DEF StabilityInv, EditInv, SecondPassEnded
  <2>2. Allocation(range, Range(items), assigned) /\ Allocation(range, S, a1)
    BY <2>1 DEF Outcome
  <2>3. PICK x \in Items : items = Append(before.items, x)
    BY <2>1 DEF Added
  <2> DEFINE y == before.items[i]
  <2>4. /\ items[Len(items)] = x /\ items[i] = y /\ Range(items) = S \union {x}
    <3> DEFINE s == before.items
               k == Len(s)
    <3>1. s \in Seq(Items) /\ k \in Nat /\ DOMAIN s = 1..k /\ i \in 1..k
      BY <2>1
    <3> HIDE DEF s
    <3>2. /\ Append(s, x) \in Seq(Items) /\ Len(Append(s, x)) = k + 1
          /\ \A j \in 1..k : Append(s, x)[j] = s[j]
          /\ Append(s, x)[k + 1] = x
      <4> HIDE DEF Items
      <4> QED
        BY <3>1, AppendProperties
    <3>3. DOMAIN Append(s, x) = 1..(k + 1)
      BY <3>2
    <3> DEFINE t == Append(s, x)
    <3> HIDE DEF t, k
    <3>4. \A j \in 1..(k + 1) : j \in 1..k \/ j = k + 1
      BY <3>1 DEF k
    <3>5. 1..k \subseteq 1..(k + 1) /\ k + 1 \in 1..(k + 1)
      BY <3>1 DEF k
    <3>6. DOMAIN t = 1..(k + 1) /\ t[k + 1] = x /\ \A j \in 1..k : t[j] = s[j]
      BY <3>2, <3>3 DEF t
    <3>7. Range(t) = Range(s) \union {x}
      BY <3>1, <3>4, <3>5, <3>6 DEF Range
    <3>8. t[Len(t)] = x
      BY <3>2, <3>6 DEF t
    <3> QED
      BY <2>3, <3>1, <3>6, <3>7, <3>8 DEF s, t
  <2>5. S \subseteq Items /\ y \in S
    BY <2>1, ItemsInRange
  <2> HIDE DEF S, a1, y
  <2>6. Forward(x, y, a1[y.name], assigned[y.name])
    BY <2>1, <2>2, <2>4, <2>5, AddedAllocation
  <2> QED
    BY <2>4, <2>6 DEF Forward, IsExplicit, y
<1> QED
  BY <1>1, StabilityInvIsInvariant, PTL
=============================================================================
