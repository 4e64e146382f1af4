------------------------- MODULE AddressRangeProofs -------------------------
(***************************************************************************)
(* Proofs about the allocation pass, for every range, every sequence of    *)
(* items with distinct names and every value of the hash.                  *)
(*                                                                         *)
(* Before the pass: a set of items has at most one placement in a range.   *)
(* The inductive invariant Inv is the conjunction of the invariants that   *)
(* the runs check.  TypeOK is proved first, on its own; then Inv, one step *)
(* per action.                                                             *)
(***************************************************************************)
EXTENDS AddressRange, TLAPS, WellFoundedInduction, FiniteSetTheorems

\* Ranges and probing: probing never leaves the range and, after Size(r) probes,
\* has looked at every address of it.

\* A range has at least one address.
LEMMA SizeType ==
    ASSUME NEW r \in Ranges
    PROVE  Size(r) \in Nat \ {0}
BY DEF Ranges, Size

LEMMA ModRange ==
    ASSUME NEW a \in Nat, NEW n \in Nat \ {0}
    PROVE  a % n \in 0..(n - 1)
OBVIOUS

\* Probing never leaves the range.
LEMMA CandidateInRange ==
    ASSUME NEW r \in Ranges, NEW x \in Items, NEW p \in Nat
    PROVE  Candidate(r, x, p) \in Addresses(r)
<1> DEFINE n == Size(r)
           s == x.crc % n
<1>1. n \in Nat \ {0} /\ x.crc \in Nat
  BY SizeType DEF Items
<1>2. s \in 0..(n - 1)
  BY <1>1, ModRange
<1>3. (s + p) % n \in 0..(n - 1)
  BY <1>1, <1>2, ModRange
<1> QED
  BY <1>3 DEF Candidate, InitialSlot, Addresses, Ranges, Size

\* Size(r) probes, wherever they start, look at every address of the range.
LEMMA CandidatesCover ==
    ASSUME NEW r \in Ranges, NEW x \in Items, NEW a \in Addresses(r)
    PROVE  \E p \in 0..(Size(r) - 1) : Candidate(r, x, p) = a
<1> DEFINE n == Size(r)
           s == x.crc % n
           t == a - r.lo
           p == IF t >= s THEN t - s ELSE t - s + n
<1>1. n \in Nat \ {0} /\ x.crc \in Nat
  BY SizeType DEF Items
<1>2. s \in 0..(n - 1)
  BY <1>1, ModRange
<1>3. t \in 0..(n - 1)
  BY DEF Addresses, Ranges, Size
<1>4. p \in 0..(n - 1)
  BY <1>1, <1>2, <1>3
<1>5. s + p = t \/ s + p = t + n
  BY <1>1, <1>2, <1>3
<1>6. \A k \in Nat, m \in Nat \ {0} : k \in 0..(m - 1) => k % m = k /\ (k + m) % m = k
  OBVIOUS
<1>7. (s + p) % n = t
  BY <1>1, <1>3, <1>5, <1>6
<1>8. Candidate(r, x, p) = a
  BY <1>7 DEF Candidate, InitialSlot, Addresses, Ranges
<1> QED
  BY <1>4, <1>8

\* The least-number principle, for a set.
LEMMA NatHasLeast ==
    ASSUME NEW T, T \subseteq Nat, T # {}
    PROVE  \E x \in T : \A y \in T : x <= y
<1> DEFINE R == {ss \in Nat \X Nat : ss[1] < ss[2]}
<1>1. IsWellFoundedOn(R, Nat)
  BY NatLessThanWellFounded DEF OpToRel
<1>2. \A x, y \in Nat : <<x, y>> \notin R => y <= x
  OBVIOUS
<1> HIDE DEF R
<1>3. PICK x \in T : \A y \in T : <<y, x>> \notin R
  BY <1>1, WFMin
<1>4. \A y \in T : x <= y
  BY <1>2, <1>3
<1> QED
  BY <1>4

-----------------------------------------------------------------------------
\* The placement of a set of items: what a pass returns is a function of the set
\* of items and of their hashes.

\* If two placements agree on the items before x, then m2 cannot have x
\* further along its probe sequence than m1: whoever m2 puts on m1's address
\* of x stands there in m1 too.
LEMMA NoLaterProbe ==
    ASSUME NEW r \in Ranges, NEW S, S \subseteq Items, NEW m1, NEW m2,
           IsPlacement(r, S, m1), IsPlacement(r, S, m2),
           NEW x \in S, x.explicit = None,
           \A y \in S : y.name < x.name => m1[y.name] = m2[y.name],
           NEW p1 \in Nat, m1[x.name] = Candidate(r, x, p1),
           NEW p2 \in Nat, IsFirstFree(r, S, m2, x, p2)
    PROVE  ~(p1 < p2)
<1> SUFFICES ASSUME p1 < p2 PROVE FALSE
  OBVIOUS
<1>1. p1 \in 0..(p2 - 1)
  OBVIOUS
<1>2. PICK y \in S : HasPriority(y, x) /\ m2[y.name] = Candidate(r, x, p1)
  BY <1>1 DEF IsFirstFree
<1>3. m1[y.name] = m2[y.name]
  BY <1>2 DEF HasPriority, IsPlacement
<1>4. y = x
  BY <1>2, <1>3 DEF IsPlacement
<1>5. x.name \in Nat
  BY DEF Items
<1> QED
  BY <1>2, <1>4, <1>5 DEF HasPriority

\* A set of items has at most one placement in a range.
THEOREM UniquePlacement ==
    ASSUME NEW r \in Ranges, NEW S, S \subseteq Items,
           NEW m1 \in [{x.name : x \in S} -> Addresses(r)],
           NEW m2 \in [{x.name : x \in S} -> Addresses(r)],
           IsPlacement(r, S, m1), IsPlacement(r, S, m2)
    PROVE  m1 = m2
<1> DEFINE D == {n \in {x.name : x \in S} : m1[n] # m2[n]}
<1>1. D = {} => m1 = m2
  OBVIOUS
<1> SUFFICES ASSUME D # {} PROVE FALSE
  BY <1>1
<1>2. \A x \in S : x.name \in Nat
  BY DEF Items
<1>3. D \subseteq Nat
  BY <1>2
<1>4. PICK n \in D : \A k \in D : n <= k
  BY <1>3, NatHasLeast
<1>5. PICK x \in S : x.name = n
  OBVIOUS
<1>6. \A y \in S : y.name < x.name => m1[y.name] = m2[y.name]
  <2> SUFFICES ASSUME NEW y \in S, y.name < x.name, m1[y.name] # m2[y.name]
               PROVE  FALSE
    OBVIOUS
  <2>1. y.name \in D
    OBVIOUS
  <2> QED
    BY <1>2, <1>4, <1>5, <2>1
<1>7. x.explicit = None
  BY <1>5 DEF IsPlacement
<1>8. Size(r) \in Nat
  BY SizeType
<1>9. PICK p1 \in 0..(Size(r) - 1) : IsFirstFree(r, S, m1, x, p1)
  BY <1>7 DEF IsPlacement
<1>10. PICK p2 \in 0..(Size(r) - 1) : IsFirstFree(r, S, m2, x, p2)
  BY <1>7 DEF IsPlacement
<1>11. p1 \in Nat /\ p2 \in Nat
  BY <1>8
<1>12. m1[x.name] = Candidate(r, x, p1) /\ m2[x.name] = Candidate(r, x, p2)
  BY <1>9, <1>10 DEF IsFirstFree
<1>13. ~(p1 < p2)
  BY <1>6, <1>7, <1>10, <1>11, <1>12, NoLaterProbe
<1>14. \A y \in S : y.name < x.name => m2[y.name] = m1[y.name]
  BY <1>6
<1>15. ~(p2 < p1)
  BY <1>7, <1>9, <1>11, <1>12, <1>14, NoLaterProbe
<1>16. p1 = p2
  BY <1>11, <1>13, <1>15
<1> QED
  BY <1>5, <1>12, <1>16

-----------------------------------------------------------------------------
\* While automatic items wait, Current is the first of them by name.
LEMMA CurrentIsFirst ==
    ASSUME items \in Seq(Items), Waiting # {}
    PROVE  /\ Current \in Waiting
           /\ \A j \in Waiting : items[Current].name <= items[j].name
<1> DEFINE T == {items[i].name : i \in Waiting}
<1>0. \A i \in DOMAIN items : items[i] \in Items
  OBVIOUS
<1>1. \A i \in DOMAIN items : items[i].name \in Nat
  BY <1>0 DEF Items
<1>2. T \subseteq Nat /\ T # {}
  BY <1>1 DEF Waiting
<1>3. \E x \in T : \A y \in T : x <= y
  BY <1>2, NatHasLeast
<1>4. \E i \in Waiting : \A j \in Waiting : items[i].name <= items[j].name
  BY <1>3
<1> QED
  BY <1>4 DEF Current

-----------------------------------------------------------------------------
LEMMA InitTypeOK == Init => TypeOK
<1> SUFFICES ASSUME Init PROVE TypeOK
  OBVIOUS
<1>1. PICK r \in InputRanges, s \in InputItems : Begin(r, s)
  BY DEF Init
<1>2. r \in Ranges /\ s \in Seq(Items) /\ HasUniqueNames(s)
  BY InputRangesAssumption, InputItemsAssumption
<1>3. Size(r) \in Nat
  BY <1>2, SizeType
<1>4. DOMAIN << >> = {}
  OBVIOUS
<1> QED
  BY <1>1, <1>2, <1>3, <1>4 DEF Begin, TypeOK, HasUniqueNames

LEMMA NextTypeOK == TypeOK /\ [Next]_vars => TypeOK'
<1> SUFFICES ASSUME TypeOK, [Next]_vars PROVE TypeOK'
  OBVIOUS
<1> USE DEF TypeOK
<1>0. Size(range) \in Nat \ {0}
  BY SizeType
<1>1. \A i \in DOMAIN items : items[i] \in Items
  OBVIOUS
<1>2. CASE SkipAutomatic
  BY <1>2 DEF SkipAutomatic, InExplicitLoop, HasUniqueNames
<1>3. CASE RejectOutOfRange
  BY <1>3 DEF RejectOutOfRange, InExplicitLoop, HasUniqueNames, Ended, Errors
<1>4. CASE RejectCollision
  BY <1>4 DEF RejectCollision, InExplicitLoop, HasUniqueNames, Ended, Errors
<1>5. CASE ReserveExplicit
  <2>1. items[next].explicit \in Nat /\ next \in DOMAIN items
    BY <1>5, <1>1 DEF ReserveExplicit, InExplicitLoop, IsExplicit, Items
  <2>2. DOMAIN occupied' \subseteq Nat
    BY <1>5, <2>1 DEF ReserveExplicit, Assign, Insert
  <2>3. /\ DOMAIN assigned' = DOMAIN assigned \union {items[next].name}
        /\ \A n \in DOMAIN assigned' : assigned'[n] \in
              [address : Nat, source : {"explicit", "automatic"}, probe : Nat]
    BY <1>5, <2>1 DEF ReserveExplicit, Assign, Insert
  <2>4. /\ UNCHANGED <<range, items, probe, phase>>
        /\ next' = next + 1
    BY <1>5 DEF ReserveExplicit
  <2> QED
    BY <2>1, <2>2, <2>3, <2>4 DEF HasUniqueNames
<1>6. CASE BeginAutomatic
  BY <1>6 DEF BeginAutomatic, HasUniqueNames
<1>7. CASE ProbeOccupied
  BY <1>7, <1>0 DEF ProbeOccupied, InProbeLoop, HasUniqueNames
<1>8. CASE AssignAutomatic
  <2> DEFINE a == Candidate(range, items[Current], probe)
  <2>1. Current \in DOMAIN items
    BY <1>8, CurrentIsFirst DEF AssignAutomatic, InProbeLoop, Waiting
  <2>2. a \in Addresses(range)
    BY <2>1, <1>1, <1>0, CandidateInRange
  <2> HIDE DEF a
  <2>3. Assign(Current, a, "automatic", probe)
    BY <1>8 DEF AssignAutomatic, a
  <2>4. a \in Nat /\ DOMAIN occupied' \subseteq Nat
    BY <2>2, <2>3 DEF Assign, Insert, Addresses, Ranges
  <2>5. /\ DOMAIN assigned' = DOMAIN assigned \union {items[Current].name}
        /\ \A n \in DOMAIN assigned' : assigned'[n] \in
              [address : Nat, source : {"explicit", "automatic"}, probe : Nat]
    BY <1>0, <2>3, <2>4 DEF Assign, Insert
  <2>6. UNCHANGED <<range, items, next, phase>> /\ probe' = 0
    BY <1>8 DEF AssignAutomatic
  <2> QED
    BY <1>0, <2>1, <2>4, <2>5, <2>6 DEF HasUniqueNames
<1>9. CASE RejectExhausted
  BY <1>9 DEF RejectExhausted, HasUniqueNames, Ended, Errors
<1>10. CASE Finish
  BY <1>10 DEF Finish, HasUniqueNames, Ended
<1>11. CASE UNCHANGED vars
  BY <1>11 DEF vars, passVars, HasUniqueNames
<1> QED
  BY <1>2, <1>3, <1>4, <1>5, <1>6, <1>7, <1>8, <1>9, <1>10, <1>11 DEF Next

\* Every reachable state has the types of TypeOK.
THEOREM TypeCorrect == Spec => []TypeOK
<1>1. Init => TypeOK
  BY InitTypeOK
<1>2. TypeOK /\ [Next]_vars => TypeOK'
  BY NextTypeOK
<1> QED
  BY <1>1, <1>2, PTL DEF Spec

-----------------------------------------------------------------------------
Inv ==
    /\ TypeOK
    /\ NoSharedAddress
    /\ ExplicitPriority
    /\ ProbeChain
    /\ ExhaustedOnlyWhenFull
    /\ LoopInv

LEMMA InitInv == Init => Inv
<1> SUFFICES ASSUME Init PROVE Inv
  OBVIOUS
<1>1. PICK r \in InputRanges, s \in InputItems : Begin(r, s)
  BY DEF Init
<1>2. /\ DOMAIN occupied = {} /\ DOMAIN assigned = {}
      /\ phase = "explicit" /\ next = 1 /\ probe = 0
  BY <1>1 DEF Begin
<1>3. TypeOK
  BY InitTypeOK
<1>4. \A i \in DOMAIN items : ~(i < next)
  BY <1>2, <1>3 DEF TypeOK
<1> QED
  BY <1>2, <1>3, <1>4
     DEF Inv, NoSharedAddress, ExplicitPriority, ProbeChain, ExhaustedOnlyWhenFull, LoopInv

\* A step that moves no assignment keeps what is said about assignments.
LEMMA AssignmentsKept ==
    ASSUME NoSharedAddress, ExplicitPriority, ProbeChain,
           UNCHANGED <<range, items, occupied, assigned>>
    PROVE  NoSharedAddress' /\ ExplicitPriority' /\ ProbeChain'
BY DEF NoSharedAddress, ExplicitPriority, ProbeChain, IsExplicit, MayDisplace

\* Giving a free address to an item without one shares no address.
LEMMA AssignKeepsDistinct ==
    ASSUME NoSharedAddress, NEW i \in DOMAIN items, NEW a \in Addresses(range),
           NEW source, NEW p,
           a \notin DOMAIN occupied, items[i].name \notin DOMAIN assigned,
           Assign(i, a, source, p), UNCHANGED <<range, items>>
    PROVE  NoSharedAddress'
<1>1. /\ DOMAIN occupied' = DOMAIN occupied \union {a}
      /\ occupied'[a] = items[i].name
      /\ \A x \in DOMAIN occupied : occupied'[x] = occupied[x]
  BY DEF Assign, Insert
<1>2. /\ DOMAIN assigned' = DOMAIN assigned \union {items[i].name}
      /\ assigned'[items[i].name].address = a
      /\ \A n \in DOMAIN assigned : assigned'[n] = assigned[n]
  BY DEF Assign, Insert
<1> QED
  BY <1>1, <1>2 DEF NoSharedAddress

LEMMA SkipAutomaticInv ==
    ASSUME Inv, SkipAutomatic
    PROVE  NoSharedAddress' /\ ExplicitPriority' /\ ProbeChain'
           /\ ExhaustedOnlyWhenFull' /\ LoopInv'
<1>1. NoSharedAddress' /\ ExplicitPriority' /\ ProbeChain'
  BY AssignmentsKept DEF Inv, SkipAutomatic
<1>2. ExhaustedOnlyWhenFull'
  BY DEF Inv, ExhaustedOnlyWhenFull, SkipAutomatic, InExplicitLoop
<1>3. LoopInv'
  BY DEF Inv, TypeOK, LoopInv, SkipAutomatic, InExplicitLoop, IsExplicit
<1> QED
  BY <1>1, <1>2, <1>3

LEMMA RejectExplicitInv ==
    ASSUME Inv, RejectOutOfRange \/ RejectCollision
    PROVE  NoSharedAddress' /\ ExplicitPriority' /\ ProbeChain'
           /\ ExhaustedOnlyWhenFull' /\ LoopInv'
<1>1. /\ UNCHANGED <<range, items, next, probe, occupied, assigned>>
      /\ phase = "explicit" /\ phase' \in {"out_of_range", "collision"}
  BY DEF RejectOutOfRange, RejectCollision, InExplicitLoop
<1>2. NoSharedAddress' /\ ExplicitPriority' /\ ProbeChain'
  BY <1>1, AssignmentsKept DEF Inv
<1>3. ExhaustedOnlyWhenFull'
  BY <1>1 DEF ExhaustedOnlyWhenFull
<1>4. LoopInv'
  BY <1>1 DEF Inv, LoopInv, IsExplicit
<1> QED
  BY <1>2, <1>3, <1>4

LEMMA ReserveExplicitInv ==
    ASSUME Inv, ReserveExplicit
    PROVE  NoSharedAddress' /\ ExplicitPriority' /\ ProbeChain'
           /\ ExhaustedOnlyWhenFull' /\ LoopInv'
<1> DEFINE n == items[next].name
           a == items[next].explicit
<1>1. /\ phase = "explicit" /\ next \in DOMAIN items /\ IsExplicit(next)
      /\ a \in Addresses(range) /\ a \notin DOMAIN occupied
      /\ Assign(next, a, "explicit", 0) /\ next' = next + 1
      /\ UNCHANGED <<range, items, probe, phase>>
  BY DEF ReserveExplicit, InExplicitLoop
<1>2. /\ items \in Seq(Items) /\ HasUniqueNames(items) /\ next \in Nat
      /\ \A i \in DOMAIN items : i \in Nat
  BY DEF Inv, TypeOK
<1>3. \A i \in DOMAIN items : items[i].name \in DOMAIN assigned => IsExplicit(i) /\ i < next
  BY <1>1 DEF Inv, LoopInv
<1>4. n \notin DOMAIN assigned
  BY <1>1, <1>2, <1>3
<1>5. /\ DOMAIN assigned' = DOMAIN assigned \union {n}
      /\ assigned'[n].address = a
      /\ \A m \in DOMAIN assigned : assigned'[m] = assigned[m]
  BY <1>1, <1>4 DEF Assign, Insert
<1>6. \A i \in DOMAIN items : items[i].name \in DOMAIN assigned' => IsExplicit(i)' /\ i < next'
  BY <1>1, <1>2, <1>3, <1>5 DEF HasUniqueNames, IsExplicit
<1>7. NoSharedAddress'
  BY <1>1, <1>4, AssignKeepsDistinct DEF Inv
<1>8. ExplicitPriority'
  BY <1>1, <1>2, <1>5, <1>6 DEF Inv, ExplicitPriority, IsExplicit, HasUniqueNames
<1>9. ProbeChain'
  BY <1>1, <1>6 DEF ProbeChain, IsExplicit
<1>10. ExhaustedOnlyWhenFull'
  BY <1>1 DEF ExhaustedOnlyWhenFull
<1>11. \A i \in DOMAIN items : i < next' /\ IsExplicit(i) => items[i].name \in DOMAIN assigned'
  BY <1>1, <1>2, <1>5 DEF Inv, LoopInv
<1>12. LoopInv'
  BY <1>1, <1>6, <1>11 DEF Inv, LoopInv, IsExplicit
<1> QED
  BY <1>7, <1>8, <1>9, <1>10, <1>12

LEMMA BeginAutomaticInv ==
    ASSUME Inv, BeginAutomatic
    PROVE  NoSharedAddress' /\ ExplicitPriority' /\ ProbeChain'
           /\ ExhaustedOnlyWhenFull' /\ LoopInv'
<1>1. NoSharedAddress' /\ ExplicitPriority' /\ ProbeChain'
  BY AssignmentsKept DEF Inv, BeginAutomatic
<1>2. ExhaustedOnlyWhenFull'
  BY DEF BeginAutomatic, ExhaustedOnlyWhenFull
<1>3. LoopInv'
  BY DEF Inv, TypeOK, LoopInv, BeginAutomatic, IsExplicit
<1> QED
  BY <1>1, <1>2, <1>3

LEMMA ProbeOccupiedInv ==
    ASSUME Inv, ProbeOccupied
    PROVE  NoSharedAddress' /\ ExplicitPriority' /\ ProbeChain'
           /\ ExhaustedOnlyWhenFull' /\ LoopInv'
<1>1. /\ phase = "automatic" /\ Waiting # {}
      /\ Candidate(range, items[Current], probe) \in DOMAIN occupied
      /\ probe' = probe + 1
      /\ UNCHANGED <<range, items, next, occupied, assigned, phase>>
  BY DEF ProbeOccupied, InProbeLoop
<1>2. NoSharedAddress' /\ ExplicitPriority' /\ ProbeChain'
  BY <1>1, AssignmentsKept DEF Inv
<1>3. ExhaustedOnlyWhenFull'
  BY <1>1 DEF ExhaustedOnlyWhenFull
<1>4. Waiting' = Waiting /\ Current' = Current
  BY <1>1 DEF Waiting, Current, IsExplicit
<1>5. probe \in Nat
  BY DEF Inv, TypeOK, Size, Ranges
<1>6. \A p \in 0..(probe' - 1) : Candidate(range, items[Current], p) \in DOMAIN occupied
  BY <1>1, <1>5 DEF Inv, LoopInv
<1>7. LoopInv'
  BY <1>1, <1>4, <1>6 DEF Inv, LoopInv, IsExplicit
<1> QED
  BY <1>2, <1>3, <1>7

LEMMA AssignAutomaticInv ==
    ASSUME Inv, AssignAutomatic
    PROVE  NoSharedAddress' /\ ExplicitPriority' /\ ProbeChain'
           /\ ExhaustedOnlyWhenFull' /\ LoopInv'
<1> DEFINE c == Current
           n == items[c].name
           a == Candidate(range, items[c], probe)
<1>1. /\ phase = "automatic" /\ Waiting # {}
      /\ a \notin DOMAIN occupied
      /\ Assign(c, a, "automatic", probe)
      /\ probe < Size(range)
      /\ probe' = 0
      /\ UNCHANGED <<range, items, next, phase>>
  BY DEF AssignAutomatic, InProbeLoop
<1>2. /\ items \in Seq(Items) /\ HasUniqueNames(items) /\ range \in Ranges
      /\ next \in 1..(Len(items) + 1) /\ probe \in Nat
  BY DEF Inv, TypeOK, Size, Ranges
<1>3. \A i \in DOMAIN items : items[i] \in Items /\ i \in Nat
  BY <1>2
<1>4. \A i \in DOMAIN items : items[i].name \in Nat
  BY <1>3 DEF Items
<1>5. c \in Waiting /\ \A j \in Waiting : items[c].name <= items[j].name
  BY <1>1, <1>2, CurrentIsFirst
<1>6. c \in DOMAIN items /\ ~IsExplicit(c) /\ n \notin DOMAIN assigned
  BY <1>5 DEF Waiting
<1>7. a \in Addresses(range)
  BY <1>2, <1>3, <1>6, CandidateInRange
<1> HIDE DEF c
<1>8. /\ DOMAIN assigned' = DOMAIN assigned \union {n}
      /\ assigned'[n] = [address |-> a, source |-> "automatic", probe |-> probe]
      /\ \A m \in DOMAIN assigned : assigned'[m] = assigned[m]
  BY <1>1, <1>6 DEF Assign, Insert
<1> HIDE DEF a
<1>9. NoSharedAddress'
  BY <1>1, <1>6, <1>7, AssignKeepsDistinct DEF Inv
\* Every declared address is held before the first automatic placement.
<1>10. \A i \in DOMAIN items : IsExplicit(i) =>
          /\ items[i].name \in DOMAIN assigned
          /\ items[i].explicit \in DOMAIN occupied
  <2> SUFFICES ASSUME NEW i \in DOMAIN items, IsExplicit(i)
               PROVE  /\ items[i].name \in DOMAIN assigned
                      /\ items[i].explicit \in DOMAIN occupied
    OBVIOUS
  <2>1. next \notin DOMAIN items
    BY <1>1 DEF Inv, LoopInv
  <2>2. i < next
    BY <1>2, <2>1
  <2>3. items[i].name \in DOMAIN assigned
    BY <2>2 DEF Inv, LoopInv
  <2>4. assigned[items[i].name].address = items[i].explicit
    BY <2>3 DEF Inv, ExplicitPriority
  <2> QED
    BY <2>3, <2>4 DEF Inv, NoSharedAddress
<1>11. ExplicitPriority'
  <2> SUFFICES ASSUME NEW i \in DOMAIN items, NEW j \in DOMAIN items,
                      IsExplicit(i), items[j].name \in DOMAIN assigned'
               PROVE  IF i = j
                      THEN assigned'[items[j].name].address = items[i].explicit
                      ELSE assigned'[items[j].name].address # items[i].explicit
                           \/ IsExplicit(j)
    BY <1>1 DEF ExplicitPriority, IsExplicit
  <2>1. CASE j = c
    BY <2>1, <1>1, <1>6, <1>8, <1>10
  <2>2. CASE j # c
    <3>1. items[j].name \in DOMAIN assigned
      BY <2>2, <1>2, <1>6, <1>8 DEF HasUniqueNames
    <3> QED
      BY <3>1, <1>8 DEF Inv, ExplicitPriority
  <2> QED
    BY <2>1, <2>2
<1>12. ProbeChain'
  <2> DEFINE Chain(i) ==
        LET at == assigned'[items[i].name] IN
        /\ at.source = "automatic"
        /\ at.probe < Size(range)
        /\ at.address = Candidate(range, items[i], at.probe)
        /\ \A p \in 0..(at.probe - 1) : \E j \in DOMAIN items :
              /\ MayDisplace(i, j)
              /\ items[j].name \in DOMAIN assigned'
              /\ assigned'[items[j].name].address = Candidate(range, items[i], p)
  <2> SUFFICES ASSUME NEW i \in DOMAIN items,
                      ~IsExplicit(i), items[i].name \in DOMAIN assigned'
               PROVE  Chain(i)
    BY <1>1 DEF ProbeChain, IsExplicit, MayDisplace
  <2>1. CASE i = c
    <3>1. \A p \in 0..(probe - 1) : Candidate(range, items[c], p) \in DOMAIN occupied
      BY <1>1 DEF Inv, LoopInv, c
    <3>2. ASSUME NEW p \in 0..(probe - 1)
          PROVE  \E j \in DOMAIN items :
                    /\ MayDisplace(c, j)
                    /\ items[j].name \in DOMAIN assigned'
                    /\ assigned'[items[j].name].address = Candidate(range, items[c], p)
      <4> DEFINE b == Candidate(range, items[c], p)
      <4>1. /\ occupied[b] \in DOMAIN assigned
            /\ assigned[occupied[b]].address = b
        BY <3>1 DEF Inv, NoSharedAddress
      <4>2. PICK j \in DOMAIN items : items[j].name = occupied[b]
        BY <4>1 DEF Inv, TypeOK
      <4>3. IsExplicit(j) \/ items[j].name < items[c].name
        BY <4>1, <4>2, <1>6 DEF Inv, LoopInv
      <4> QED
        BY <4>1, <4>2, <4>3, <1>8 DEF MayDisplace
    <3> QED
      BY <1>1, <2>1, <3>2, <1>8 DEF a
  <2>2. CASE i # c
    <3>1. items[i].name \in DOMAIN assigned
      BY <2>2, <1>2, <1>6, <1>8 DEF HasUniqueNames
    <3> QED
      BY <3>1, <1>1, <1>8 DEF Inv, ProbeChain
  <2> QED
    BY <2>1, <2>2
<1>13. ExhaustedOnlyWhenFull'
  BY <1>1 DEF ExhaustedOnlyWhenFull
<1>14. ASSUME NEW i \in DOMAIN items, NEW j \in DOMAIN items,
              ~IsExplicit(i), items[i].name \in DOMAIN assigned',
              ~IsExplicit(j), items[j].name \notin DOMAIN assigned'
       PROVE  items[i].name < items[j].name
  <2>1. CASE items[i].name \in DOMAIN assigned
    BY <1>14, <2>1, <1>8 DEF Inv, LoopInv
  <2>2. CASE items[i].name \notin DOMAIN assigned
    <3>1. items[i].name = n
      BY <1>14, <2>2, <1>8
    <3>2. j \in Waiting /\ items[j].name # n
      BY <1>14, <1>8 DEF Waiting
    <3> QED
      BY <3>1, <3>2, <1>4, <1>5, <1>6
  <2> QED
    BY <2>1, <2>2
<1>15. LoopInv'
  BY <1>1, <1>8, <1>14 DEF Inv, LoopInv, IsExplicit
<1> QED
  BY <1>9, <1>11, <1>12, <1>13, <1>15

LEMMA RejectExhaustedInv ==
    ASSUME Inv, RejectExhausted
    PROVE  NoSharedAddress' /\ ExplicitPriority' /\ ProbeChain'
           /\ ExhaustedOnlyWhenFull' /\ LoopInv'
<1>1. /\ phase = "automatic" /\ phase' = "exhausted"
      /\ Waiting # {} /\ probe = Size(range)
      /\ UNCHANGED <<range, items, next, probe, occupied, assigned>>
  BY DEF RejectExhausted
<1>2. NoSharedAddress' /\ ExplicitPriority' /\ ProbeChain'
  BY <1>1, AssignmentsKept DEF Inv
<1>3. items[Current] \in Items
  BY <1>1, CurrentIsFirst DEF Inv, TypeOK, Waiting
<1>4. \A a \in Addresses(range) : a \in DOMAIN occupied
  BY <1>1, <1>3, CandidatesCover DEF Inv, TypeOK, LoopInv
<1>5. ExhaustedOnlyWhenFull'
  BY <1>1, <1>4 DEF ExhaustedOnlyWhenFull
<1>6. Waiting' = Waiting /\ Current' = Current
  BY <1>1 DEF Waiting, Current, IsExplicit
<1>7. LoopInv'
  BY <1>1, <1>6 DEF Inv, LoopInv, IsExplicit
<1> QED
  BY <1>2, <1>5, <1>7

LEMMA FinishInv ==
    ASSUME Inv, Finish
    PROVE  NoSharedAddress' /\ ExplicitPriority' /\ ProbeChain'
           /\ ExhaustedOnlyWhenFull' /\ LoopInv'
<1>1. /\ phase = "automatic" /\ phase' = "allocated" /\ Waiting = {}
      /\ UNCHANGED <<range, items, next, probe, occupied, assigned>>
  BY DEF Finish
<1>2. NoSharedAddress' /\ ExplicitPriority' /\ ProbeChain'
  BY <1>1, AssignmentsKept DEF Inv
<1>3. \A i \in DOMAIN items : i < next
  BY <1>1 DEF Inv, TypeOK, LoopInv
<1>4. \A i \in DOMAIN items : items[i].name \in DOMAIN assigned
  BY <1>1, <1>3 DEF Inv, LoopInv, Waiting
<1>5. ExhaustedOnlyWhenFull'
  BY <1>1, <1>4 DEF ExhaustedOnlyWhenFull
<1>6. LoopInv'
  BY <1>1 DEF Inv, LoopInv, IsExplicit
<1> QED
  BY <1>2, <1>5, <1>6

LEMMA NextInv == Inv /\ [Next]_vars => Inv'
<1> SUFFICES ASSUME Inv, [Next]_vars PROVE Inv'
  OBVIOUS
<1>1. TypeOK'
  BY NextTypeOK DEF Inv
<1>2. CASE UNCHANGED vars
  <2>1. NoSharedAddress' /\ ExplicitPriority' /\ ProbeChain'
    BY <1>2, AssignmentsKept DEF Inv, vars, passVars
  <2>2. Waiting' = Waiting /\ Current' = Current
    BY <1>2 DEF vars, passVars, Waiting, Current, IsExplicit
  <2>3. ExhaustedOnlyWhenFull' /\ LoopInv'
    BY <1>2, <2>2 DEF Inv, vars, passVars, ExhaustedOnlyWhenFull, LoopInv, IsExplicit
  <2> QED
    BY <1>1, <2>1, <2>3 DEF Inv
<1>3. CASE Next
  BY <1>1, <1>3, SkipAutomaticInv, RejectExplicitInv, ReserveExplicitInv,
     BeginAutomaticInv, ProbeOccupiedInv, AssignAutomaticInv, RejectExhaustedInv,
     FinishInv
     DEF Next, Inv
<1> QED
  BY <1>2, <1>3

LEMMA InvIsInvariant == Spec => []Inv
<1>1. Init => Inv
  BY InitInv
<1>2. Inv /\ [Next]_vars => Inv'
  BY NextInv
<1> QED
  BY <1>1, <1>2, PTL DEF Spec

\* No two items of a pass ever share an address, and none leaves the range.
THEOREM AddressesAreDistinct == Spec => []NoSharedAddress
<1>1. Inv => NoSharedAddress
  BY DEF Inv
<1> QED
  BY <1>1, InvIsInvariant, PTL

\* Declared addresses are never given to automatic items.
THEOREM ExplicitAddressesComeFirst == Spec => []ExplicitPriority
<1>1. Inv => ExplicitPriority
  BY DEF Inv
<1> QED
  BY <1>1, InvIsInvariant, PTL

\* The probe chain of every automatic item is justified.
THEOREM ProbeChainsAreJustified == Spec => []ProbeChain
<1>1. Inv => ProbeChain
  BY DEF Inv
<1> QED
  BY <1>1, InvIsInvariant, PTL

\* Exhaustion is reported only for a full range, success only when every item
\* has its address.
THEOREM ExhaustionIsJustified == Spec => []ExhaustedOnlyWhenFull
<1>1. Inv => ExhaustedOnlyWhenFull
  BY DEF Inv
<1> QED
  BY <1>1, InvIsInvariant, PTL

-----------------------------------------------------------------------------
\* A range that is full while an item waits holds fewer addresses than there
\* are items.
LEMMA FullRangeHasFewerAddresses ==
    ASSUME Inv, Waiting # {}, Addresses(range) \subseteq DOMAIN occupied
    PROVE  Len(items) > Size(range)
<1> DEFINE c == Current
           S == Addresses(range)
           T == DOMAIN items \ {c}
           f == [a \in S |-> CHOOSE i \in T : items[i].name = occupied[a]]
<1>1. /\ items \in Seq(Items) /\ range \in Ranges /\ Len(items) \in Nat
      /\ DOMAIN items = 1..Len(items)
  BY DEF Inv, TypeOK
<1>2. c \in DOMAIN items /\ items[c].name \notin DOMAIN assigned
  BY <1>1, CurrentIsFirst DEF Waiting
<1>3. IsFiniteSet(S) /\ Cardinality(S) = Size(range) /\ Size(range) \in Nat
  <2>1. range.lo \in Int /\ range.hi \in Int /\ range.lo <= range.hi
    BY <1>1 DEF Ranges
  <2>2. /\ IsFiniteSet(range.lo..range.hi)
        /\ Cardinality(range.lo..range.hi) = range.hi - range.lo + 1
    BY <2>1, FS_Interval
  <2> QED
    BY <2>1, <2>2 DEF Addresses, Size
<1>4. IsFiniteSet(T) /\ Cardinality(T) = Len(items) - 1
  <2>1. IsFiniteSet(1..Len(items)) /\ Cardinality(1..Len(items)) = Len(items)
    BY <1>1, FS_Interval
  <2>2. T = (1..Len(items)) \ {c} /\ c \in 1..Len(items)
    BY <1>1, <1>2
  <2> HIDE DEF c, T
  <2>3. /\ IsFiniteSet((1..Len(items)) \ {c})
        /\ Cardinality((1..Len(items)) \ {c}) = Len(items) - 1
    BY <2>1, <2>2, FS_RemoveElement
  <2> QED
    BY <2>2, <2>3
<1> HIDE DEF c
<1>5. \A a \in S : \E i \in T : items[i].name = occupied[a]
  <2> SUFFICES ASSUME NEW a \in S
               PROVE  \E i \in T : items[i].name = occupied[a]
    OBVIOUS
  <2>1. occupied[a] \in DOMAIN assigned
    BY DEF Inv, NoSharedAddress
  <2>2. PICK i \in DOMAIN items : items[i].name = occupied[a]
    BY <2>1 DEF Inv, TypeOK
  <2> QED
    BY <2>1, <2>2, <1>2
<1>6. \A a \in S : f[a] \in T /\ items[f[a]].name = occupied[a]
  BY <1>5
<1> HIDE DEF f
<1>7. f \in [S -> T]
  BY <1>6 DEF f
<1>8. \A a, b \in S : f[a] = f[b] => a = b
  BY <1>6 DEF Inv, NoSharedAddress
<1> HIDE DEF S, T
<1>9. ~(Cardinality(T) < Cardinality(S))
  BY <1>3, <1>4, <1>7, <1>8, FS_PigeonHole
<1> QED
  BY <1>1, <1>3, <1>4, <1>9

\* The definitions that both specifications take from AddressSpace agree.
LEMMA SameSpace ==
    /\ \A r : Abstract!Size(r) = Size(r) /\ Abstract!Addresses(r) = Addresses(r)
    /\ \A r, x, p : Abstract!Candidate(r, x, p) = Candidate(r, x, p)
    /\ \A s : Abstract!Range(s) = Range(s)
BY DEF Size, Addresses, Candidate, InitialSlot, Range, Abstract!Size,
       Abstract!Addresses, Abstract!Candidate, Abstract!InitialSlot, Abstract!Range

LEMMA SamePlacement ==
    ASSUME NEW r, NEW S, NEW m
    PROVE  Abstract!IsPlacement(r, S, m) <=> IsPlacement(r, S, m)
<1>1. \A y, x : Abstract!HasPriority(y, x) <=> HasPriority(y, x)
  BY DEF HasPriority, Abstract!HasPriority
<1>2. \A x, p : Abstract!IsFirstFree(r, S, m, x, p) <=> IsFirstFree(r, S, m, x, p)
  BY <1>1, SameSpace DEF IsFirstFree, Abstract!IsFirstFree
<1> QED
  BY <1>2, SameSpace DEF IsPlacement, Abstract!IsPlacement

\* What a successful pass has assigned is a placement of the set of its items.
LEMMA EndedPassIsPlacement ==
    ASSUME Inv, phase \in {"automatic", "allocated"},
           phase = "automatic" => Waiting = {}
    PROVE  LET m == [n \in DOMAIN assigned |-> assigned[n].address] IN
           /\ m \in [{x.name : x \in Range(items)} -> Addresses(range)]
           /\ IsPlacement(range, Range(items), m)
<1> DEFINE m == [n \in DOMAIN assigned |-> assigned[n].address]
           S == Range(items)
<1>1. /\ items \in Seq(Items) /\ HasUniqueNames(items) /\ range \in Ranges
      /\ DOMAIN assigned \subseteq {items[i].name : i \in DOMAIN items}
      /\ \A i \in DOMAIN items : i \in Nat
  BY DEF Inv, TypeOK
<1>2. \A i \in DOMAIN items : items[i].name \in DOMAIN assigned
  <2>1. \A i \in DOMAIN items : i < next
    BY DEF Inv, TypeOK, LoopInv
  <2>2. CASE phase = "automatic"
    BY <2>1, <2>2 DEF Inv, LoopInv, Waiting
  <2>3. CASE phase = "allocated"
    BY <2>3 DEF Inv, ExhaustedOnlyWhenFull
  <2> QED
    BY <2>2, <2>3
<1>3. /\ \A i \in DOMAIN items : items[i] \in S
      /\ \A x \in S : \E i \in DOMAIN items : x = items[i]
  BY DEF Range
<1> HIDE DEF S
<1>4. DOMAIN assigned = {x.name : x \in S}
  <2>1. ASSUME NEW n \in DOMAIN assigned PROVE \E x \in S : n = x.name
    BY <1>1, <1>3
  <2>2. ASSUME NEW x \in S PROVE x.name \in DOMAIN assigned
    BY <1>2, <1>3
  <2> QED
    BY <2>1, <2>2
<1>5. \A x \in S : m[x.name] = assigned[x.name].address /\ m[x.name] \in Addresses(range)
  BY <1>4 DEF Inv, NoSharedAddress
<1>6. \A x, y \in S : m[x.name] = m[y.name] => x = y
  <2> SUFFICES ASSUME NEW x \in S, NEW y \in S, m[x.name] = m[y.name]
               PROVE  x = y
    OBVIOUS
  <2>1. x.name = y.name
    BY <1>4 DEF Inv, NoSharedAddress
  <2> QED
    BY <1>1, <1>3, <2>1 DEF HasUniqueNames
<1>7. \A x \in S : x.explicit # None => m[x.name] = x.explicit
  BY <1>2, <1>3 DEF Inv, ExplicitPriority, IsExplicit
<1>8. ASSUME NEW x \in S, x.explicit = None
      PROVE  \E p \in 0..(Size(range) - 1) : IsFirstFree(range, S, m, x, p)
  <2>1. PICK i \in DOMAIN items : x = items[i]
    BY <1>3
  <2> DEFINE at == assigned[x.name]
  <2>2. /\ at.address = Candidate(range, x, at.probe)
        /\ \A p \in 0..(at.probe - 1) : \E j \in DOMAIN items :
              /\ MayDisplace(i, j)
              /\ items[j].name \in DOMAIN assigned
              /\ assigned[items[j].name].address = Candidate(range, x, p)
    BY <1>2, <1>8, <2>1 DEF Inv, ProbeChain, IsExplicit
  <2>3. \A q \in 0..(at.probe - 1) : \E y \in S :
           HasPriority(y, x) /\ m[y.name] = Candidate(range, x, q)
    BY <1>3, <2>1, <2>2 DEF MayDisplace, IsExplicit, HasPriority
  <2>4. at.probe \in 0..(Size(range) - 1)
    <3>1. at.probe \in Nat
      BY <1>2, <2>1 DEF Inv, TypeOK
    <3>2. at.probe < Size(range)
      BY <1>2, <1>8, <2>1 DEF Inv, ProbeChain, IsExplicit
    <3>3. Size(range) \in Nat
      BY <1>1, SizeType
    <3> QED
      BY <3>1, <3>2, <3>3
  <2>5. IsFirstFree(range, S, m, x, at.probe)
    <3>1. m[x.name] = Candidate(range, x, at.probe)
      BY <1>5, <2>2
    <3> HIDE DEF m, at
    <3> QED
      BY <2>3, <3>1 DEF IsFirstFree
  <2> QED
    BY <2>4, <2>5
<1>9. m \in [{x.name : x \in S} -> Addresses(range)]
  BY <1>4, <1>5
<1>10. DOMAIN m = {x.name : x \in S}
  BY <1>4
<1> HIDE DEF m
<1>11. IsPlacement(range, S, m)
  BY <1>5, <1>6, <1>7, <1>8, <1>10 DEF IsPlacement
<1> QED
  BY <1>9, <1>11 DEF m, S

-----------------------------------------------------------------------------
LEMMA InitRefines == Init => Abstract!Init
<1> SUFFICES ASSUME Init PROVE Abstract!Init
  OBVIOUS
<1>1. range \in InputRanges /\ items \in InputItems /\ phase = "explicit"
  BY DEF Init, Begin
<1>2. PassResult = [kind |-> "pending", map |-> << >>]
  BY <1>1 DEF PassResult, Ended, Errors
<1> QED
  BY <1>1, <1>2 DEF Abstract!Init, Abstract!Pending

\* A refusal of the pass is a refusal of the specification it implements.
LEMMA Refuses ==
    ASSUME NEW e \in Errors, phase \in {"explicit", "automatic"}, phase' = e,
           UNCHANGED <<range, items>>
    PROVE  Abstract!Answer(Abstract!Refused(e))
<1>1. PassResult = [kind |-> "pending", map |-> << >>]
  BY DEF PassResult, Ended, Errors
<1>2. PassResult' = [kind |-> e, map |-> << >>]
  BY DEF PassResult, Ended, Errors
<1> QED
  BY <1>1, <1>2 DEF Abstract!Answer, Abstract!Pending, Abstract!Refused

LEMMA NextRefines == Inv /\ [Next]_vars => [Abstract!Next]_(Abstract!vars)
<1> SUFFICES ASSUME Inv, [Next]_vars PROVE [Abstract!Next]_(Abstract!vars)
  OBVIOUS
<1>0. items \in Seq(Items) /\ \A i \in DOMAIN items : items[i] \in Range(items)
  BY DEF Inv, TypeOK, Range
<1>1. CASE \/ SkipAutomatic \/ ReserveExplicit \/ BeginAutomatic
           \/ ProbeOccupied \/ AssignAutomatic \/ UNCHANGED vars
  <2>1. \/ UNCHANGED <<range, items, assigned, phase>>
        \/ /\ UNCHANGED <<range, items>>
           /\ phase \in {"explicit", "automatic"}
           /\ phase' \in {"explicit", "automatic"}
    BY <1>1 DEF SkipAutomatic, ReserveExplicit, BeginAutomatic, ProbeOccupied,
       AssignAutomatic, InExplicitLoop, InProbeLoop, vars, passVars
  <2>2. UNCHANGED <<range, items, PassResult>>
    BY <2>1 DEF PassResult, Ended, Errors
  <2> QED
    BY <2>2 DEF Abstract!vars
<1>2. CASE RejectOutOfRange
  <2>1. /\ Abstract!Answer(Abstract!Refused("out_of_range"))
        /\ next \in DOMAIN items /\ items[next].explicit # None
        /\ items[next].explicit \notin Addresses(range)
    BY <1>2, Refuses DEF RejectOutOfRange, InExplicitLoop, IsExplicit, Errors
  <2> QED
    BY <1>0, <2>1, SameSpace DEF Abstract!Next, Abstract!RejectOutOfRange
<1>3. CASE RejectCollision
  <2> DEFINE a == items[next].explicit
  <2>1. /\ Abstract!Answer(Abstract!Refused("collision"))
        /\ phase = "explicit" /\ next \in DOMAIN items /\ a # None /\ a \in DOMAIN occupied
    BY <1>3, Refuses DEF RejectCollision, InExplicitLoop, IsExplicit, Errors
  <2>2. occupied[a] \in DOMAIN assigned /\ assigned[occupied[a]].address = a
    BY <2>1 DEF Inv, NoSharedAddress
  <2>3. PICK j \in DOMAIN items : items[j].name = occupied[a]
    BY <2>2 DEF Inv, TypeOK
  <2>4. IsExplicit(j) /\ j < next
    BY <2>1, <2>2, <2>3 DEF Inv, LoopInv
  <2>5. items[j].explicit = a
    BY <2>2, <2>3, <2>4 DEF Inv, ExplicitPriority
  <2>6. items[j] # items[next]
    BY <2>1, <2>4 DEF Inv, TypeOK, HasUniqueNames
  <2> QED
    BY <1>0, <2>1, <2>5, <2>6, SameSpace DEF Abstract!Next, Abstract!RejectCollision
<1>4. CASE RejectExhausted
  <2>1. Abstract!Answer(Abstract!Refused("exhausted"))
    BY <1>4, Refuses DEF RejectExhausted, Errors
  <2>2. items[Current] \in Items /\ Waiting # {}
    BY <1>0, <1>4, CurrentIsFirst DEF RejectExhausted, Waiting
  <2>3. Addresses(range) \subseteq DOMAIN occupied
    BY <1>4, <2>2, CandidatesCover DEF RejectExhausted, Inv, TypeOK, LoopInv
  <2>4. Len(items) > Size(range)
    BY <2>2, <2>3, FullRangeHasFewerAddresses
  <2> QED
    BY <2>1, <2>4, SameSpace DEF Abstract!Next, Abstract!RejectExhausted
<1>5. CASE Finish
  <2> DEFINE m == [n \in DOMAIN assigned |-> assigned[n].address]
  <2>1. /\ phase = "automatic" /\ Waiting = {} /\ phase' = "allocated"
        /\ UNCHANGED <<range, items, assigned>>
    BY <1>5 DEF Finish
  <2>2. /\ m \in [{x.name : x \in Range(items)} -> Addresses(range)]
        /\ IsPlacement(range, Range(items), m)
    BY <2>1, EndedPassIsPlacement
  <2>3. PassResult = Abstract!Pending /\ PassResult' = [kind |-> "allocated", map |-> m]
    BY <2>1 DEF PassResult, Ended, Errors, Abstract!Pending
  <2> HIDE DEF m
  <2>4. Abstract!Answer([kind |-> "allocated", map |-> m])
    BY <2>1, <2>3 DEF Abstract!Answer
  <2>5. Abstract!Allocate
    BY <2>2, <2>4, SameSpace, SamePlacement DEF Abstract!Allocate
  <2> QED
    BY <2>5 DEF Abstract!Next
<1> QED
  BY <1>1, <1>2, <1>3, <1>4, <1>5 DEF Next

\* Whatever the range, the items and the hashes, a pass returns the placement
\* that AddressMap describes or refuses for a reason AddressMap accepts.
THEOREM PassImplementsAddressMap == Spec => ImplementsAddressMap
<1>1. Init => Abstract!Init
  BY InitRefines
<1>2. Inv /\ [Next]_vars => [Abstract!Next]_(Abstract!vars)
  BY NextRefines
<1> QED
  BY <1>1, <1>2, InvIsInvariant, PTL DEF Spec, ImplementsAddressMap, Abstract!Spec

-----------------------------------------------------------------------------
\* What a pass returns is the only placement of its items, for every range,
\* every hash and every order of the input.
THEOREM ResultsAreUnique == Spec => []ResultIsTheOnlyPlacement
<1>1. Inv => ResultIsTheOnlyPlacement
  <2> DEFINE S == Range(items)
             found == [n \in DOMAIN assigned |-> assigned[n].address]
  <2> SUFFICES ASSUME Inv, phase = "allocated",
                      NEW m \in [{x.name : x \in S} -> Addresses(range)],
                      IsPlacement(range, S, m)
               PROVE  m = PassResult.map
    BY DEF ResultIsTheOnlyPlacement
  <2>1. PassResult.map = found
    BY DEF PassResult
  <2>2. range \in Ranges /\ S \subseteq Items
    BY DEF Inv, TypeOK, Range
  <2>3. /\ found \in [{x.name : x \in S} -> Addresses(range)]
        /\ IsPlacement(range, S, found)
    BY EndedPassIsPlacement
  <2> HIDE DEF found, S
  <2> QED
    BY <2>1, <2>2, <2>3, UniquePlacement
<1> QED
  BY <1>1, InvIsInvariant, PTL DEF Spec
-----------------------------------------------------------------------------
\* What a pass assigns, source and probe distance included, and the outcome of a
\* pass that has ended, for those who make passes.

AddressesOf(as) == [n \in DOMAIN as |-> as[n].address]

IsFunction(as) == as = [n \in DOMAIN as |-> as[n]]

Explicitly(x, e) == e = [address |-> x.explicit, source |-> "explicit", probe |-> 0]

\* Entry e of an automatic item x: where it stands, and what it stepped over.
Automatically(r, S, as, x, e) ==
    /\ e = [address |-> e.address, source |-> "automatic", probe |-> e.probe]
    /\ e.probe \in Nat
    /\ e.probe < Size(r)
    /\ e.address = Candidate(r, x, e.probe)
    /\ \A q \in 0..(e.probe - 1) : \E y \in S :
          HasPriority(y, x) /\ as[y.name].address = Candidate(r, x, q)

\* What a pass over the items S assigns, source and probe distance included.
Allocation(r, S, as) ==
    /\ IsFunction(as)
    /\ DOMAIN as = {x.name : x \in S}
    /\ \A x \in S : as[x.name].address \in Addresses(r)
    /\ \A x, y \in S : as[x.name].address = as[y.name].address => x = y
    /\ \A x \in S : x.explicit # None => Explicitly(x, as[x.name])
    /\ \A x \in S : x.explicit = None => Automatically(r, S, as, x, as[x.name])

LEMMA ExplicitEntry ==
    ASSUME NEW x, NEW e, Explicitly(x, e)
    PROVE  e.address = x.explicit /\ e.probe = 0
BY DEF Explicitly

LEMMA AllocationIsPlacement ==
    ASSUME NEW r \in Ranges, NEW S, S \subseteq Items, NEW as, Allocation(r, S, as)
    PROVE  /\ AddressesOf(as) \in [{x.name : x \in S} -> Addresses(r)]
           /\ IsPlacement(r, S, AddressesOf(as))
<1> DEFINE m == AddressesOf(as)
<1>0. m = [n \in {x.name : x \in S} |-> as[n].address]
  BY DEF Allocation, AddressesOf
<1>1. /\ DOMAIN m = {x.name : x \in S}
      /\ \A x \in S : m[x.name] = as[x.name].address
      /\ m \in [{x.name : x \in S} -> Addresses(r)]
  <2> HIDE DEF m
  <2>1. \A x \in S : as[x.name].address \in Addresses(r)
    BY DEF Allocation
  <2> QED
    BY <1>0, <2>1
<1> HIDE DEF m
<1>2. /\ \A x \in S : m[x.name] \in Addresses(r)
      /\ \A x, y \in S : m[x.name] = m[y.name] => x = y
      /\ \A x \in S : x.explicit # None => m[x.name] = x.explicit
  BY <1>1, ExplicitEntry DEF Allocation
<1>3. ASSUME NEW x \in S, x.explicit = None
      PROVE  \E p \in 0..(Size(r) - 1) : IsFirstFree(r, S, m, x, p)
  <2> DEFINE p == as[x.name].probe
  <2>1. Automatically(r, S, as, x, as[x.name])
    BY <1>3 DEF Allocation
  <2>2. /\ p \in Nat /\ p < Size(r)
        /\ m[x.name] = Candidate(r, x, p)
        /\ \A q \in 0..(p - 1) : \E y \in S :
              HasPriority(y, x) /\ m[y.name] = Candidate(r, x, q)
    BY <1>1, <2>1 DEF Automatically
  <2>3. Size(r) \in Nat
    BY SizeType
  <2> HIDE DEF p
  <2>4. p \in 0..(Size(r) - 1) /\ IsFirstFree(r, S, m, x, p)
    BY <2>2, <2>3 DEF IsFirstFree
  <2> QED
    BY <2>4
<1>4. IsPlacement(r, S, m)
  BY <1>1, <1>2, <1>3 DEF IsPlacement
<1> QED
  BY <1>1, <1>4 DEF m

\* More items than addresses have no placement.
LEMMA TooManyItems ==
    ASSUME NEW r \in Ranges, NEW s \in Seq(Items), HasUniqueNames(s),
           Len(s) > Size(r), NEW m, IsPlacement(r, Range(s), m)
    PROVE  FALSE
<1> DEFINE f == [i \in 1..Len(s) |-> m[s[i].name]]
           A == Addresses(r)
           k == Len(s)
<1>1. k \in Nat /\ DOMAIN s = 1..k /\ \A i \in 1..k : s[i] \in Range(s)
  BY DEF Range
<1>2. f \in [1..k -> A]
  BY <1>1 DEF IsPlacement
<1>3. \A i, j \in 1..k : f[i] = f[j] => i = j
  BY <1>1 DEF IsPlacement, HasUniqueNames
<1>4. IsFiniteSet(A) /\ Cardinality(A) = Size(r)
  <2>1. r.lo \in Int /\ r.hi \in Int /\ r.lo <= r.hi
    BY DEF Ranges
  <2>2. /\ IsFiniteSet(r.lo..r.hi)
        /\ Cardinality(r.lo..r.hi) = r.hi - r.lo + 1
    BY <2>1, FS_Interval
  <2> QED
    BY <2>1, <2>2 DEF Addresses, Size
<1>5. IsFiniteSet(1..k) /\ Cardinality(1..k) = k
  BY <1>1, FS_Interval
<1>6. Cardinality(A) < Cardinality(1..k)
  BY <1>1, <1>4, <1>5, SizeType
<1> HIDE DEF f, A, k
<1>7. \E i, j \in 1..k : i # j /\ f[i] = f[j]
  BY <1>2, <1>4, <1>5, <1>6, FS_PigeonHole
<1> QED
  BY <1>3, <1>7

-----------------------------------------------------------------------------
\* What an ended pass over the items s means: the allocation of the set of its
\* items, or a set that has none.
Outcome(r, s, ph, as) ==
    /\ ph \in Ended
    /\ ph = "allocated" => Allocation(r, Range(s), as)
    /\ ph \in Errors => \A m : ~IsPlacement(r, Range(s), m)

\* Entries of explicit items are exact, which Inv says of their addresses only.
EntriesInv ==
    /\ IsFunction(assigned)
    /\ \A i \in DOMAIN items :
          (IsExplicit(i) /\ items[i].name \in DOMAIN assigned) =>
              Explicitly(items[i], assigned[items[i].name])

\* The reason for which a pass has refused its items.
RefusalInv ==
    /\ phase = "out_of_range" =>
          \E i \in DOMAIN items : IsExplicit(i) /\ items[i].explicit \notin Addresses(range)
    /\ phase = "collision" =>
          \E i, j \in DOMAIN items :
              i # j /\ IsExplicit(i) /\ items[i].explicit = items[j].explicit
    /\ phase = "exhausted" => Len(items) > Size(range)

PassInv == Inv /\ EntriesInv /\ RefusalInv

LEMMA InsertIsFunction ==
    ASSUME NEW d, NEW k, NEW v
    PROVE  IsFunction(Insert(d, k, v))
<1> DEFINE D == DOMAIN d \union {k}
           g(x) == IF x = k THEN v ELSE d[x]
           e == [x \in D |-> g(x)]
<1>1. Insert(d, k, v) = e
  BY DEF Insert
<1> HIDE DEF D, g
<1>2. e = [x \in DOMAIN e |-> e[x]]
  OBVIOUS
<1> QED
  BY <1>1, <1>2 DEF IsFunction

\* A pass, the first or another one, begins in an inductive state.
LEMMA InitPassInv == Init => PassInv
<1> SUFFICES ASSUME Init PROVE PassInv
  OBVIOUS
<1>1. PICK r \in InputRanges, s \in InputItems : Begin(r, s)
  BY DEF Init
<1>2. assigned = << >> /\ phase = "explicit"
  BY <1>1 DEF Begin
<1>3. DOMAIN assigned = {} /\ IsFunction(assigned)
  BY <1>2 DEF IsFunction
<1> QED
  BY <1>2, <1>3, InitInv DEF PassInv, EntriesInv, RefusalInv

LEMMA CallPassInv ==
    ASSUME NEW r \in Ranges, NEW s \in Seq(Items), HasUniqueNames(s), Call(r, s)
    PROVE  PassInv'
<1>1. /\ range' = r /\ items' = s /\ next' = 1 /\ probe' = 0
      /\ occupied' = << >> /\ assigned' = << >> /\ phase' = "explicit"
  BY DEF Call
<1>2. DOMAIN << >> = {} /\ << >> = [x \in DOMAIN << >> |-> << >>[x]]
  OBVIOUS
<1>3. DOMAIN occupied' = {} /\ DOMAIN assigned' = {} /\ IsFunction(assigned)'
  BY <1>1, <1>2 DEF IsFunction
<1>4. Size(r) \in Nat /\ Len(s) \in Nat
  BY SizeType
<1>5. TypeOK'
  BY <1>1, <1>3, <1>4 DEF TypeOK, HasUniqueNames
<1>6. \A i \in DOMAIN items' : ~(i < next')
  BY <1>1
<1>7. Inv'
  BY <1>1, <1>3, <1>5, <1>6
     DEF Inv, NoSharedAddress, ExplicitPriority, ProbeChain, ExhaustedOnlyWhenFull, LoopInv
<1> QED
  BY <1>1, <1>3, <1>7 DEF PassInv, EntriesInv, RefusalInv

LEMMA NextPassInv == PassInv /\ Next => PassInv'
<1> SUFFICES ASSUME PassInv, Next PROVE PassInv'
  OBVIOUS
<1>0. Inv'
  BY NextInv DEF PassInv
<1>1. /\ items \in Seq(Items) /\ HasUniqueNames(items) /\ range \in Ranges
      /\ \A i \in DOMAIN items : i \in Nat /\ items[i] \in Items
  BY DEF PassInv, Inv, TypeOK
<1>2. CASE SkipAutomatic \/ BeginAutomatic \/ ProbeOccupied \/ Finish
  <2>1. /\ UNCHANGED <<range, items, assigned>>
        /\ phase' \notin Errors
    BY <1>2 DEF SkipAutomatic, BeginAutomatic, ProbeOccupied, Finish, InExplicitLoop,
       InProbeLoop, Errors
  <2>2. EntriesInv'
    BY <2>1 DEF PassInv, EntriesInv, IsExplicit, IsFunction
  <2>3. RefusalInv'
    BY <2>1 DEF RefusalInv, Errors
  <2> QED
    BY <1>0, <2>2, <2>3 DEF PassInv
<1>3. CASE ReserveExplicit
  <2> DEFINE n == items[next].name
             e == [address |-> items[next].explicit, source |-> "explicit", probe |-> 0]
  <2>1. /\ next \in DOMAIN items /\ IsExplicit(next) /\ phase = "explicit"
        /\ assigned' = Insert(assigned, n, e)
        /\ UNCHANGED <<range, items, phase>>
    BY <1>3 DEF ReserveExplicit, InExplicitLoop, Assign
  <2>2. Explicitly(items[next], e)
    BY DEF Explicitly
  <2> HIDE DEF e, n
  <2>3. /\ DOMAIN assigned' = DOMAIN assigned \union {n}
        /\ assigned'[n] = e
        /\ \A k \in DOMAIN assigned : k # n => assigned'[k] = assigned[k]
    BY <2>1 DEF Insert
  <2>4. IsFunction(assigned')
    BY <2>1, InsertIsFunction
  <2> USE DEF n
  <2>5. ASSUME NEW i \in DOMAIN items, IsExplicit(i), items[i].name \in DOMAIN assigned'
        PROVE  Explicitly(items[i], assigned'[items[i].name])
    <3>1. CASE i = next
      BY <2>2, <2>3, <3>1
    <3>2. CASE i # next
      <4>1. items[i].name # n
        BY <1>1, <2>1, <3>2 DEF HasUniqueNames
      <4> QED
        BY <2>3, <2>5, <4>1 DEF PassInv, EntriesInv
    <3> QED
      BY <3>1, <3>2
  <2>6. EntriesInv'
    BY <2>1, <2>3, <2>5, <2>4 DEF EntriesInv, IsExplicit
  <2>7. RefusalInv'
    BY <2>1 DEF RefusalInv
  <2> QED
    BY <1>0, <2>6, <2>7 DEF PassInv
<1>4. CASE AssignAutomatic
  <2> DEFINE c == Current
             n == items[c].name
             e == [address |-> Candidate(range, items[c], probe),
                   source |-> "automatic", probe |-> probe]
  <2>1. /\ Waiting # {} /\ phase = "automatic"
        /\ assigned' = Insert(assigned, n, e)
        /\ UNCHANGED <<range, items, phase>>
    BY <1>4 DEF AssignAutomatic, InProbeLoop, Assign
  <2>2. c \in DOMAIN items /\ ~IsExplicit(c)
    BY <1>1, <2>1, CurrentIsFirst DEF Waiting
  <2> HIDE DEF e, c, n
  <2>3. /\ DOMAIN assigned' = DOMAIN assigned \union {n}
        /\ \A k \in DOMAIN assigned : k # n => assigned'[k] = assigned[k]
    BY <2>1 DEF Insert
  <2>4. IsFunction(assigned')
    BY <2>1, InsertIsFunction
  <2> USE DEF n
  <2>5. ASSUME NEW i \in DOMAIN items, IsExplicit(i), items[i].name \in DOMAIN assigned'
        PROVE  Explicitly(items[i], assigned'[items[i].name])
    <3>1. items[i].name # n
      BY <1>1, <2>2, <2>5 DEF HasUniqueNames
    <3> QED
      BY <2>3, <2>5, <3>1 DEF PassInv, EntriesInv
  <2>6. EntriesInv'
    BY <2>1, <2>3, <2>5, <2>4 DEF EntriesInv, IsExplicit
  <2>7. RefusalInv'
    BY <2>1 DEF RefusalInv
  <2> QED
    BY <1>0, <2>6, <2>7 DEF PassInv
<1>5. CASE RejectOutOfRange \/ RejectCollision \/ RejectExhausted
  <2>1. UNCHANGED <<range, items, assigned>>
    BY <1>5 DEF RejectOutOfRange, RejectCollision, RejectExhausted
  <2>2. EntriesInv'
    BY <2>1 DEF PassInv, EntriesInv, IsExplicit, IsFunction
  <2>3. CASE RejectOutOfRange
    <3>1. /\ next \in DOMAIN items /\ IsExplicit(next) /\ phase' = "out_of_range"
          /\ items[next].explicit \notin Addresses(range)
      BY <2>3 DEF RejectOutOfRange, InExplicitLoop
    <3>2. RefusalInv'
      BY <2>1, <3>1 DEF RefusalInv, IsExplicit
    <3> QED
      BY <1>0, <2>2, <3>2 DEF PassInv
  <2>4. CASE RejectCollision
    <3> DEFINE a == items[next].explicit
    <3>1. /\ phase = "explicit" /\ phase' = "collision"
          /\ next \in DOMAIN items /\ IsExplicit(next) /\ a \in DOMAIN occupied
      BY <2>4 DEF RejectCollision, InExplicitLoop
    <3>2. occupied[a] \in DOMAIN assigned /\ assigned[occupied[a]].address = a
      BY <3>1 DEF PassInv, Inv, NoSharedAddress
    <3>3. PICK j \in DOMAIN items : items[j].name = occupied[a]
      BY <3>2 DEF PassInv, Inv, TypeOK
    <3>4. IsExplicit(j) /\ j < next
      BY <3>1, <3>2, <3>3 DEF PassInv, Inv, LoopInv
    <3>5. items[j].explicit = a
      BY <3>2, <3>3, <3>4, ExplicitEntry DEF PassInv, EntriesInv
    <3>6. j # next
      BY <1>1, <3>1, <3>4
    <3>7. RefusalInv'
      BY <2>1, <3>1, <3>4, <3>5, <3>6 DEF RefusalInv, IsExplicit
    <3> QED
      BY <1>0, <2>2, <3>7 DEF PassInv
  <2>5. CASE RejectExhausted
    <3>1. items[Current] \in Items /\ Waiting # {} /\ phase' = "exhausted"
      BY <1>1, <2>5, CurrentIsFirst DEF RejectExhausted, Waiting
    <3>2. \A p \in 0..(Size(range) - 1) :
             Candidate(range, items[Current], p) \in DOMAIN occupied
      BY <2>5 DEF RejectExhausted, PassInv, Inv, LoopInv
    <3>3. Addresses(range) \subseteq DOMAIN occupied
      BY <1>1, <3>1, <3>2, CandidatesCover
    <3>4. Len(items) > Size(range)
      BY <3>1, <3>3, FullRangeHasFewerAddresses DEF PassInv
    <3>5. RefusalInv'
      BY <2>1, <3>1, <3>4 DEF RefusalInv
    <3> QED
      BY <1>0, <2>2, <3>5 DEF PassInv
  <2> QED
    BY <1>5, <2>3, <2>4, <2>5
<1> QED
  BY <1>2, <1>3, <1>4, <1>5 DEF Next

\* A pass that has ended leaves the outcome of its items.
LEMMA EndedOutcome ==
    ASSUME PassInv, phase \in Ended
    PROVE  Outcome(range, items, phase, assigned)
<1> DEFINE S == Range(items)
           r == range
           m == [n \in DOMAIN assigned |-> assigned[n].address]
<1>1. /\ items \in Seq(Items) /\ HasUniqueNames(items) /\ range \in Ranges
      /\ \A i \in DOMAIN items : i \in Nat /\ items[i] \in Items
  BY DEF PassInv, Inv, TypeOK
<1>2. /\ \A i \in DOMAIN items : items[i] \in S
      /\ \A x \in S : \E i \in DOMAIN items : x = items[i]
  BY DEF Range
<1> HIDE DEF S
<1>3. ASSUME phase = "allocated" PROVE Allocation(r, S, assigned)
  <2>1. IsPlacement(r, S, m)
    BY <1>3, EndedPassIsPlacement DEF PassInv, S
  <2>2. DOMAIN m = DOMAIN assigned /\ \A n \in DOMAIN assigned : m[n] = assigned[n].address
    OBVIOUS
  <2> HIDE DEF m
  <2>3. DOMAIN assigned = {x.name : x \in S}
    BY <2>1, <2>2 DEF IsPlacement
  <2>4. /\ \A x \in S : assigned[x.name].address \in Addresses(r)
        /\ \A x, y \in S : assigned[x.name].address = assigned[y.name].address => x = y
    BY <2>1, <2>2, <2>3 DEF IsPlacement
  <2>5. \A x \in S : x.explicit # None => Explicitly(x, assigned[x.name])
    BY <1>2, <2>3 DEF PassInv, EntriesInv, IsExplicit
  <2>6. ASSUME NEW x \in S, x.explicit = None
        PROVE  Automatically(r, S, assigned, x, assigned[x.name])
    <3> DEFINE at == assigned[x.name]
    <3>1. PICK i \in DOMAIN items : x = items[i]
      BY <1>2
    <3>2. x.name \in DOMAIN assigned
      BY <2>3
    <3>3. at \in [address : Nat, source : {"explicit", "automatic"}, probe : Nat]
      BY <3>2 DEF PassInv, Inv, TypeOK
    <3>4. /\ at.source = "automatic"
          /\ at.probe < Size(r)
          /\ at.address = Candidate(r, x, at.probe)
          /\ \A p \in 0..(at.probe - 1) : \E j \in DOMAIN items :
                /\ MayDisplace(i, j)
                /\ items[j].name \in DOMAIN assigned
                /\ assigned[items[j].name].address = Candidate(r, x, p)
      BY <2>6, <3>1, <3>2 DEF PassInv, Inv, ProbeChain, IsExplicit
    <3>5. \A q \in 0..(at.probe - 1) : \E y \in S :
             HasPriority(y, x) /\ assigned[y.name].address = Candidate(r, x, q)
      BY <1>2, <3>1, <3>4 DEF MayDisplace, IsExplicit, HasPriority
    <3>6. at = [address |-> at.address, source |-> "automatic", probe |-> at.probe]
      BY <3>3, <3>4
    <3>7. at.probe \in Nat
      BY <3>3
    <3> HIDE DEF at
    <3> QED
      BY <3>4, <3>5, <3>6, <3>7 DEF Automatically, at
  <2> QED
    BY <2>3, <2>4, <2>5, <2>6 DEF Allocation, PassInv, EntriesInv
<1>4. ASSUME phase \in Errors, NEW p, IsPlacement(r, S, p) PROVE FALSE
  <2>1. CASE phase = "out_of_range"
    <3>1. PICK i \in DOMAIN items :
             items[i].explicit # None /\ items[i].explicit \notin Addresses(r)
      BY <2>1 DEF PassInv, RefusalInv, IsExplicit
    <3> QED
      BY <1>2, <1>4, <3>1 DEF IsPlacement
  <2>2. CASE phase = "collision"
    <3>1. PICK i \in DOMAIN items, j \in DOMAIN items :
             i # j /\ items[i].explicit # None /\ items[i].explicit = items[j].explicit
      BY <2>2 DEF PassInv, RefusalInv, IsExplicit
    <3>2. items[i] = items[j]
      BY <1>2, <1>4, <3>1 DEF IsPlacement
    <3> QED
      BY <1>1, <3>1, <3>2 DEF HasUniqueNames
  <2>3. CASE phase = "exhausted"
    <3>1. Len(items) > Size(range)
      BY <2>3 DEF PassInv, RefusalInv
    <3> QED
      BY <1>1, <1>4, <3>1, TooManyItems DEF S
  <2> QED
    BY <1>4, <2>1, <2>2, <2>3 DEF Errors
<1> QED
  BY <1>3, <1>4 DEF Outcome, S

=============================================================================
