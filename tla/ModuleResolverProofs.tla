------------------------ MODULE ModuleResolverProofs ------------------------
(***************************************************************************)
(* The resolver resolves exactly the sound projects, whatever the graph of *)
(* their imports: each module of the closure once, after its imports, in   *)
(* the configuration that every import of it asks for.                     *)
(***************************************************************************)
EXTENDS ModuleResolver, TLAPS, SequenceTheorems, WellFoundedInduction

Frames == [owner : Nat, params : Params, todo : SUBSET Imports]

TypeInv ==
    /\ project \in Projects
    /\ frames \in Seq(Frames)
    /\ resolved \subseteq Modules
    /\ ordered \in Seq(Imports)
    /\ result \in Errors \union {"resolving", "resolved"}

\* The imports that the loop of activation k goes through.
FrameImports(k) == IF k = 1 THEN RootImports ELSE ModuleImports(frames[k].owner)

\* The modules whose activation has begun.
Loaded == resolved \union {frames[k].owner : k \in DOMAIN frames \ {1}}

\* The registry has the parameters that import i asks for.
Agrees(i) ==
    i.name \in DOMAIN configurations /\ SameParams(configurations[i.name], i.params)

Settled(i) == Agrees(i) /\ i.name \in resolved

\* The activations form a path of imports from the root.
PathInv ==
    /\ frames # << >> => frames[1].owner = Root
    /\ \A k \in DOMAIN frames : k # 1 => frames[k].owner \in Modules
    /\ \A j, k \in DOMAIN frames : 1 < j /\ j < k => frames[k].owner \in Below(frames[j].owner)

\* What has been loaded was needed, and nothing was wrong with it.
LoadedInv ==
    /\ Loaded \subseteq Closure
    /\ frames # << >> \/ result = "resolved" => ~HasDuplicates(RootImports)
    /\ result \in {"resolving", "resolved"} =>
          \A m \in Loaded :
              /\ m \notin InvalidNames
              /\ project.files[m].kind = "module"
              /\ ~HasDuplicates(ModuleImports(m))

\* The imports that a loop has left behind are settled, but for the one that
\* the next activation is resolving.
LoopInv ==
    result = "resolving" =>
        \A k \in DOMAIN frames :
            /\ frames[k].todo \subseteq Range(FrameImports(k))
            /\ \A i \in Range(FrameImports(k)) \ frames[k].todo :
                  /\ Agrees(i)
                  /\ \/ i.name \in resolved
                     \/ k < Len(frames) /\ i.name = frames[k + 1].owner

\* So all imports of a resolved module are settled.  A module root is not one.
SettledInv ==
    /\ RootKind = "module" => Root \notin resolved
    /\ \A m \in resolved : \A i \in Range(ModuleImports(m)) : Settled(i)
    /\ result = "resolved" =>
          /\ \A i \in Range(RootImports) : Settled(i)
          /\ Root \notin resolved
          /\ frames = << >>

\* The registry has what some import asked for, and it is what is returned.
RegistryInv ==
    /\ \A m \in DOMAIN configurations :
          \/ RootKind = "module" /\ m = Root
          \/ \E i \in FollowedImports : i.name = m /\ i.params = configurations[m]
    /\ \A k \in DOMAIN ordered : ordered[k].params = configurations[ordered[k].name]
    /\ \A k \in DOMAIN frames : k # 1 => frames[k].params = configurations[frames[k].owner]

ErrorInv == result \in Errors => Fault(result)

Inv ==
    /\ TypeInv
    /\ RegisteredOnce
    /\ DependencyFirst
    /\ PathInv
    /\ LoadedInv
    /\ LoopInv
    /\ SettledInv
    /\ RegistryInv
    /\ ErrorInv

-----------------------------------------------------------------------------
\* The closure of the root's imports, and what is below a module, by the three
\* facts that the proofs use: the first imports are in it, it is closed under
\* imports, and it is the least such set.

LEMMA ProjectType ==
    ASSUME TypeInv
    PROVE  /\ RootImports \in Seq(Imports)
           /\ Root \in Nat
           /\ \A m \in Modules : ModuleImports(m) \in Seq(Imports)
           /\ Range(RootImports) \subseteq Imports /\ Names(RootImports) \subseteq Modules
           /\ \A m \in Modules : /\ Range(ModuleImports(m)) \subseteq Imports
                                 /\ Names(ModuleImports(m)) \subseteq Modules
<1>1. /\ RootImports \in Seq(Imports) /\ Root \in Nat
      /\ project.files \in [Modules -> [kind : FileKinds, imports : Seq(Imports)]]
    BY ProjectsAssumption DEF TypeInv, RootImports, Root
<1>2. \A m \in Modules : ModuleImports(m) \in Seq(Imports)
    BY <1>1 DEF ModuleImports
<1>3. ASSUME NEW s \in Seq(Imports)
      PROVE  Range(s) \subseteq Imports /\ Names(s) \subseteq Modules
    <2>1. \A k \in DOMAIN s : s[k] \in Imports
        OBVIOUS
    <2>2. \A i \in Imports : i.name \in Modules
        BY DEF Imports
    <2>3. QED
        BY <2>1, <2>2 DEF Range, Names
<1>4. QED
    BY <1>1, <1>2, <1>3

\* The names of a list of imports are those of its elements.
LEMMA NamesOfRange ==
    ASSUME NEW s
    PROVE  Names(s) = {i.name : i \in Range(s)}
BY DEF Names, Range

LEMMA ClosureIsClosed ==
    ASSUME TypeInv
    PROVE  /\ Closure \subseteq Modules
           /\ Names(RootImports) \subseteq Closure
           /\ \A m \in Closure : Names(ModuleImports(m)) \subseteq Closure
<1>1. Closure \subseteq Modules
    BY DEF Closure
<1>2. Names(RootImports) \subseteq Closure
    BY ProjectType DEF Closure, ImportedBy
<1>3. ASSUME NEW m \in Closure, NEW n \in Names(ModuleImports(m))
      PROVE  n \in Closure
    <2>1. n \in Modules
        BY <1>1, ProjectType
    <2>2. ASSUME NEW S \in SUBSET Modules, ImportedBy(S) \subseteq S
          PROVE  n \in S
        <3>1. m \in S
            BY <2>2 DEF Closure
        <3>2. QED
            BY <2>2, <3>1 DEF ImportedBy
    <2>3. QED
        BY <2>1, <2>2 DEF Closure
<1>4. QED
    BY <1>1, <1>2, <1>3

LEMMA ClosureIsLeast ==
    ASSUME NEW S \in SUBSET Modules, Names(RootImports) \subseteq S,
           \A m \in S : Names(ModuleImports(m)) \subseteq S
    PROVE  Closure \subseteq S
<1>1. ImportedBy(S) \subseteq S
    BY DEF ImportedBy
<1>2. QED
    BY <1>1 DEF Closure

LEMMA BelowIsClosed ==
    ASSUME TypeInv, NEW m \in Modules
    PROVE  /\ Below(m) \subseteq Modules
           /\ Names(ModuleImports(m)) \subseteq Below(m)
           /\ \A k \in Below(m) : Names(ModuleImports(k)) \subseteq Below(m)
<1>1. Below(m) \subseteq Modules
    BY DEF Below
<1>2. Names(ModuleImports(m)) \subseteq Below(m)
    BY ProjectType DEF Below
<1>3. ASSUME NEW k \in Below(m), NEW n \in Names(ModuleImports(k))
      PROVE  n \in Below(m)
    <2>1. n \in Modules
        BY <1>1, ProjectType
    <2>2. ASSUME NEW S \in SUBSET Modules,
                 Names(ModuleImports(m)) \union UNION {Names(ModuleImports(j)) : j \in S} \subseteq S
          PROVE  n \in S
        <3>1. k \in S
            BY <2>2 DEF Below
        <3>2. QED
            BY <2>2, <3>1
    <2>3. QED
        BY <2>1, <2>2 DEF Below
<1>4. QED
    BY <1>1, <1>2, <1>3

LEMMA BelowIsLeast ==
    ASSUME NEW m, NEW S \in SUBSET Modules, Names(ModuleImports(m)) \subseteq S,
           \A k \in S : Names(ModuleImports(k)) \subseteq S
    PROVE  Below(m) \subseteq S
<1>1. Names(ModuleImports(m)) \union UNION {Names(ModuleImports(k)) : k \in S} \subseteq S
    OBVIOUS
<1>2. QED
    BY <1>1 DEF Below

LEMMA FollowedImportsType ==
    ASSUME TypeInv
    PROVE  FollowedImports \subseteq Imports
BY ProjectType, ClosureIsClosed DEF FollowedImports

\* A resolution never changes its project.
LEMMA SameProject ==
    ASSUME UNCHANGED project
    PROVE  /\ Root' = Root /\ RootKind' = RootKind /\ RootImports' = RootImports
           /\ \A m : ModuleImports(m)' = ModuleImports(m)
           /\ Closure' = Closure /\ FollowedImports' = FollowedImports
           /\ \A m : Below(m)' = Below(m)
           /\ \A e : Fault(e)' <=> Fault(e)
<1> USE DEF Root, RootKind, RootImports, ModuleImports
<1>1. Closure' = Closure
    BY DEF Closure, ImportedBy
<1>2. FollowedImports' = FollowedImports
    BY <1>1 DEF FollowedImports
<1>3. \A m : Below(m)' = Below(m)
    BY DEF Below
<1>4. \A e : Fault(e)' <=> Fault(e)
    BY <1>1, <1>2, <1>3 DEF Fault, HasCycle, HasConflict, HasInvalidName, HasMissing, HasBroken,
                HasUndecodable, HasDuplicateImport, HasCollision, HasDuplicates, SameParams
<1>5. QED
    BY <1>1, <1>2, <1>3, <1>4

-----------------------------------------------------------------------------
\* What a step leaves alone.

\* Nothing has changed but the result, which may have become a justified error.
LEMMA FrozenKeepsInv ==
    ASSUME Inv, UNCHANGED <<project, frames, configurations, resolved, ordered>>,
           \/ result' = result
           \/ result' \in Errors /\ Fault(result')
    PROVE  Inv'
<1> USE SameProject
<1>0. UNCHANGED project
    OBVIOUS
<1>1. TypeInv'
    BY DEF Inv, TypeInv
<1>2. RegisteredOnce'
    BY <1>0 DEF Inv, RegisteredOnce
<1>3. DependencyFirst'
    BY <1>0 DEF Inv, DependencyFirst
<1>4. PathInv'
    BY <1>0 DEF Inv, PathInv
<1>5. LoadedInv'
    BY <1>0 DEF Inv, LoadedInv, Loaded, Errors
<1>6. LoopInv'
    BY <1>0 DEF Inv, LoopInv, Agrees, FrameImports, Errors
<1>7. SettledInv'
    BY <1>0 DEF Inv, SettledInv, Settled, Agrees, Errors
<1>8. RegistryInv'
    BY <1>0 DEF Inv, RegistryInv
<1>9. ErrorInv'
    BY <1>0 DEF Inv, ErrorInv, Errors
<1>10. QED
    BY <1>1, <1>2, <1>3, <1>4, <1>5, <1>6, <1>7, <1>8, <1>9 DEF Inv

-----------------------------------------------------------------------------
\* The import that a loop has come to.

LEMMA NatHasLeast ==
    ASSUME NEW T, T \subseteq Nat, T # {}
    PROVE  \E x \in T : \A y \in T : x <= y
<1> DEFINE R == {ss \in Nat \X Nat : ss[1] < ss[2]}
<1>1. IsWellFoundedOn(R, Nat)
    BY NatLessThanWellFounded DEF OpToRel
<1>2. \A x, y \in Nat : <<x, y>> \notin R => y <= x
    OBVIOUS
<1> HIDE DEF R
<1>3. PICK x \in T : \A y \in T : <<y, x>> \notin R
    BY <1>1, WFMin
<1>4. QED
    BY <1>2, <1>3

\* A loop with imports left comes to one of them, which the root needs; if the
\* activation is a module's, it is below that module.
LEMMA CurrentImportIsNeeded ==
    ASSUME Inv, Importing
    PROVE  /\ Len(frames) \in Nat \ {0} /\ DOMAIN frames = 1..Len(frames)
           /\ Top \in Frames
           /\ CurrentImport \in Top.todo
           /\ CurrentImport \in Imports /\ CurrentImport.name \in Modules
           /\ CurrentImport.params \in Params
           /\ CurrentImport \in Range(FrameImports(Len(frames)))
           /\ CurrentImport.name \in Closure
           /\ CurrentImport \in FollowedImports
           /\ Len(frames) > 1 => CurrentImport.name \in Names(ModuleImports(Top.owner))
<1> DEFINE n == Len(frames)
<1>1. /\ n \in Nat \ {0} /\ DOMAIN frames = 1..n
      /\ Top \in Frames /\ Top.todo \subseteq Imports /\ Top.todo # {}
    <2>1. frames \in Seq(Frames) /\ frames # << >> /\ Top.todo # {}
        BY DEF Inv, TypeInv, Importing
    <2>2. n \in Nat \ {0} /\ DOMAIN frames = 1..n
        BY <2>1
    <2>3. Top \in Frames
        BY <2>1, <2>2, ElementOfSeq DEF Top
    <2>4. QED
        BY <2>1, <2>2, <2>3 DEF Frames
<1>2. CurrentImport \in Top.todo
    <2> DEFINE T == {i.name : i \in Top.todo}
    <2>1. T \subseteq Nat /\ T # {}
        BY <1>1, ModulesAssumption DEF Imports
    <2>2. PICK x \in T : \A y \in T : x <= y
        BY <2>1, NatHasLeast
    <2>3. PICK i \in Top.todo : x = i.name
        OBVIOUS
    <2>4. \A j \in Top.todo : i.name <= j.name
        BY <2>2, <2>3
    <2>5. QED
        BY <2>4 DEF CurrentImport
<1>3. CurrentImport \in Imports /\ CurrentImport.name \in Modules /\ CurrentImport.params \in Params
    BY <1>1, <1>2 DEF Imports
<1>4. CurrentImport \in Range(FrameImports(n))
    BY <1>1, <1>2 DEF Inv, LoopInv, Importing, Top
<1>5. /\ n > 1 => CurrentImport.name \in Names(ModuleImports(Top.owner))
      /\ CurrentImport.name \in Closure
      /\ CurrentImport \in FollowedImports
    <2>1. CASE n = 1
        BY <2>1, <1>4, NamesOfRange, ClosureIsClosed DEF FrameImports, Inv, FollowedImports
    <2>2. CASE n > 1
        <3>1. Top.owner \in Closure
            BY <1>1, <2>2 DEF Inv, LoadedInv, Loaded, Top
        <3>2. CurrentImport \in Range(ModuleImports(Top.owner))
            BY <1>4, <2>2 DEF FrameImports, Top
        <3>3. CurrentImport.name \in Names(ModuleImports(Top.owner))
            BY <3>2, NamesOfRange
        <3>4. QED
            BY <3>1, <3>2, <3>3, ClosureIsClosed DEF Inv, FollowedImports
    <2>3. QED
        BY <1>1, <2>1, <2>2
<1>6. QED
    BY <1>1, <1>2, <1>3, <1>4, <1>5

-----------------------------------------------------------------------------
\* The steps that refuse a project.

\* The registry holds what some import asked for, or a module root; so an
\* import of other parameters, or of the root, is a fault of the project.
LEMMA RejectCycleStep ==
    ASSUME Inv, RejectCycle
    PROVE  Inv'
<1> DEFINE n == Len(frames)
           i == CurrentImport
<1>1. Importing /\ i.name \in OnStack /\ Fail("cycle")
    BY DEF RejectCycle
<1>2. /\ n \in Nat \ {0} /\ DOMAIN frames = 1..n
      /\ i.name \in Modules /\ i.name \in Closure
      /\ n > 1 => i.name \in Names(ModuleImports(frames[n].owner))
    BY <1>1, CurrentImportIsNeeded DEF Top
<1>3. PICK k \in DOMAIN frames : (k > 1 \/ RootKind = "module") /\ frames[k].owner = i.name
    BY <1>1 DEF OnStack
<1> HIDE DEF n, i
<1>4. k \in Nat /\ 1 <= k /\ k <= n /\ n \in Nat
    BY <1>2
<1>5. CASE k = 1
    <2>1. Root = i.name
        BY <1>1, <1>3, <1>5 DEF Inv, PathInv, Importing
    <2>2. HasCycle
        BY <1>2, <1>3, <1>5, <2>1 DEF HasCycle
    <2>3. QED
        BY <1>1, <2>2, FrozenKeepsInv DEF Fail, Fault, Errors
<1>6. CASE k # 1
    <2>1. frames[n].owner \in Modules /\ k > 1 /\ n > 1 /\ n \in DOMAIN frames
        BY <1>2, <1>4, <1>6 DEF Inv, PathInv
    <2>2. frames[n].owner = i.name \/ frames[n].owner \in Below(i.name)
        <3>1. CASE k = n
            BY <1>3, <3>1
        <3>2. CASE k < n
            BY <1>3, <2>1, <3>2 DEF Inv, PathInv
        <3>3. QED
            BY <1>4, <3>1, <3>2
    <2>3. i.name \in Names(ModuleImports(frames[n].owner))
        BY <1>2, <2>1
    <2>4. i.name \in Below(i.name)
        BY <1>2, <2>2, <2>3, BelowIsClosed DEF Inv
    <2>5. HasCycle
        BY <1>2, <2>4 DEF HasCycle
    <2>6. QED
        BY <1>1, <2>5, FrozenKeepsInv DEF Fail, Fault, Errors
<1>7. QED
    BY <1>5, <1>6

LEMMA RejectConflictStep ==
    ASSUME Inv, RejectConflict
    PROVE  Inv'
<1> DEFINE i == CurrentImport
<1> USE CurrentImportIsNeeded
<1>1. Importing /\ i.name \notin OnStack /\ Fail("conflict")
      /\ i.name \in DOMAIN configurations /\ ~SameParams(configurations[i.name], i.params)
    BY DEF RejectConflict, Conflicts
<1>2. frames # << >> /\ frames[1].owner = Root /\ 1 \in DOMAIN frames
    BY <1>1 DEF Inv, PathInv, Importing
<1>3. ~(RootKind = "module" /\ i.name = Root)
    BY <1>1, <1>2 DEF OnStack
<1>4. PICK j \in FollowedImports : j.name = i.name /\ j.params = configurations[i.name]
    BY <1>1, <1>3 DEF Inv, RegistryInv
<1>5. Fault("conflict")
    BY <1>1, <1>4 DEF Fault, HasConflict
<1>6. QED
    BY <1>1, <1>5, FrozenKeepsInv DEF Fail, Errors

\* The file of an import is at fault, or its name is.
LEMMA RejectFileStep ==
    ASSUME Inv, RejectInvalidName \/ RejectUnknown \/ RejectBroken \/ CrashOnUndecodable
    PROVE  Inv'
<1>1. PICK e \in Errors : Fail(e) /\ Fault(e)
    BY CurrentImportIsNeeded
       DEF RejectInvalidName, RejectUnknown, RejectBroken, CrashOnUndecodable, Loading, Errors, Fault,
           HasInvalidName, HasMissing, HasBroken, HasUndecodable
<1>2. QED
    BY <1>1, FrozenKeepsInv DEF Fail

LEMMA RejectRootDuplicateStep ==
    ASSUME Inv, RejectRootDuplicate
    PROVE  Inv'
<1>1. Fail("duplicate") /\ Fault("duplicate")
    BY DEF RejectRootDuplicate, Fault, HasDuplicateImport
<1>2. QED
    BY <1>1, FrozenKeepsInv DEF Fail, Errors

-----------------------------------------------------------------------------
\* The steps of the loops.

\* The activations after the innermost loop has gone on.
LEMMA WithoutShape ==
    ASSUME TypeInv, frames # << >>, NEW i
    PROVE  /\ Without(i) \in Seq(Frames)
           /\ Len(Without(i)) = Len(frames)
           /\ DOMAIN frames = 1..Len(frames) /\ Len(frames) \in Nat \ {0}
           /\ \A k \in 1..Len(frames) :
                 /\ Without(i)[k].owner = frames[k].owner
                 /\ Without(i)[k].params = frames[k].params
                 /\ k # Len(frames) => Without(i)[k].todo = frames[k].todo
           /\ Without(i)[Len(frames)].todo = frames[Len(frames)].todo \ {i}
<1> DEFINE n == Len(frames)
           f == [frames[n] EXCEPT !.todo = frames[n].todo \ {i}]
<1>1. frames \in Seq(Frames) /\ n \in Nat \ {0} /\ n \in 1..n /\ DOMAIN frames = 1..n
    BY DEF TypeInv
<1>2. frames[n] \in Frames
    BY <1>1, ElementOfSeq
<1>3. /\ f \in Frames
      /\ f.owner = frames[n].owner /\ f.params = frames[n].params
      /\ f.todo = frames[n].todo \ {i}
    BY <1>2 DEF Frames
<1>4. Without(i) = [frames EXCEPT ![n] = f]
    BY DEF Without
<1> HIDE DEF f
<1>5. /\ Without(i) \in Seq(Frames) /\ Len(Without(i)) = n
      /\ \A k \in 1..n : Without(i)[k] = IF k = n THEN f ELSE frames[k]
    <2> HIDE DEF Frames
    <2>1. QED
        BY <1>1, <1>3, <1>4, ExceptSeq
<1>6. QED
    BY <1>1, <1>3, <1>5

LEMMA EnterRootStep ==
    ASSUME Inv, EnterRoot
    PROVE  Inv'
<1> DEFINE F == Frame(Root, NoParams, RootImports)
<1>1. /\ F \in Frames /\ F.owner = Root /\ F.todo = Range(RootImports)
    BY ProjectType, ParamsAssumption DEF Inv, Frame, Frames
<1>2. /\ frames = << >> /\ frames' = <<F>> /\ result = "resolving" /\ ~HasDuplicates(RootImports)
      /\ UNCHANGED <<project, configurations, resolved, ordered, result>>
    BY DEF EnterRoot
<1> HIDE DEF F
<1>3. /\ frames' \in Seq(Frames) /\ Len(frames') = 1 /\ DOMAIN frames' = {1} /\ frames'[1] = F
      /\ DOMAIN frames = {} /\ (DOMAIN frames)' \ {1} = {}
    BY <1>1, <1>2
<1> USE SameProject
<1>4. UNCHANGED project
    BY <1>2
<1>5. TypeInv'
    BY <1>2, <1>3 DEF Inv, TypeInv
<1>6. RegisteredOnce'
    <2>1. {frames[k].owner : k \in DOMAIN frames \ {1}} = {}
        BY <1>3
    <2>2. {frames[k].owner : k \in DOMAIN frames \ {1}}' = {}
        BY <1>3
    <2>3. \A k \in (DOMAIN frames)' : k = 1
        BY <1>3
    <2>4. (\A k \in DOMAIN frames : frames[k].owner \in resolved => k = 1 /\ RootKind = "device")'
        <3>1. Root \in resolved => RootKind = "device"
            BY ProjectsAssumption DEF Inv, SettledInv, TypeInv, RootKind
        <3>2. QED
            BY <1>1, <1>2, <1>3, <1>4, <3>1
    <2>5. QED
        BY <1>2, <1>4, <2>1, <2>2, <2>3, <2>4 DEF Inv, RegisteredOnce
<1>7. DependencyFirst'
    BY <1>2, <1>4 DEF Inv, DependencyFirst
<1>8. PathInv'
    BY <1>1, <1>3, <1>4 DEF PathInv
<1>9. LoadedInv'
    <2>1. Loaded' = Loaded
        BY <1>2, <1>3 DEF Loaded
    <2>2. QED
        BY <1>2, <1>4, <2>1 DEF Inv, LoadedInv
<1>10. LoopInv'
    BY <1>1, <1>3, <1>4 DEF LoopInv, FrameImports
<1>11. SettledInv'
    BY <1>2, <1>4 DEF Inv, SettledInv, Settled, Agrees
<1>12. RegistryInv'
    BY <1>2, <1>3, <1>4 DEF Inv, RegistryInv
<1>13. ErrorInv'
    BY <1>2, <1>4 DEF ErrorInv, Errors
<1>14. QED
    BY <1>5, <1>6, <1>7, <1>8, <1>9, <1>10, <1>11, <1>12, <1>13 DEF Inv

LEMMA ReuseStep ==
    ASSUME Inv, Reuse
    PROVE  Inv'
<1> DEFINE n == Len(frames)
           i == CurrentImport
<1>1. /\ Importing /\ i.name \in resolved /\ Agrees(i)
      /\ frames' = Without(i) /\ frames # << >> /\ result = "resolving"
      /\ UNCHANGED <<project, configurations, resolved, ordered, result>>
    BY DEF Reuse, Conflicts, Agrees, Importing
<1> HIDE DEF i
<1>2. /\ frames' \in Seq(Frames) /\ Len(frames') = n
      /\ DOMAIN frames = 1..n /\ n \in Nat \ {0} /\ (DOMAIN frames)' = 1..n
      /\ \A k \in 1..n : /\ frames'[k].owner = frames[k].owner
                         /\ frames'[k].params = frames[k].params
                         /\ k # n => frames'[k].todo = frames[k].todo
      /\ frames'[n].todo = frames[n].todo \ {i}
    BY <1>1, WithoutShape DEF Inv
<1> HIDE DEF n
<1> USE SameProject
<1>3. UNCHANGED project
    BY <1>1
<1>4. TypeInv'
    BY <1>1, <1>2 DEF Inv, TypeInv
<1>5. RegisteredOnce'
    BY <1>1, <1>2, <1>3 DEF Inv, RegisteredOnce
<1>6. DependencyFirst'
    BY ZenonT(60), <1>1, <1>3 DEF Inv, DependencyFirst
<1>7. PathInv'
    BY <1>1, <1>2, <1>3 DEF Inv, PathInv
<1>8. LoadedInv'
    <2>1. Loaded' = Loaded
        BY <1>1, <1>2 DEF Loaded
    <2>2. QED
        BY <1>1, <1>3, <2>1 DEF Inv, LoadedInv
<1>9. LoopInv'
    <2>1. \A k \in 1..n : FrameImports(k)' = FrameImports(k)
        BY <1>2, <1>3 DEF FrameImports
    <2>2. \A j : Agrees(j)' <=> Agrees(j)
        BY <1>1 DEF Agrees
    <2>3. ASSUME NEW k \in 1..n
          PROVE  /\ frames'[k].todo \subseteq Range(FrameImports(k))
                 /\ \A j \in Range(FrameImports(k)) \ frames'[k].todo :
                       /\ Agrees(j)
                       /\ \/ j.name \in resolved
                          \/ k < n /\ j.name = frames'[k + 1].owner
        <3>1. /\ frames[k].todo \subseteq Range(FrameImports(k))
              /\ \A j \in Range(FrameImports(k)) \ frames[k].todo :
                       /\ Agrees(j)
                       /\ \/ j.name \in resolved
                          \/ k < n /\ j.name = frames[k + 1].owner
            BY <1>1, <1>2 DEF Inv, LoopInv, n
        <3>2. k < n => frames'[k + 1].owner = frames[k + 1].owner
            BY <1>2
        <3>3. QED
            BY <1>1, <1>2, <3>1, <3>2
    <2>4. QED
        BY <1>1, <1>2, <2>1, <2>2, <2>3 DEF LoopInv
<1>10. SettledInv'
    BY <1>1, <1>3 DEF Inv, SettledInv, Settled, Agrees
<1>11. RegistryInv'
    BY <1>1, <1>2, <1>3 DEF Inv, RegistryInv
<1>12. ErrorInv'
    BY <1>1, <1>3 DEF ErrorInv, Errors
<1>13. QED
    BY <1>4, <1>5, <1>6, <1>7, <1>8, <1>9, <1>10, <1>11, <1>12 DEF Inv

\* An activation begins: what all invariants but those of the loops become.
LEMMA ActivationBegins ==
    ASSUME Inv, NEW i \in Imports, Loading(i), Configure(i),
           i.name \notin InvalidNames, project.files[i.name].kind = "module",
           NEW g \in Seq(Frames), Len(g) = Len(frames),
           \A k \in 1..Len(frames) : g[k].owner = frames[k].owner /\ g[k].params = frames[k].params,
           NEW F \in Frames, F.owner = i.name, F.params = i.params,
           frames' = Append(g, F),
           UNCHANGED <<project, resolved, ordered>>
    PROVE  /\ i.name \notin DOMAIN configurations
           /\ frames' \in Seq(Frames)
           /\ RegisteredOnce' /\ DependencyFirst' /\ PathInv' /\ RegistryInv'
           /\ Loaded' = Loaded \union {i.name}
           /\ i.name \in Closure
           /\ \A j : Agrees(j) => Agrees(j)'
           /\ Agrees(i)'
<1> DEFINE n == Len(frames)
<1>1. /\ Importing /\ i = CurrentImport /\ i.name \notin OnStack /\ i.name \notin resolved
      /\ i.name \in Modules
    BY DEF Loading, Imports
<1>2. /\ n \in Nat \ {0} /\ DOMAIN frames = 1..n /\ frames # << >>
      /\ i.name \in Closure /\ i \in FollowedImports
      /\ n > 1 => i.name \in Names(ModuleImports(frames[n].owner))
    BY <1>1, CurrentImportIsNeeded DEF Top, Importing
<1>3. /\ Len(frames') = n + 1 /\ (DOMAIN frames)' = 1..(n + 1)
      /\ \A k \in 1..n : frames'[k].owner = frames[k].owner /\ frames'[k].params = frames[k].params
      /\ frames'[n + 1].owner = i.name /\ frames'[n + 1].params = i.params
      /\ frames' \in Seq(Frames)
    <2> HIDE DEF Frames
    <2>1. QED
        BY <1>2, AppendProperties
<1> HIDE DEF n
<1> USE SameProject
<1>4. UNCHANGED project
    OBVIOUS
<1>5. frames[1].owner = Root /\ 1 \in 1..n /\ \A k \in 1..n : k = 1 \/ k > 1
    BY <1>2 DEF Inv, PathInv
<1>6. \A k \in 1..n : frames[k].owner = i.name => k = 1 /\ RootKind = "device"
    <2>1. RootKind \in {"device", "module"}
        BY ProjectsAssumption DEF Inv, TypeInv, RootKind
    <2>2. QED
        BY <1>1, <1>2, <1>5, <2>1 DEF OnStack
<1>7. i.name \notin DOMAIN configurations
    BY <1>1, <1>2, <1>5, <1>6 DEF Inv, RegisteredOnce
<1>8. /\ DOMAIN configurations' = DOMAIN configurations \union {i.name}
      /\ \A m \in DOMAIN configurations : configurations'[m] = configurations[m]
      /\ configurations'[i.name] = i.params
    BY <1>7 DEF Configure
<1>9. {frames[k].owner : k \in DOMAIN frames \ {1}}'
         = {frames[k].owner : k \in DOMAIN frames \ {1}} \union {i.name}
    BY <1>2, <1>3
<1>10. RegisteredOnce'
    <2>1. (DOMAIN configurations = resolved \union
             (IF RootKind = "module" THEN {Root} ELSE {})
             \union {frames[k].owner : k \in DOMAIN frames \ {1}})'
        BY <1>4, <1>8, <1>9 DEF Inv, RegisteredOnce
    <2>2. ASSUME NEW j \in 1..(n + 1), NEW k \in 1..(n + 1), frames'[j].owner = frames'[k].owner
          PROVE  j = k \/ (RootKind = "device" /\ 1 \in {j, k})
        <3>1. CASE j \in 1..n /\ k \in 1..n
            BY <1>2, <1>3, <2>2, <3>1 DEF Inv, RegisteredOnce
        <3>2. CASE j = n + 1 /\ k \in 1..n
            BY <1>3, <1>6, <2>2, <3>2
        <3>3. CASE j \in 1..n /\ k = n + 1
            BY <1>3, <1>6, <2>2, <3>3
        <3>4. QED
            BY <1>2, <3>1, <3>2, <3>3
    <2>3. ASSUME NEW k \in 1..(n + 1), frames'[k].owner \in resolved
          PROVE  k = 1 /\ RootKind = "device"
        <3>1. k \in 1..n
            BY <1>1, <1>2, <1>3, <2>3
        <3>2. QED
            BY <1>2, <1>3, <2>3, <3>1 DEF Inv, RegisteredOnce
    <2>4. QED
        BY <1>3, <1>4, <2>1, <2>2, <2>3 DEF Inv, RegisteredOnce
<1>11. DependencyFirst'
    BY <1>4 DEF Inv, DependencyFirst
<1>12. PathInv'
    <2>1. ASSUME NEW k \in 1..(n + 1), k # 1
          PROVE  frames'[k].owner \in Modules
        BY <1>1, <1>2, <1>3, <2>1 DEF Inv, PathInv
    <2>2. ASSUME NEW j \in 1..(n + 1), NEW k \in 1..(n + 1), 1 < j, j < k
          PROVE  frames'[k].owner \in Below(frames'[j].owner)
        <3>1. CASE k \in 1..n
            <4>1. j \in 1..n
                BY <1>2, <2>2, <3>1
            <4>2. frames[k].owner \in Below(frames[j].owner)
                BY <1>2, <2>2, <3>1, <4>1 DEF Inv, PathInv
            <4>3. QED
                BY <1>3, <3>1, <4>1, <4>2
        <3>2. CASE k = n + 1
            <4>1. /\ j \in 1..n /\ n \in 1..n /\ n > 1 /\ j # 1 /\ n # 1 /\ (j = n \/ j < n)
                BY <1>2, <2>2, <3>2
            <4>2. frames[j].owner \in Modules /\ frames[n].owner \in Modules
                BY <1>2, <4>1 DEF Inv, PathInv
            <4>3. frames[n].owner = frames[j].owner \/ frames[n].owner \in Below(frames[j].owner)
                BY <1>2, <2>2, <4>1 DEF Inv, PathInv
            <4>4. i.name \in Below(frames[j].owner)
                BY <1>2, <4>1, <4>2, <4>3, BelowIsClosed DEF Inv
            <4>5. QED
                BY <1>3, <3>2, <4>1, <4>4
        <3>3. QED
            BY <1>2, <3>1, <3>2
    <2>3. frames'[1].owner = Root
        BY <1>3, <1>5
    <2>4. QED
        BY <1>3, <1>4, <2>1, <2>2, <2>3 DEF PathInv
<1>13. RegistryInv'
    <2>1. \A m \in DOMAIN configurations' :
             \/ RootKind = "module" /\ m = Root
             \/ \E j \in FollowedImports : j.name = m /\ j.params = configurations'[m]
        BY <1>2, <1>8 DEF Inv, RegistryInv
    <2>2. \A k \in DOMAIN ordered : ordered[k].params = configurations'[ordered[k].name]
        BY <1>8 DEF Inv, RegistryInv, RegisteredOnce
    <2>3. ASSUME NEW k \in 1..(n + 1), k # 1
          PROVE  frames'[k].params = configurations'[frames'[k].owner]
        <3>1. CASE k \in 1..n
            <4>1. frames[k].owner \in DOMAIN configurations
                BY <1>2, <2>3, <3>1 DEF Inv, RegisteredOnce
            <4>2. QED
                BY <1>2, <1>3, <1>8, <2>3, <3>1, <4>1 DEF Inv, RegistryInv
        <3>2. CASE k = n + 1
            BY <1>3, <1>8, <3>2
        <3>3. QED
            BY <1>2, <3>1, <3>2
    <2>4. QED
        BY <1>3, <1>4, <2>1, <2>2, <2>3 DEF RegistryInv
<1>14. Loaded' = Loaded \union {i.name}
    BY <1>9 DEF Loaded
<1>15. (\A j : Agrees(j) => Agrees(j)') /\ Agrees(i)'
    BY <1>8 DEF Agrees, SameParams
<1>16. QED
    BY <1>2, <1>3, <1>7, <1>10, <1>11, <1>12, <1>13, <1>14, <1>15

LEMMA RejectDuplicateStep ==
    ASSUME Inv, RejectDuplicate
    PROVE  Inv'
<1>1. PICK i \in Imports :
          /\ Loading(i)
          /\ i.name \notin InvalidNames
          /\ project.files[i.name].kind = "module"
          /\ HasDuplicates(ModuleImports(i.name))
          /\ Configure(i)
          /\ frames' = Append(frames, Frame(i.name, i.params, << >>))
          /\ result' = "duplicate"
          /\ UNCHANGED <<project, resolved, ordered>>
    BY DEF RejectDuplicate
<1> DEFINE F == Frame(i.name, i.params, << >>)
<1>2. F \in Frames /\ F.owner = i.name /\ F.params = i.params
    <2>1. Range(<< >>) = {}
        BY DEF Range
    <2>2. QED
        BY <2>1, ModulesAssumption DEF Frame, Frames, Imports
<1> HIDE DEF F
<1>3. /\ frames' \in Seq(Frames)
      /\ RegisteredOnce' /\ DependencyFirst' /\ PathInv' /\ RegistryInv'
      /\ Loaded' = Loaded \union {i.name}
      /\ i.name \in Closure
      /\ \A j : Agrees(j) => Agrees(j)'
    <2>1. frames \in Seq(Frames)
        BY DEF Inv, TypeInv
    <2>2. frames' = Append(frames, F)
        BY <1>1 DEF F
    <2>3. QED
        BY <1>1, <1>2, <2>1, <2>2, ActivationBegins
<1> USE SameProject
<1>4. UNCHANGED <<project, resolved, ordered>> /\ result' = "duplicate"
    BY <1>1
<1>5. TypeInv'
    BY <1>3, <1>4 DEF Inv, TypeInv, Errors
<1>6. LoadedInv'
    <2>1. frames # << >>
        BY <1>1 DEF Loading, Importing
    <2>2. QED
        BY <1>3, <1>4, <2>1 DEF Inv, LoadedInv
<1>7. LoopInv'
    BY <1>4 DEF LoopInv
<1>8. SettledInv'
    BY <1>3, <1>4 DEF Inv, SettledInv, Settled
<1>9. ErrorInv'
    BY <1>1, <1>3, <1>4 DEF ErrorInv, Fault, HasDuplicateImport
<1>10. QED
    BY <1>3, <1>5, <1>6, <1>7, <1>8, <1>9 DEF Inv

LEMMA DescendStep ==
    ASSUME Inv, Descend
    PROVE  Inv'
<1>1. PICK i \in Imports :
          /\ Loading(i)
          /\ i.name \notin InvalidNames
          /\ project.files[i.name].kind = "module"
          /\ ~HasDuplicates(ModuleImports(i.name))
          /\ Configure(i)
          /\ frames' = Append(Without(i), Frame(i.name, i.params, ModuleImports(i.name)))
          /\ UNCHANGED <<project, resolved, ordered, result>>
    BY DEF Descend
<1> DEFINE F == Frame(i.name, i.params, ModuleImports(i.name))
           n == Len(frames)
<1>2. F \in Frames /\ F.owner = i.name /\ F.params = i.params /\ F.todo = Range(ModuleImports(i.name))
    BY ModulesAssumption, ProjectType DEF Inv, Frame, Frames, Imports
<1>3. /\ i = CurrentImport /\ Importing /\ result = "resolving" /\ frames # << >>
      /\ frames' = Append(Without(i), F)
      /\ UNCHANGED <<project, resolved, ordered, result>>
    BY <1>1 DEF Loading, Importing
<1> HIDE DEF F
<1>4. /\ Without(i) \in Seq(Frames)
      /\ Len(Without(i)) = n
      /\ DOMAIN frames = 1..n /\ n \in Nat \ {0}
      /\ \A k \in 1..n :
            /\ Without(i)[k].owner = frames[k].owner
            /\ Without(i)[k].params = frames[k].params
            /\ k # n => Without(i)[k].todo = frames[k].todo
      /\ Without(i)[n].todo = frames[n].todo \ {i}
    BY <1>3, WithoutShape DEF Inv
<1>5. /\ frames' \in Seq(Frames)
      /\ RegisteredOnce' /\ DependencyFirst' /\ PathInv' /\ RegistryInv'
      /\ Loaded' = Loaded \union {i.name}
      /\ i.name \in Closure
      /\ \A j : Agrees(j) => Agrees(j)'
      /\ Agrees(i)'
    BY <1>1, <1>2, <1>3, <1>4, ActivationBegins
<1>6. /\ (DOMAIN frames)' = 1..(n + 1) /\ Len(frames') = n + 1
      /\ \A k \in 1..n : frames'[k].owner = frames[k].owner
      /\ \A k \in 1..n : k # n => frames'[k].todo = frames[k].todo
      /\ frames'[n].todo = frames[n].todo \ {i}
      /\ frames'[n + 1] = F
    <2> HIDE DEF n, Frames
    <2>1. \A k \in 1..n : frames'[k] = Without(i)[k]
        BY <1>2, <1>3, <1>4, AppendProperties
    <2>2. frames'[n + 1] = F /\ Len(frames') = n + 1
        BY <1>2, <1>3, <1>4, AppendProperties
    <2>3. (DOMAIN frames)' = 1..(n + 1)
        BY <1>5, <2>2
    <2>4. QED
        BY <1>4, <2>1, <2>2, <2>3
<1> HIDE DEF n
<1> USE SameProject
<1>8. TypeInv'
    BY <1>3, <1>5 DEF Inv, TypeInv
<1>9. LoadedInv'
    BY <1>1, <1>3, <1>5 DEF Inv, LoadedInv
<1>10. LoopInv'
    <2>1. \A k \in 1..n : FrameImports(k)' = FrameImports(k)
        BY <1>3, <1>6 DEF FrameImports
    <2>2. ASSUME NEW k \in 1..n
          PROVE  /\ frames'[k].todo \subseteq Range(FrameImports(k))
                 /\ \A j \in Range(FrameImports(k)) \ frames'[k].todo :
                       /\ Agrees(j)'
                       /\ \/ j.name \in resolved
                          \/ k < n + 1 /\ j.name = frames'[k + 1].owner
        <3>1. /\ frames[k].todo \subseteq Range(FrameImports(k))
              /\ \A j \in Range(FrameImports(k)) \ frames[k].todo :
                       /\ Agrees(j)
                       /\ \/ j.name \in resolved
                          \/ k < n /\ j.name = frames[k + 1].owner
            BY <1>3, <1>4 DEF Inv, LoopInv, n
        <3>2. CASE k = n
            BY <1>2, <1>4, <1>5, <1>6, <3>1, <3>2
        <3>3. CASE k # n
            <4>1. k < n /\ frames'[k + 1].owner = frames[k + 1].owner /\ k < n + 1
                BY <1>4, <1>6, <3>3
            <4>2. frames'[k].todo = frames[k].todo
                BY <1>6, <3>3
            <4>3. QED
                BY <1>5, <3>1, <4>1, <4>2
        <3>4. QED
            BY <3>2, <3>3
    <2>3. \A k \in Nat : k = n + 1 => FrameImports(k)' = ModuleImports(i.name)
        BY <1>2, <1>3, <1>4, <1>6 DEF FrameImports
    <2>4. ASSUME NEW k \in 1..(n + 1)
          PROVE  /\ frames'[k].todo \subseteq Range(FrameImports(k)')
                 /\ \A j \in Range(FrameImports(k)') \ frames'[k].todo :
                       /\ Agrees(j)'
                       /\ \/ j.name \in resolved
                          \/ k < n + 1 /\ j.name = frames'[k + 1].owner
        <3>1. CASE k \in 1..n
            BY <2>1, <2>2, <3>1
        <3>2. CASE k = n + 1
            BY <1>2, <1>4, <1>6, <2>3, <3>2
        <3>3. QED
            BY <1>4, <3>1, <3>2
    <2>5. QED
        BY <1>3, <1>6, <2>4 DEF LoopInv
<1>11. SettledInv'
    BY <1>3, <1>5 DEF Inv, SettledInv, Settled
<1>12. ErrorInv'
    BY <1>3 DEF ErrorInv, Errors
<1>13. QED
    BY <1>5, <1>8, <1>9, <1>10, <1>11, <1>12 DEF Inv

LEMMA ReturnStep ==
    ASSUME Inv, Return
    PROVE  Inv'
<1> DEFINE n == Len(frames)
           o == frames[n].owner
           e == [name |-> o, params |-> frames[n].params]
           m == Len(ordered)
<1>1. /\ result = "resolving" /\ n > 1 /\ frames[n].todo = {}
      /\ resolved' = resolved \union {o}
      /\ ordered' = Append(ordered, e)
      /\ frames' = SubSeq(frames, 1, n - 1)
      /\ UNCHANGED <<project, configurations, result>>
    BY DEF Return, Top
<1>2. /\ frames \in Seq(Frames) /\ ordered \in Seq(Imports)
      /\ n \in Nat /\ DOMAIN frames = 1..n /\ m \in Nat /\ DOMAIN ordered = 1..m
    BY DEF Inv, TypeInv
<1>3. n \in 1..n /\ n # 1 /\ frames[n] \in Frames
    BY <1>1, <1>2, ElementOfSeq
<1>4. /\ (DOMAIN frames)' = 1..(n - 1) /\ Len(frames') = n - 1 /\ n - 1 \in Nat
      /\ \A k \in 1..(n - 1) : frames'[k] = frames[k] /\ k \in 1..n /\ k # n
      /\ frames' \in Seq(Frames) /\ frames # << >>
    <2> HIDE DEF n, Frames
    <2>1. n - 1 \in Nat /\ 1 <= n - 1 /\ \A k \in 1..(n - 1) : k \in 1..n /\ k # n /\ 1 + k - 1 = k
        BY <1>1, <1>2
    <2>2. \A k \in 1..(n - 1) : frames[k] \in Frames
        BY <1>2, <2>1, ElementOfSeq DEF n
    <2>3. /\ frames' \in Seq(Frames)
          /\ Len(frames') = n - 1
          /\ \A k \in 1..(n - 1) : frames'[k] = frames[k]
        <3>1. /\ frames' \in Seq(Frames)
              /\ Len(frames') = (IF 1 <= n - 1 THEN (n - 1) - 1 + 1 ELSE 0)
              /\ \A k \in 1..((n - 1) - 1 + 1) : frames'[k] = frames[1 + k - 1]
            BY <1>1, <2>1, <2>2, SubSeqProperties
        <3>2. (n - 1) - 1 + 1 = n - 1
            BY <1>2
        <3>3. QED
            BY <2>1, <3>1, <3>2
    <2>4. (DOMAIN frames)' = 1..(n - 1) /\ frames # << >>
        BY <1>1, <1>2, <2>3 DEF n
    <2>5. QED
        BY <2>1, <2>3, <2>4
<1>5. o \in Modules /\ o \in Loaded /\ o \notin resolved
    <2>1. o \in Modules
        BY <1>2, <1>3 DEF Inv, PathInv
    <2>2. o \in Loaded
        BY <1>2, <1>3 DEF Loaded
    <2>3. o \notin resolved
        BY <1>2, <1>3 DEF Inv, RegisteredOnce
    <2>4. QED
        BY <2>1, <2>2, <2>3
<1>6. e \in Imports /\ e.name = o /\ e.params = frames[n].params
    BY <1>3, <1>5 DEF Imports, Frames
<1> HIDE DEF e
<1>7. /\ ordered' \in Seq(Imports) /\ (DOMAIN ordered)' = 1..(m + 1)
      /\ \A k \in 1..m : ordered'[k] = ordered[k]
      /\ ordered'[m + 1] = e
    <2> HIDE DEF m
    <2>1. ordered' \in Seq(Imports) /\ Len(ordered') = m + 1
        BY <1>1, <1>2, <1>6, AppendProperties DEF m
    <2>2. (DOMAIN ordered)' = 1..(m + 1)
        BY <2>1
    <2>3. (\A k \in 1..m : ordered'[k] = ordered[k]) /\ ordered'[m + 1] = e
        BY <1>1, <1>2, <1>6, AppendProperties DEF m
    <2>4. QED
        BY <2>1, <2>2, <2>3
<1> HIDE DEF n, o, m
<1> USE SameProject
<1>8. UNCHANGED project
    BY <1>1
\* Its loop has left every import of the module behind, and it is the last
\* activation: so all of them are settled.
<1>9. \A i \in Range(ModuleImports(o)) : Settled(i)
    <2>1. FrameImports(n) = ModuleImports(o)
        BY <1>3 DEF FrameImports, o
    <2>2. \A i \in Range(FrameImports(n)) : Agrees(i) /\ i.name \in resolved
        BY <1>1, <1>2, <1>3 DEF Inv, LoopInv, n
    <2>3. QED
        BY <2>1, <2>2 DEF Settled
<1>10. o \in DOMAIN configurations /\ frames[n].params = configurations[o]
    BY <1>2, <1>3 DEF Inv, RegisteredOnce, RegistryInv, o
<1>11. resolved = {ordered[k].name : k \in 1..m}
    BY <1>2 DEF Inv, RegisteredOnce
<1>12. TypeInv'
    BY <1>1, <1>4, <1>5, <1>7 DEF Inv, TypeInv
<1>13. resolved' \union {frames[k].owner : k \in DOMAIN frames \ {1}}'
          = resolved \union {frames[k].owner : k \in DOMAIN frames \ {1}}
    <2>1. \A k \in 1..n : k = n \/ k \in 1..(n - 1)
        BY <1>2
    <2>2. QED
        BY <1>1, <1>2, <1>3, <1>4, <2>1 DEF o
<1>14. RegisteredOnce'
    <2>1. (DOMAIN configurations = resolved \union
             (IF RootKind = "module" THEN {Root} ELSE {})
             \union {frames[k].owner : k \in DOMAIN frames \ {1}})'
        BY <1>1, <1>8, <1>13 DEF Inv, RegisteredOnce
    <2>2. (\A j, k \in DOMAIN frames : frames[j].owner = frames[k].owner =>
             j = k \/ (RootKind = "device" /\ 1 \in {j, k}))'
        BY <1>2, <1>4, <1>8 DEF Inv, RegisteredOnce
    <2>3. ASSUME NEW k \in 1..(n - 1), frames'[k].owner \in resolved'
          PROVE  k = 1 /\ RootKind = "device"
        <3>1. CASE frames[k].owner \in resolved
            BY <1>2, <1>4, <3>1 DEF Inv, RegisteredOnce
        <3>2. CASE frames[k].owner = o
            BY <1>2, <1>3, <1>4, <3>2 DEF Inv, RegisteredOnce, o
        <3>3. QED
            BY <1>1, <1>4, <2>3, <3>1, <3>2
    <2>4. ASSUME NEW j \in 1..(m + 1), NEW k \in 1..(m + 1), ordered'[j].name = ordered'[k].name
          PROVE  j = k
        <3>1. CASE j \in 1..m /\ k \in 1..m
            BY <1>2, <1>7, <2>4, <3>1 DEF Inv, RegisteredOnce
        <3>2. \A l \in 1..m : ordered[l].name # o
            BY <1>5, <1>11
        <3>3. CASE j = m + 1 /\ k \in 1..m
            BY <1>6, <1>7, <2>4, <3>2, <3>3
        <3>4. CASE j \in 1..m /\ k = m + 1
            BY <1>6, <1>7, <2>4, <3>2, <3>4
        <3>5. QED
            BY <1>2, <3>1, <3>3, <3>4
    <2>5. (resolved = {ordered[k].name : k \in DOMAIN ordered})'
        <3>1. \A k \in 1..(m + 1) : k = m + 1 \/ k \in 1..m
            BY <1>2
        <3>2. m + 1 \in 1..(m + 1) /\ \A k \in 1..m : k \in 1..(m + 1)
            BY <1>2
        <3>3. QED
            BY <1>1, <1>6, <1>7, <1>11, <3>1, <3>2
    <2>6. QED
        BY <1>4, <1>7, <1>8, <2>1, <2>2, <2>3, <2>4, <2>5 DEF RegisteredOnce
<1>15. DependencyFirst'
    <2>1. ASSUME NEW k \in 1..(m + 1)
          PROVE  Names(ModuleImports(ordered'[k].name)) \subseteq {ordered'[j].name : j \in 1..(k - 1)}
        <3>1. CASE k \in 1..m
            <4>1. Names(ModuleImports(ordered[k].name)) \subseteq {ordered[j].name : j \in 1..(k - 1)}
                BY <1>2, <3>1 DEF Inv, DependencyFirst
            <4>2. \A j \in 1..(k - 1) : ordered'[j].name = ordered[j].name
                BY <1>2, <1>7, <3>1
            <4>3. QED
                BY <1>7, <3>1, <4>1, <4>2
        <3>2. CASE k = m + 1
            <4>1. Names(ModuleImports(o)) \subseteq resolved
                BY <1>9, NamesOfRange DEF Settled
            <4>2. k - 1 = m
                BY <1>2, <3>2
            <4>3. resolved \subseteq {ordered'[j].name : j \in 1..(k - 1)}
                BY <1>7, <1>11, <4>2
            <4>4. QED
                BY <1>6, <1>7, <3>2, <4>1, <4>3
        <3>3. QED
            BY <1>2, <3>1, <3>2
    <2>2. QED
        BY <1>7, <1>8, <2>1 DEF DependencyFirst
<1>16. PathInv'
    BY <1>2, <1>4, <1>8 DEF Inv, PathInv
<1>17. LoadedInv'
    <2>1. Loaded' = Loaded
        BY <1>13 DEF Loaded
    <2>2. QED
        BY <1>1, <1>4, <1>8, <2>1 DEF Inv, LoadedInv
<1>18. LoopInv'
    <2>1. \A j : Agrees(j)' <=> Agrees(j)
        BY <1>1 DEF Agrees
    <2>2. ASSUME NEW k \in 1..(n - 1)
          PROVE  /\ frames'[k].todo \subseteq Range(FrameImports(k)')
                 /\ \A j \in Range(FrameImports(k)') \ frames'[k].todo :
                       /\ Agrees(j)'
                       /\ \/ j.name \in resolved'
                          \/ k < n - 1 /\ j.name = frames'[k + 1].owner
        <3>1. k \in 1..n /\ frames'[k] = frames[k]
            BY <1>4
        <3>2. FrameImports(k)' = FrameImports(k)
            BY <1>8, <3>1 DEF FrameImports
        <3>3. /\ frames[k].todo \subseteq Range(FrameImports(k))
              /\ \A j \in Range(FrameImports(k)) \ frames[k].todo :
                       /\ Agrees(j)
                       /\ \/ j.name \in resolved
                          \/ k < n /\ j.name = frames[k + 1].owner
            BY <1>1, <1>2, <3>1 DEF Inv, LoopInv, n
        <3>4. frames[k + 1].owner \in resolved' \/ (k < n - 1 /\ frames'[k + 1].owner = frames[k + 1].owner)
            <4>1. k + 1 = n \/ (k < n - 1 /\ k + 1 \in 1..(n - 1))
                BY <1>2
            <4>2. QED
                BY <1>1, <1>4, <4>1 DEF o
        <3>5. QED
            BY <1>1, <2>1, <3>1, <3>2, <3>3, <3>4
    <2>3. QED
        BY <1>1, <1>4, <2>2 DEF LoopInv
<1>19. SettledInv'
    <2>1. \A i : Settled(i) => Settled(i)'
        BY <1>1 DEF Settled, Agrees
    <2>2. RootKind = "module" => Root # o
        <3>1. 1 \in DOMAIN frames /\ n \in DOMAIN frames /\ frames[1].owner = Root
            BY <1>1, <1>2, <1>4 DEF Inv, PathInv
        <3>2. RootKind = "module" => frames[1].owner # frames[n].owner
            BY <1>3, <3>1 DEF Inv, RegisteredOnce
        <3>3. QED
            BY <3>1, <3>2 DEF o
    <2>3. QED
        BY <1>1, <1>8, <1>9, <2>1, <2>2 DEF Inv, SettledInv
<1>20. RegistryInv'
    <2>1. (\A k \in DOMAIN ordered : ordered[k].params = configurations[ordered[k].name])'
        <3>1. \A k \in 1..(m + 1) : k = m + 1 \/ k \in 1..m
            BY <1>2
        <3>2. QED
            BY <1>1, <1>2, <1>6, <1>7, <1>10, <3>1 DEF Inv, RegistryInv
    <2>2. (\A k \in DOMAIN frames : k # 1 => frames[k].params = configurations[frames[k].owner])'
        BY <1>1, <1>2, <1>4 DEF Inv, RegistryInv
    <2>3. QED
        BY <1>1, <1>8, <2>1, <2>2 DEF Inv, RegistryInv
<1>21. ErrorInv'
    BY <1>1, <1>8 DEF ErrorInv, Errors
<1>22. QED
    BY <1>12, <1>14, <1>15, <1>16, <1>17, <1>18, <1>19, <1>20, <1>21 DEF Inv

LEMMA FinishRootStep ==
    ASSUME Inv, FinishRoot
    PROVE  Inv'
<1>1. /\ result = "resolving" /\ Len(frames) = 1 /\ frames[1].todo = {}
      /\ frames' = << >>
      /\ result' = IF RootKind = "device" /\ Root \in resolved THEN "collision" ELSE "resolved"
      /\ UNCHANGED <<project, configurations, resolved, ordered>>
    BY DEF FinishRoot, Top
<1>2. DOMAIN frames = {1} /\ (DOMAIN frames)' = {} /\ frames # << >> /\ frames' \in Seq(Frames)
    <2>1. frames \in Seq(Frames) /\ Len(frames) = 1
        BY <1>1 DEF Inv, TypeInv
    <2>2. DOMAIN frames = {1} /\ frames # << >>
        BY <2>1
    <2>3. (DOMAIN frames)' = {} /\ frames' \in Seq(Frames)
        BY <1>1
    <2>4. QED
        BY <2>2, <2>3
<1> USE SameProject
<1>3. UNCHANGED project
    BY <1>1
<1>4. TypeInv'
    BY <1>1, <1>2 DEF Inv, TypeInv, Errors
<1>5. {frames[k].owner : k \in DOMAIN frames \ {1}}' = {frames[k].owner : k \in DOMAIN frames \ {1}}
    BY <1>2
<1>6. RegisteredOnce'
    BY <1>1, <1>2, <1>3, <1>5 DEF Inv, RegisteredOnce
<1>7. DependencyFirst'
    BY <1>1, <1>3 DEF Inv, DependencyFirst
<1>8. PathInv'
    BY <1>1, <1>2 DEF PathInv
<1>9. Loaded' = Loaded
    BY <1>1, <1>5 DEF Loaded
<1>10. LoadedInv'
    BY <1>1, <1>2, <1>3, <1>9 DEF Inv, LoadedInv
<1>11. LoopInv'
    BY <1>1 DEF LoopInv
<1>12. SettledInv'
    <2>1. \A i \in Range(RootImports) : Settled(i)
        BY <1>1, <1>2 DEF Inv, LoopInv, FrameImports, Settled
    <2>2. result' = "resolved" => Root \notin resolved
        BY <1>1, ProjectsAssumption DEF Inv, SettledInv, TypeInv, RootKind
    <2>3. \A i : Settled(i)' <=> Settled(i)
        BY <1>1 DEF Settled, Agrees
    <2>4. QED
        BY <1>1, <1>3, <2>1, <2>2, <2>3 DEF Inv, SettledInv
<1>13. RegistryInv'
    BY <1>1, <1>2, <1>3 DEF Inv, RegistryInv
<1>14. ErrorInv'
    <2>1. RootKind = "device" /\ Root \in resolved => Fault("collision")
        BY DEF Inv, LoadedInv, Loaded, Fault, HasCollision
    <2>2. QED
        BY <1>1, <1>3, <2>1 DEF ErrorInv, Errors
<1>15. QED
    BY <1>4, <1>6, <1>7, <1>8, <1>10, <1>11, <1>12, <1>13, <1>14 DEF Inv

-----------------------------------------------------------------------------
LEMMA InitEstablishesInv == Init => Inv
<1> SUFFICES ASSUME Init PROVE Inv
    OBVIOUS
<1>1. /\ project \in Projects
      /\ frames = << >> /\ resolved = {} /\ ordered = << >> /\ result = "resolving"
      /\ configurations = RootConfiguration(project)
    BY DEF Init, Begin
<1>2. DOMAIN frames = {} /\ DOMAIN ordered = {}
    BY <1>1
<1>3. DOMAIN configurations = IF RootKind = "module" THEN {Root} ELSE {}
    BY <1>1 DEF RootConfiguration, RootKind, Root
<1>4. TypeInv
    BY <1>1 DEF TypeInv, Errors
<1>5. RegisteredOnce
    BY <1>1, <1>2, <1>3 DEF RegisteredOnce
<1>6. DependencyFirst /\ PathInv
    BY <1>1, <1>2 DEF DependencyFirst, PathInv
<1>7. LoadedInv
    BY <1>1, <1>2 DEF LoadedInv, Loaded
<1>8. LoopInv /\ SettledInv
    BY <1>1, <1>2 DEF LoopInv, SettledInv
<1>9. RegistryInv
    BY <1>1, <1>2, <1>3 DEF RegistryInv
<1>10. ErrorInv
    BY <1>1 DEF ErrorInv, Errors
<1>11. QED
    BY <1>4, <1>5, <1>6, <1>7, <1>8, <1>9, <1>10 DEF Inv

LEMMA NextKeepsInv == Inv /\ [Next]_vars => Inv'
<1> SUFFICES ASSUME Inv, [Next]_vars PROVE Inv'
    OBVIOUS
<1>1. CASE RejectRootDuplicate
    BY <1>1, RejectRootDuplicateStep
<1>2. CASE EnterRoot
    BY <1>2, EnterRootStep
<1>3. CASE RejectCycle
    BY <1>3, RejectCycleStep
<1>4. CASE RejectConflict
    BY <1>4, RejectConflictStep
<1>5. CASE Reuse
    BY <1>5, ReuseStep
<1>6. CASE RejectInvalidName \/ RejectUnknown \/ RejectBroken \/ CrashOnUndecodable
    BY <1>6, RejectFileStep
<1>7. CASE RejectDuplicate
    BY <1>7, RejectDuplicateStep
<1>8. CASE Descend
    BY <1>8, DescendStep
<1>9. CASE Return
    BY <1>9, ReturnStep
<1>10. CASE FinishRoot
    BY <1>10, FinishRootStep
<1>11. CASE UNCHANGED vars
    BY <1>11, FrozenKeepsInv DEF vars
<1>12. QED
    BY <1>1, <1>2, <1>3, <1>4, <1>5, <1>6, <1>7, <1>8, <1>9, <1>10, <1>11 DEF Next

LEMMA InvHolds == Spec => []Inv
BY InitEstablishesInv, NextKeepsInv, PTL DEF Spec

-----------------------------------------------------------------------------
\* A graph that is resolved is the whole closure: the resolved modules include
\* the root's imports and are closed under imports.
LEMMA ResolvedIsClosure ==
    ASSUME Inv, result = "resolved"
    PROVE  resolved = Closure
<1>1. resolved \subseteq Closure /\ resolved \subseteq Modules
    BY DEF Inv, TypeInv, LoadedInv, Loaded
<1>2. Names(RootImports) \subseteq resolved
    BY NamesOfRange DEF Inv, SettledInv, Settled
<1>3. \A m \in resolved : Names(ModuleImports(m)) \subseteq resolved
    BY NamesOfRange DEF Inv, SettledInv, Settled
<1>4. QED
    BY <1>1, <1>2, <1>3, ClosureIsLeast

\* Every import is settled then, so any two of one module agree.
LEMMA ResolvedImportsAgree ==
    ASSUME Inv, result = "resolved"
    PROVE  \A i \in FollowedImports : Agrees(i)
BY ResolvedIsClosure DEF FollowedImports, Inv, SettledInv, Settled

\* An order in which every module comes after its imports leaves no cycle: what
\* is below a module is among those before it.
LEMMA ResolvedHasNoCycle ==
    ASSUME Inv, result = "resolved"
    PROVE  ~HasCycle
<1>1. ~(RootKind = "module" /\ Root \in Closure)
    BY ResolvedIsClosure DEF Inv, SettledInv
<1>2. ASSUME NEW m \in Closure, m \in Below(m)
      PROVE  FALSE
    <2>1. ordered \in Seq(Imports) /\ resolved = {ordered[k].name : k \in DOMAIN ordered}
        BY DEF Inv, TypeInv, RegisteredOnce
    <2>2. DOMAIN ordered = 1..Len(ordered) /\ Len(ordered) \in Nat
        BY <2>1
    <2>3. PICK k \in DOMAIN ordered : ordered[k].name = m
        BY <2>1, ResolvedIsClosure
    <2> DEFINE S == {ordered[j].name : j \in 1..(k - 1)}
    <2>4. \A j \in 1..(k - 1) : j \in DOMAIN ordered /\ j # k
        BY <2>2, <2>3
    <2>5. S \in SUBSET Modules
        BY <2>1, <2>4 DEF Inv, TypeInv
    <2>6. Names(ModuleImports(m)) \subseteq S
        BY <2>3 DEF Inv, DependencyFirst
    <2>7. \A n \in S : Names(ModuleImports(n)) \subseteq S
        <3>1. SUFFICES ASSUME NEW j \in 1..(k - 1)
                       PROVE  Names(ModuleImports(ordered[j].name)) \subseteq S
            OBVIOUS
        <3>2. Names(ModuleImports(ordered[j].name)) \subseteq {ordered[l].name : l \in 1..(j - 1)}
            BY <2>4 DEF Inv, DependencyFirst
        <3>3. \A l \in 1..(j - 1) : l \in 1..(k - 1)
            BY <2>2, <2>3
        <3>4. QED
            BY <3>2, <3>3
    <2> HIDE DEF S
    <2>8. m \in S
        BY <1>2, <2>5, <2>6, <2>7, BelowIsLeast
    <2>9. PICK j \in 1..(k - 1) : ordered[j].name = m
        BY <2>8 DEF S
    <2>10. QED
        BY <2>3, <2>4, <2>9 DEF Inv, RegisteredOnce
<1>3. QED
    BY <1>1, <1>2 DEF HasCycle

LEMMA ResolvedIsSound ==
    ASSUME Inv, result = "resolved"
    PROVE  \A e \in Errors : ~Fault(e)
<1>1. ~HasConflict
    BY ResolvedImportsAgree DEF HasConflict, Agrees, SameParams
<1>2. ~HasInvalidName /\ ~HasMissing /\ ~HasBroken /\ ~HasUndecodable
    BY ResolvedIsClosure
       DEF Inv, LoadedInv, Loaded, HasInvalidName, HasMissing, HasBroken, HasUndecodable
<1>3. ~HasDuplicateImport
    BY ResolvedIsClosure DEF Inv, LoadedInv, Loaded, HasDuplicateImport
<1>4. ~HasCollision
    BY ResolvedIsClosure DEF Inv, SettledInv, HasCollision
<1>5. QED
    BY <1>1, <1>2, <1>3, <1>4, ResolvedHasNoCycle DEF Fault

-----------------------------------------------------------------------------
\* _ModuleResolver keeps one configuration for each module that is on its stack
\* or resolved, and no module is both: no file is loaded twice.
THEOREM RegistersOnce == Spec => []RegisteredOnce
<1>1. Inv => RegisteredOnce
    BY DEF Inv
<1>2. QED
    BY <1>1, InvHolds, PTL

\* _resolve_import appends a module after everything that the module imports.
THEOREM OrdersDependenciesFirst == Spec => []DependencyFirst
<1>1. Inv => DependencyFirst
    BY DEF Inv
<1>2. QED
    BY <1>1, InvHolds, PTL

\* resolve() returns the closure of the root's imports, and only of a project
\* without a fault; an error that it raises is one the project has.
THEOREM ResolvesSoundProjects == Spec => []ResolvesExactlySoundProjects
<1>1. Inv => ResolvesExactlySoundProjects
    BY ResolvedIsClosure, ResolvedIsSound DEF Inv, ErrorInv, ResolvesExactlySoundProjects
<1>2. QED
    BY <1>1, InvHolds, PTL

\* The configuration that resolve() returns for a module is == to the one that
\* any import of it in the graph asks for.
THEOREM ResolvesAgreedConfigurations == Spec => []ConfigurationsAgree
<1>1. Inv => ConfigurationsAgree
    <2> SUFFICES ASSUME Inv, result = "resolved", NEW i \in FollowedImports,
                        NEW k \in DOMAIN ordered, ordered[k].name = i.name
                 PROVE  SameParams(ordered[k].params, i.params)
        BY DEF ConfigurationsAgree
    <2>1. Agrees(i)
        BY ResolvedImportsAgree
    <2>2. ordered[k].params = configurations[i.name]
        BY DEF Inv, RegistryInv
    <2>3. QED
        BY <2>1, <2>2 DEF Agrees
<1>2. QED
    BY <1>1, InvHolds, PTL
=============================================================================
