--------------------------- MODULE CommandsProofs ---------------------------
(***************************************************************************)
(* Proofs about the commands, for every project and every session: what    *)
(* validate-all says of a file is what the file is, and every command      *)
(* after it finds the same.                                                *)
(***************************************************************************)
EXTENDS Commands, TLAPS, SequenceTheorems, WellFoundedInduction

\* The projects that a resolution can be called for.
AllProjects ==
    [root : Nat, kind : {"device", "module"}, imports : Seq(Imports),
     files : [Modules -> [kind : FileKinds, imports : Seq(Imports)]]]

\* The resolver with what is proved of it.
R == INSTANCE ModuleResolverProofs WITH Projects <- AllProjects

-----------------------------------------------------------------------------
\* The modules that are reached from the names N.
Reached(P, N) ==
    {n \in Modules : \A S \in SUBSET Modules :
        N \union UNION {Names(P.files[k].imports) : k \in S} \subseteq S => n \in S}

LEMMA GraphReached ==
    ASSUME NEW P
    PROVE  /\ Graph(P)!Closure = Reached(P, Names(P.imports))
           /\ \A m \in Modules : Graph(P)!Below(m) = Reached(P, Names(P.files[m].imports))
BY DEF Graph!Closure, Graph!Below, Graph!ImportedBy, Reached, Graph!RootImports, Graph!ModuleImports,
       Graph!Names, Names

LEMMA ProjectNames ==
    ASSUME NEW P \in AllProjects
    PROVE  /\ Names(P.imports) \subseteq Modules
           /\ \A m \in Modules : Names(P.files[m].imports) \subseteq Modules
<1>1. ASSUME NEW s \in Seq(Imports)
      PROVE  Names(s) \subseteq Modules
  <2>1. \A k \in DOMAIN s : s[k] \in Imports
    OBVIOUS
  <2> QED
    BY <2>1 DEF Names, Imports
<1>2. P.imports \in Seq(Imports) /\ \A m \in Modules : P.files[m].imports \in Seq(Imports)
  BY DEF AllProjects
<1> QED
  BY <1>1, <1>2

LEMMA ReachedIsClosed ==
    ASSUME NEW P \in AllProjects, NEW N, N \subseteq Modules
    PROVE  /\ Reached(P, N) \subseteq Modules
           /\ N \subseteq Reached(P, N)
           /\ \A m \in Reached(P, N) : Names(P.files[m].imports) \subseteq Reached(P, N)
<1>1. Reached(P, N) \subseteq Modules
  BY DEF Reached
<1>2. N \subseteq Reached(P, N)
  BY DEF Reached
<1>3. ASSUME NEW m \in Reached(P, N), NEW n \in Names(P.files[m].imports)
      PROVE  n \in Reached(P, N)
  <2>1. m \in Modules /\ n \in Modules
    BY <1>1, <1>3, ProjectNames
  <2>2. ASSUME NEW S \in SUBSET Modules,
               N \union UNION {Names(P.files[k].imports) : k \in S} \subseteq S
        PROVE  n \in S
    <3>1. m \in S
      BY <1>3, <2>2 DEF Reached
    <3> QED
      BY <1>3, <2>2, <3>1
  <2> QED
    BY <2>1, <2>2 DEF Reached
<1> QED
  BY <1>1, <1>2, <1>3

LEMMA ReachedIsLeast ==
    ASSUME NEW P, NEW N, NEW S \in SUBSET Modules, N \subseteq S,
           \A m \in S : Names(P.files[m].imports) \subseteq S
    PROVE  Reached(P, N) \subseteq S
<1>1. N \union UNION {Names(P.files[k].imports) : k \in S} \subseteq S
  OBVIOUS
<1> QED
  BY <1>1 DEF Reached

\* The resolver's faults are those of the graph of its project.
LEMMA ResolverGraph ==
    /\ R!Closure = Graph(project)!Closure
    /\ \A e : R!Fault(e) <=> Graph(project)!Fault(e)
<1> USE DEF R!Names, Graph!Names, R!RootImports, Graph!RootImports, R!ModuleImports,
            Graph!ModuleImports, R!Root, Graph!Root, R!RootKind, Graph!RootKind
<1>1. R!Closure = Graph(project)!Closure
  BY DEF R!Closure, Graph!Closure, R!ImportedBy, Graph!ImportedBy
<1>2. \A m : R!Below(m) = Graph(project)!Below(m)
  BY DEF R!Below, Graph!Below
<1>3. R!HasCycle <=> Graph(project)!HasCycle
  BY <1>1, <1>2 DEF R!HasCycle, Graph!HasCycle
<1>4. R!HasConflict <=> Graph(project)!HasConflict
  <2>1. R!FollowedImports = Graph(project)!FollowedImports
    BY <1>1 DEF R!FollowedImports, Graph!FollowedImports, R!Range, Graph!Range
  <2> QED
    BY <2>1 DEF R!HasConflict, Graph!HasConflict, R!SameParams, Graph!SameParams
<1>5. R!HasDuplicateImport <=> Graph(project)!HasDuplicateImport
  BY <1>1 DEF R!HasDuplicateImport, Graph!HasDuplicateImport, R!HasDuplicates, Graph!HasDuplicates
<1>6. /\ R!HasInvalidName <=> Graph(project)!HasInvalidName
      /\ R!HasMissing <=> Graph(project)!HasMissing
      /\ R!HasBroken <=> Graph(project)!HasBroken
      /\ R!HasUndecodable <=> Graph(project)!HasUndecodable
      /\ R!HasCollision <=> Graph(project)!HasCollision
  BY <1>1 DEF R!HasInvalidName, Graph!HasInvalidName, R!HasMissing, Graph!HasMissing, R!HasBroken,
              Graph!HasBroken, R!HasUndecodable, Graph!HasUndecodable, R!HasCollision,
              Graph!HasCollision
<1> QED
  BY <1>1, <1>3, <1>4, <1>5, <1>6 DEF R!Fault, Graph!Fault

-----------------------------------------------------------------------------
\* What is proved of the resolver holds of it here.
LEMMA ResolverAssumptions == R!ModulesAssumption /\ R!ParamsAssumption /\ R!ProjectsAssumption
BY ModulesAssumption, ParamsAssumption
   DEF R!ModulesAssumption, R!ParamsAssumption, R!ProjectsAssumption, AllProjects, Imports, R!Imports,
       FileKinds, R!FileKinds

LEMMA ResolverBegins == R!Init => R!Inv
BY R!InitEstablishesInv, ResolverAssumptions

LEMMA ResolverBeginsNext == R!Init' => R!Inv'
BY ResolverBegins, PTL

LEMMA ResolverCalled ==
    ASSUME NEW P \in AllProjects, Resolution!Call(P)
    PROVE  R!Inv'
<1>1. R!Init'
  BY DEF Resolution!Call, R!Init, R!Begin, Resolution!RootConfiguration, R!RootConfiguration
<1> QED
  BY <1>1, ResolverBeginsNext

\* It is the same resolver: every step of it is one of those proved about.
LEMMA ResolverNext == Resolution!Next => R!Next
<1> USE DEF Resolution!Top, R!Top, Resolution!RootKind, R!RootKind, Resolution!Root, R!Root,
            Resolution!RootImports, R!RootImports, Resolution!ModuleImports, R!ModuleImports,
            Resolution!Imports, R!Imports, Resolution!Range, R!Range,
            Resolution!HasDuplicates, R!HasDuplicates, Resolution!SameParams, R!SameParams,
            Resolution!OnStack, R!OnStack, Resolution!CurrentImport, R!CurrentImport,
            Resolution!Importing, R!Importing, Resolution!Conflicts, R!Conflicts,
            Resolution!Loading, R!Loading, Resolution!Fail, R!Fail, Resolution!Frame, R!Frame,
            Resolution!Without, R!Without, Resolution!Configure, R!Configure
<1>1. Resolution!RejectRootDuplicate => R!RejectRootDuplicate
  BY DEF Resolution!RejectRootDuplicate, R!RejectRootDuplicate
<1>2. Resolution!EnterRoot => R!EnterRoot
  BY DEF Resolution!EnterRoot, R!EnterRoot
<1>3. Resolution!RejectCycle => R!RejectCycle
  BY DEF Resolution!RejectCycle, R!RejectCycle
<1>4. Resolution!RejectConflict => R!RejectConflict
  BY DEF Resolution!RejectConflict, R!RejectConflict
<1>5. Resolution!Reuse => R!Reuse
  BY DEF Resolution!Reuse, R!Reuse
<1>6. Resolution!RejectInvalidName => R!RejectInvalidName
  BY DEF Resolution!RejectInvalidName, R!RejectInvalidName
<1>7. Resolution!RejectUnknown => R!RejectUnknown
  BY DEF Resolution!RejectUnknown, R!RejectUnknown
<1>8. Resolution!RejectBroken => R!RejectBroken
  BY DEF Resolution!RejectBroken, R!RejectBroken
<1>9. Resolution!CrashOnUndecodable => R!CrashOnUndecodable
  BY DEF Resolution!CrashOnUndecodable, R!CrashOnUndecodable
<1>10. Resolution!RejectDuplicate => R!RejectDuplicate
  BY DEF Resolution!RejectDuplicate, R!RejectDuplicate
<1>11. Resolution!Descend => R!Descend
  BY DEF Resolution!Descend, R!Descend
<1>12. Resolution!Return => R!Return
  BY DEF Resolution!Return, R!Return
<1>13. Resolution!FinishRoot => R!FinishRoot
  BY DEF Resolution!FinishRoot, R!FinishRoot
<1> QED
  BY <1>1, <1>2, <1>3, <1>4, <1>5, <1>6, <1>7, <1>8, <1>9, <1>10, <1>11, <1>12, <1>13
     DEF Resolution!Next, R!Next

LEMMA ResolverStep ==
    ASSUME R!Inv, [Resolution!Next]_resolutionVars
    PROVE  R!Inv'
<1>1. [R!Next]_R!vars
  BY ResolverNext DEF resolutionVars, R!vars
<1> QED
  BY <1>1, R!NextKeepsInv, ResolverAssumptions

-----------------------------------------------------------------------------
\* The files of a project.

LEMMA DocumentType ==
    ASSUME source \in Sources, NEW p
    PROVE  /\ p \in Paths => p \in Directories \X Nat
           /\ IsDefinition(p) \/ Document(p) \in DOMAIN ParseErrors
           /\ IsDefinition(p) =>
                 /\ p \in Paths
                 /\ source[p].kind \in {"device", "module"}
                 /\ source[p].kind = "device" => source[p].name \in Nat
                 /\ source[p].imports \in Seq(Imports)
<1>1. "valid" \notin DOMAIN ParseErrors /\ "unreadable" \in DOMAIN ParseErrors
  BY DEF ParseErrors
<1> QED
  BY <1>1, SourcesAssumption DEF Paths, IsDefinition, Document

LEMMA ProjectType ==
    ASSUME source \in Sources, NEW p, IsDefinition(p)
    PROVE  ProjectOf(p) \in AllProjects
<1>1. p[2] \in Nat
  BY DocumentType
<1>2. Namespace(p) \in Nat
  BY <1>1, DocumentType DEF Namespace, IsDevice
<1>3. ASSUME NEW m \in Modules
      PROVE  ImportedFile(m) \in [kind : FileKinds, imports : Seq(Imports)]
  <2>1. << >> \in Seq(Imports)
    OBVIOUS
  <2> QED
    BY <2>1, DocumentType DEF ImportedFile, File, FileKinds
<1> QED
  BY <1>2, <1>3, DocumentType DEF ProjectOf, AllProjects

\* The errors that a file may be reported with.
AllErrors == Errors \union Checks \union Range(ParseErrors)

LEMMA FaultIsError ==
    ASSUME source \in Sources, NEW p, NEW e, HasFault(p, e)
    PROVE  e \in AllErrors /\ e # "ok" /\ ~IsSound(p)
<1>1. ASSUME NEW d \in DOMAIN ParseErrors
      PROVE  ParseErrors[d] \in Range(ParseErrors) /\ ParseErrors[d] # "ok"
  BY DEF Range, ParseErrors
<1>2. e \in AllErrors /\ e # "ok"
  BY <1>1, DocumentType DEF HasFault, AllErrors, Errors, Checks
<1> QED
  BY <1>2 DEF IsSound, AllErrors

\* What a sound definition needs is there and can be imported.
LEMMA NeededIsImported ==
    ASSUME source \in Sources, NEW p, IsDefinition(p),
           \A e \in Errors : ~Graph(ProjectOf(p))!Fault(e),
           NEW m \in Graph(ProjectOf(p))!Closure
    PROVE  /\ m \in Modules
           /\ IsDefinition(ModulePath(m)) /\ ~IsDevice(ModulePath(m))
           /\ ModulePath(m) \in Paths
           /\ ProjectOf(p).files[m].imports = source[ModulePath(m)].imports
<1>1. ProjectOf(p) \in AllProjects
  BY ProjectType
<1>2. m \in Modules
  BY <1>1, GraphReached, ProjectNames, ReachedIsClosed
<1>3. m \notin InvalidNames
  BY DEF Graph!Fault, Graph!HasInvalidName, Errors
<1>4. ProjectOf(p).files[m] = ImportedFile(m)
  BY <1>2 DEF ProjectOf
<1>5. ImportedFile(m).kind \notin {"missing", "broken", "undecodable"}
  BY <1>3, <1>4 DEF Graph!Fault, Graph!HasMissing, Graph!HasBroken, Graph!HasUndecodable, Errors
<1>6. /\ IsDefinition(ModulePath(m)) /\ ~IsDevice(ModulePath(m)) /\ ModulePath(m) \in Paths
      /\ ImportedFile(m).imports = source[ModulePath(m)].imports
  BY <1>5 DEF ImportedFile, File
<1> QED
  BY <1>2, <1>4, <1>6

\* What a module needs, whatever needs the module: the graph of q is within
\* that of p, and so are its faults.
LEMMA ImportedGraph ==
    ASSUME source \in Sources, NEW p, IsDefinition(p),
           \A e \in Errors : ~Graph(ProjectOf(p))!Fault(e),
           NEW m \in Graph(ProjectOf(p))!Closure
    PROVE  /\ Graph(ProjectOf(ModulePath(m)))!Closure \subseteq Graph(ProjectOf(p))!Closure
           /\ \A e \in Errors : ~Graph(ProjectOf(ModulePath(m)))!Fault(e)
<1> DEFINE q == ModulePath(m)
           P == ProjectOf(p)
           Q == ProjectOf(q)
           CP == Graph(P)!Closure
           CQ == Graph(Q)!Closure
<1>1. /\ m \in Modules /\ IsDefinition(q) /\ ~IsDevice(q)
      /\ P.files[m].imports = source[q].imports
  BY NeededIsImported
<1>2. P \in AllProjects /\ Q \in AllProjects
  BY <1>1, ProjectType
<1>3. Q.files = P.files /\ Q.imports = P.files[m].imports /\ Q.kind = "module" /\ Q.root = m
  BY <1>1, DocumentType DEF ProjectOf, Namespace, IsDevice, ModulePath
<1> HIDE DEF P, Q, q
<1>4. /\ CP \subseteq Modules
      /\ \A k \in CP : Names(P.files[k].imports) \subseteq CP
  BY <1>2, GraphReached, ProjectNames, ReachedIsClosed
<1>5. CQ = Reached(Q, Names(P.files[m].imports))
  BY <1>3, GraphReached
<1>6. CQ \subseteq CP
  BY <1>3, <1>4, <1>5, ReachedIsLeast DEF P
<1>7. \A N : Reached(Q, N) = Reached(P, N)
  BY <1>3 DEF Reached
<1>8. /\ \A k \in Modules : Graph(Q)!Below(k) = Graph(P)!Below(k)
      /\ CQ = Graph(P)!Below(m)
  BY <1>1, <1>3, <1>5, <1>7, GraphReached
<1>9. ~Graph(P)!HasCycle /\ ~Graph(P)!HasConflict /\ ~Graph(P)!HasInvalidName
      /\ ~Graph(P)!HasMissing /\ ~Graph(P)!HasBroken /\ ~Graph(P)!HasUndecodable
      /\ ~Graph(P)!HasDuplicateImport
  BY DEF Graph!Fault, Errors, P
<1>10. ~Graph(Q)!HasCycle
  BY <1>3, <1>4, <1>6, <1>8, <1>9 DEF Graph!HasCycle, Graph!Root, Graph!RootKind, P
<1>11. ~Graph(Q)!HasConflict
  <2>1. Graph(Q)!FollowedImports \subseteq Graph(P)!FollowedImports
    BY <1>3, <1>6 DEF Graph!FollowedImports, Graph!RootImports, Graph!ModuleImports, Graph!Range, P
  <2> QED
    BY <1>9, <2>1 DEF Graph!HasConflict, Graph!SameParams
<1>12. ~Graph(Q)!HasInvalidName /\ ~Graph(Q)!HasMissing /\ ~Graph(Q)!HasBroken
       /\ ~Graph(Q)!HasUndecodable
  BY <1>3, <1>6, <1>9
     DEF Graph!HasInvalidName, Graph!HasMissing, Graph!HasBroken, Graph!HasUndecodable
<1>13. ~Graph(Q)!HasDuplicateImport
  BY <1>3, <1>6, <1>9
     DEF Graph!HasDuplicateImport, Graph!HasDuplicates, Graph!RootImports, Graph!ModuleImports, P
<1>14. ~Graph(Q)!HasCollision
  BY <1>3 DEF Graph!HasCollision, Graph!RootKind
<1>15. \A e \in Errors : ~Graph(Q)!Fault(e)
  BY <1>10, <1>11, <1>12, <1>13, <1>14 DEF Graph!Fault
<1> QED
  BY <1>6, <1>15 DEF P, Q, q

\* So a definition is sound only if the files it needs are.
LEMMA NeededIsSound ==
    ASSUME source \in Sources, NEW p, IsDefinition(p), IsSound(p), NEW q \in Needed(p)
    PROVE  q \in Paths /\ IsSound(q)
<1>1. \A e \in Errors : ~Graph(ProjectOf(p))!Fault(e)
  BY DEF IsSound, HasFault
<1>2. Needed(p) \subseteq Paths
  BY <1>1, NeededIsImported, DocumentType DEF Needed
<1>3. CASE q = p
  BY <1>2, <1>3
<1>4. CASE q # p
  <2>1. PICK m \in Graph(ProjectOf(p))!Closure : q = ModulePath(m)
    BY <1>4 DEF Needed
  <2>2. IsDefinition(q) /\ \A e \in Errors : ~Graph(ProjectOf(q))!Fault(e)
    BY <1>1, <2>1, NeededIsImported, ImportedGraph
  <2>3. Needed(q) \subseteq Needed(p)
    BY <1>1, <2>1, ImportedGraph DEF Needed
  <2>4. \A e \in Checks : ~IsFaulty(Needed(p), e)
    <3>1. Checks \intersect Errors = {}
      BY DEF Checks, Errors
    <3> QED
      BY <1>2, <3>1 DEF IsSound, HasFault
  <2>5. \A e \in Checks : ~IsFaulty(Needed(q), e)
    BY <2>3, <2>4 DEF IsFaulty, Clash
  <2>6. \A e : ~HasFault(q, e)
    BY <1>2, <2>2, <2>3, <2>5 DEF HasFault
  <2> QED
    BY <1>2, <2>6 DEF IsSound
<1> QED
  BY <1>3, <1>4
-----------------------------------------------------------------------------
\* The inductive invariant.

\* What a verdict has to be: the definition is sound, or the file has the fault.
IsRight(p, verdict) == IF verdict = "ok" THEN IsSound(p) ELSE HasFault(p, verdict)

AllRight(v) == \A p \in DOMAIN v : IsRight(p, v[p])
AllOK(v) == \A p \in DOMAIN v : v[p] = "ok"

TypeInv ==
    /\ source \in Sources
    /\ history \in Seq(Range(history))
    /\ stage \in {"idle", "refused", "parse", "modules", "answer"} \union Checks
    /\ todo \subseteq Directories \X Nat

\* The command that runs, and the files it has still to judge.
CommandInv ==
    /\ stage = "idle" => command = None /\ verdicts = << >> /\ failures = 0
    /\ stage # "idle" =>
          /\ command \in Commands
          /\ stage = "refused" <=> command.name = "generate" /\ ~command.argumentOK
          /\ ~IsLoop => todo = {command.path} \ {None}

\* validate-all has a right verdict on the files that it has judged.
LoopInv ==
    stage # "idle" /\ IsLoop =>
        /\ todo \intersect DOMAIN verdicts = {}
        /\ todo \union DOMAIN verdicts = Paths
        /\ AllRight(verdicts)
        /\ failures \in Nat
        /\ failures = 0 <=> AllOK(verdicts)

\* Beyond its parse, a definition is in the hands of the resolver, and the
\* checks it has come through found nothing.
PassedChecks ==
    [types |-> {}, allocation |-> {"types"}, references |-> {"types", "allocation"},
     mapping |-> {"types", "allocation", "references"}, answer |-> Checks]

StageInv ==
    /\ stage \in {"modules", "answer"} \union Checks =>
          /\ todo # {}
          /\ IsDefinition(Path)
          /\ NeedsDevice => IsDevice(Path)
          /\ project = ProjectOf(Path)
          /\ R!Inv
    /\ stage \in {"answer"} \union Checks =>
          /\ result = "resolved"
          /\ \A s \in PassedChecks[stage] : ~IsFaulty(Owners(Path), s)

\* A summary of validate-all, and the answer of another command on one file.
IsRightSummary(h) ==
    /\ DOMAIN h.verdicts \subseteq Paths
    /\ AllRight(h.verdicts)
    /\ h.status \in {"success", "failure"} =>
          /\ DOMAIN h.verdicts = Paths
          /\ h.status = "success" <=> AllOK(h.verdicts)
    /\ h.status = "traceback" => \E p \in Paths \ DOMAIN h.verdicts : HasFault(p, "undecodable")

IsRightAnswer(h) ==
    LET p == h.command.path IN
    p \in Paths =>
        (h.status = "success" <=>
            /\ IsSound(p)
            /\ h.command.name = "validate" \/ (IsDevice(p) /\ h.command.argumentOK))

IsRightEntry(h) ==
    IF h.command.name = "validate-all" THEN IsRightSummary(h) ELSE IsRightAnswer(h)

HistoryInv ==
    \A k \in DOMAIN history : history[k].command \in Commands /\ IsRightEntry(history[k])

Inv ==
    /\ TypeInv
    /\ CommandInv
    /\ LoopInv
    /\ StageInv
    /\ HistoryInv

\* No command changes a file, nor therefore what is true of one.
LEMMA SameSource ==
    ASSUME UNCHANGED source
    PROVE  /\ Paths' = Paths
           /\ \A p : /\ IsDefinition(p)' <=> IsDefinition(p)
                     /\ IsDevice(p)' <=> IsDevice(p)
                     /\ ProjectOf(p)' = ProjectOf(p)
                     /\ Needed(p)' = Needed(p)
                     /\ IsSound(p)' <=> IsSound(p)
                     /\ \A e : HasFault(p, e)' <=> HasFault(p, e)
           /\ \A S, s : IsFaulty(S, s)' <=> IsFaulty(S, s)
<1>1. Paths' = Paths
  BY DEF Paths
<1>2. ASSUME NEW p
      PROVE  /\ Document(p)' = Document(p)
             /\ IsDefinition(p)' <=> IsDefinition(p)
             /\ IsDevice(p)' <=> IsDevice(p)
  BY <1>1 DEF IsDevice, IsDefinition, Document
<1>3. \A S, s : IsFaulty(S, s)' <=> IsFaulty(S, s)
  BY DEF IsFaulty, Clash
<1>4. \A m : ImportedFile(m)' = ImportedFile(m)
  BY <1>1, <1>2 DEF ImportedFile
<1>5. \A p : ProjectOf(p)' = ProjectOf(p)
  BY <1>2, <1>4 DEF ProjectOf, Namespace
<1>6. \A p : Needed(p)' = Needed(p)
  BY <1>5 DEF Needed
<1>7. \A p, e : HasFault(p, e)' <=> HasFault(p, e)
  BY <1>1, <1>2, <1>3, <1>5, <1>6 DEF HasFault
<1>8. \A p : IsSound(p)' <=> IsSound(p)
  BY <1>7 DEF IsSound
<1> QED
  BY <1>1, <1>2, <1>3, <1>5, <1>6, <1>7, <1>8

LEMMA SameEntries ==
    ASSUME UNCHANGED source
    PROVE  /\ \A p, e : IsRight(p, e)' <=> IsRight(p, e)
           /\ \A v : AllRight(v)' <=> AllRight(v)
           /\ \A h : IsRightEntry(h)' <=> IsRightEntry(h)
<1>1. \A p, e : IsRight(p, e)' <=> IsRight(p, e)
  BY SameSource DEF IsRight
<1>2. \A v : AllRight(v)' <=> AllRight(v)
  BY <1>1 DEF AllRight
<1>3. \A h : IsRightSummary(h)' <=> IsRightSummary(h)
  BY <1>2, SameSource DEF IsRightSummary
<1>4. \A h : IsRightAnswer(h)' <=> IsRightAnswer(h)
  BY SameSource DEF IsRightAnswer
<1> QED
  BY <1>1, <1>2, <1>3, <1>4 DEF IsRightEntry

LEMMA SequenceIsOfItsRange ==
    ASSUME NEW S, NEW s \in Seq(S)
    PROVE  s \in Seq(Range(s))
<1>1. Len(s) \in Nat /\ s \in [1..Len(s) -> Range(s)]
  BY DEF Range
<1>2. PICK n \in Nat : s \in [1..n -> Range(s)]
  BY <1>1
<1> QED
  BY <1>2, SeqDef

\* The history grows by right entries.
LEMMA HistoryGrows ==
    ASSUME Inv, UNCHANGED source,
           \/ UNCHANGED history
           \/ \E h : /\ history' = Append(history, h)
                     /\ h.command \in Commands
                     /\ IsRightEntry(h)
    PROVE  HistoryInv' /\ (history \in Seq(Range(history)))'
<1>1. history \in Seq(Range(history)) /\ HistoryInv
  BY DEF Inv, TypeInv
<1>2. CASE UNCHANGED history
  BY <1>1, <1>2, SameEntries DEF HistoryInv
<1>3. ASSUME NEW h, history' = Append(history, h), h.command \in Commands, IsRightEntry(h)
      PROVE  HistoryInv' /\ (history \in Seq(Range(history)))'
  <2>1. ASSUME NEW s, s \in Seq(Range(s))
        PROVE  /\ Append(s, h) \in Seq(Range(Append(s, h)))
               /\ \A k \in DOMAIN Append(s, h) :
                     \/ k \in DOMAIN s /\ Append(s, h)[k] = s[k]
                     \/ Append(s, h)[k] = h
    <3> DEFINE T == Range(s) \union {h}
               t == Append(s, h)
    <3>1. s \in Seq(T)
      BY <2>1
    <3>2. /\ t \in Seq(T) /\ Len(t) = Len(s) + 1 /\ Len(s) \in Nat
          /\ DOMAIN s = 1..Len(s) /\ DOMAIN t = 1..Len(t)
          /\ \A k \in 1..Len(s) : t[k] = s[k]
          /\ t[Len(s) + 1] = h
      BY <3>1, AppendProperties
    <3>3. \A k \in DOMAIN t : (k \in DOMAIN s /\ t[k] = s[k]) \/ t[k] = h
      BY <3>2
    <3> HIDE DEF T, t
    <3>4. t \in Seq(Range(t))
      BY <3>2, SequenceIsOfItsRange
    <3> QED
      BY <3>3, <3>4 DEF t
  <2> DEFINE t == Append(history, h)
  <2>2. \A k \in DOMAIN t : t[k].command \in Commands /\ IsRightEntry(t[k])
    BY <1>1, <1>3, <2>1 DEF HistoryInv
  <2> QED
    BY <1>1, <1>3, <2>1, <2>2, SameEntries DEF HistoryInv
<1> QED
  BY <1>2, <1>3

-----------------------------------------------------------------------------
\* The steps.

\* The least-number principle, for a set.
LEMMA NatHasLeast ==
    ASSUME NEW T, T \subseteq Nat, T # {}
    PROVE  \E x \in T : \A y \in T : x <= y
<1> DEFINE L == {ss \in Nat \X Nat : ss[1] < ss[2]}
<1>1. IsWellFoundedOn(L, Nat)
  BY NatLessThanWellFounded DEF OpToRel
<1>2. \A x, y \in Nat : <<x, y>> \notin L => y <= x
  OBVIOUS
<1> HIDE DEF L
<1>3. PICK x \in T : \A y \in T : <<y, x>> \notin L
  BY <1>1, WFMin
<1>4. \A y \in T : x <= y
  BY <1>2, <1>3
<1> QED
  BY <1>4

\* There is a first of the files to judge.
LEMMA PathIsFirst ==
    ASSUME TypeInv, todo # {}
    PROVE  Path \in todo /\ (\A p : todo = {p} => Path = p)
<1> DEFINE Stems(d) == {n \in Nat : <<d, n>> \in todo}
<1>1. \A p \in todo : p[1] \in Directories /\ p[2] \in Nat /\ p = <<p[1], p[2]>>
  BY DEF TypeInv
<1>2. PICK d \in Directories :
        Stems(d) # {} /\ (d = "Device" => Stems("Modules") = {})
  BY <1>1 DEF Directories
<1>3. PICK n \in Stems(d) : \A k \in Stems(d) : n <= k
  BY <1>2, NatHasLeast
<1>4. \A q \in todo : IsBefore(<<d, n>>, q)
  <2> SUFFICES ASSUME NEW q \in todo PROVE IsBefore(<<d, n>>, q)
    OBVIOUS
  <2>1. CASE q[1] = d
    BY <1>1, <1>3, <2>1 DEF IsBefore
  <2>2. CASE q[1] # d
    BY <1>1, <1>2, <2>2 DEF IsBefore, Directories
  <2> QED
    BY <2>1, <2>2
<1>5. Path \in todo
  BY <1>3, <1>4 DEF Path
<1> QED
  BY <1>5

\* A command with one file judges that file.
LEMMA PathOfCommand ==
    ASSUME Inv, stage # "idle", ~IsLoop
    PROVE  /\ todo # {} => Path = command.path /\ Path \in todo
           /\ command.path \in Paths => todo = {command.path}
<1>1. todo = {command.path} \ {None} /\ command \in Commands
  BY DEF Inv, CommandInv
<1>2. todo # {} => todo = {command.path}
  BY <1>1
<1>3. None \notin Paths
  BY CommandsAssumption, DocumentType DEF Inv, TypeInv
<1> QED
  BY <1>1, <1>2, <1>3, PathIsFirst DEF Inv

\* A command ends with a right entry.
LEMMA EndStep ==
    ASSUME Inv, NEW status, End(status), stage # "idle",
           IsRightEntry([command |-> command, status |-> status, verdicts |-> verdicts])
    PROVE  Inv'
<1> DEFINE h == [command |-> command, status |-> status, verdicts |-> verdicts]
<1>1. /\ history' = Append(history, h) /\ UNCHANGED source
      /\ command' = None /\ todo' = {} /\ stage' = "idle" /\ verdicts' = << >> /\ failures' = 0
  BY DEF End
<1>2. h.command \in Commands
  BY DEF Inv, CommandInv
<1>3. HistoryInv' /\ (history \in Seq(Range(history)))'
  BY <1>1, <1>2, HistoryGrows
<1>4. TypeInv'
  BY <1>1, <1>3 DEF TypeInv, Inv
<1>5. CommandInv' /\ LoopInv' /\ StageInv'
  BY <1>1 DEF CommandInv, LoopInv, StageInv, Checks
<1> QED
  BY <1>3, <1>4, <1>5 DEF Inv

\* The loop goes on with a right verdict.
LEMMA JudgeStep ==
    ASSUME Inv, NEW verdict, Judge(verdict), stage # "idle", IsLoop, todo # {},
           IsRight(Path, verdict)
    PROVE  Inv'
<1> DEFINE v == verdicts'
<1>1. /\ verdicts' = [p \in DOMAIN verdicts \union {Path} |->
                         IF p = Path THEN verdict ELSE verdicts[p]]
      /\ failures' = (IF verdict = "ok" THEN failures ELSE failures + 1)
      /\ todo' = todo \ {Path}
      /\ stage' = "parse"
      /\ UNCHANGED <<source, history, command>>
  BY DEF Judge
<1>2. Path \in todo /\ Path \notin DOMAIN verdicts
  BY PathIsFirst DEF Inv, LoopInv
<1>3. DOMAIN v = DOMAIN verdicts \union {Path} /\ v[Path] = verdict
      /\ \A p \in DOMAIN verdicts : v[p] = verdicts[p]
  BY <1>1, <1>2
<1>4. AllRight(v)
  BY <1>3 DEF AllRight, Inv, LoopInv
<1>5. AllOK(v) <=> AllOK(verdicts) /\ verdict = "ok"
  BY <1>3 DEF AllOK
<1>6. IsLoop'
  BY <1>1 DEF IsLoop
<1>7. /\ todo' \intersect DOMAIN v = {}
      /\ todo' \union DOMAIN v = Paths'
  BY <1>1, <1>2, <1>3, SameSource DEF Inv, LoopInv
<1>8. failures' \in Nat /\ (failures' = 0 <=> AllOK(v))
  BY <1>1, <1>5 DEF Inv, LoopInv
<1>9. LoopInv'
  BY <1>1, <1>4, <1>7, <1>8, SameEntries DEF LoopInv, AllOK
<1>10. HistoryInv' /\ (history \in Seq(Range(history)))'
  BY <1>1, HistoryGrows
<1>11. TypeInv' /\ StageInv'
  BY <1>1, <1>10 DEF TypeInv, StageInv, Inv, Checks
<1>12. CommandInv'
  BY <1>1, <1>6, CommandsAssumption DEF CommandInv, Inv, IsLoop
<1> QED
  BY <1>9, <1>10, <1>11, <1>12 DEF Inv

\* A file is refused for a fault that it has.
LEMMA RefuseStep ==
    ASSUME Inv, NEW error, Refuse(error), stage # "idle", todo # {}, HasFault(Path, error)
    PROVE  Inv'
<1>1. error # "ok" /\ ~IsSound(Path)
  BY FaultIsError DEF Inv, TypeInv
<1>2. CASE IsLoop
  BY <1>1, <1>2, JudgeStep DEF Refuse, IsRight
<1>3. CASE ~IsLoop
  <2>1. IsRightEntry([command |-> command, status |-> "failure", verdicts |-> verdicts])
    BY <1>1, <1>3, PathOfCommand DEF IsRightEntry, IsRightAnswer, IsLoop
  <2> QED
    BY <1>3, <2>1, EndStep DEF Refuse
<1> QED
  BY <1>2, <1>3

\* A file that cannot be decoded ends every command.
LEMMA CrashStep ==
    ASSUME Inv, Crash, stage # "idle", todo # {}, HasFault(Path, "undecodable")
    PROVE  Inv'
<1>1. ~IsSound(Path)
  BY FaultIsError DEF Inv, TypeInv
<1> DEFINE h == [command |-> command, status |-> "traceback", verdicts |-> verdicts]
<1>2. CASE IsLoop
  <2>1. Path \in Paths \ DOMAIN verdicts /\ DOMAIN verdicts \subseteq Paths /\ AllRight(verdicts)
    BY <1>2, PathIsFirst DEF Inv, LoopInv
  <2> QED
    BY <1>2, <2>1, EndStep DEF Crash, IsRightEntry, IsRightSummary, IsLoop
<1>3. CASE ~IsLoop
  BY <1>1, <1>3, PathOfCommand, EndStep DEF Crash, IsRightEntry, IsRightAnswer, IsLoop
<1> QED
  BY <1>2, <1>3

\* The stage changes and nothing else does.
LEMMA GotoStep ==
    ASSUME Inv, NEW s, Goto(s), stage \in {"modules"} \union Checks, result = "resolved",
           s \in {"answer"} \union Checks,
           \A c \in PassedChecks[s] : ~IsFaulty(Owners(Path), c)
    PROVE  Inv'
<1>1. stage' = s /\ UNCHANGED <<source, history, command, loopVars, resolutionVars>>
  BY DEF Goto
<1>2. UNCHANGED <<source, history, command, todo, verdicts, failures, project, resolved, result>>
  BY <1>1 DEF loopVars, resolutionVars
<1>3. HistoryInv' /\ (history \in Seq(Range(history)))'
  BY <1>2, HistoryGrows
<1>4. TypeInv' /\ CommandInv'
  BY <1>1, <1>2, <1>3 DEF TypeInv, CommandInv, Inv, Checks, IsLoop
<1>5. LoopInv'
  BY <1>1, <1>2, SameSource, SameEntries DEF LoopInv, Inv, IsLoop, AllOK, Checks
<1>6. R!Inv'
  BY <1>1, ResolverStep DEF Inv, StageInv
<1>7. Path' = Path /\ Owners(Path)' = Owners(Path) /\ NeedsDevice' = NeedsDevice
  BY <1>2 DEF Path, Owners, NeedsDevice
<1>8. \A c : IsFaulty(Owners(Path), c)' <=> IsFaulty(Owners(Path), c)
  BY <1>2, <1>7, SameSource DEF IsFaulty, Clash
<1>9. /\ IsDefinition(Path)' <=> IsDefinition(Path)
      /\ IsDevice(Path)' <=> IsDevice(Path)
      /\ ProjectOf(Path)' = ProjectOf(Path)
  BY <1>2, <1>7, SameSource
<1>10. StageInv'
  BY <1>1, <1>2, <1>6, <1>7, <1>8, <1>9 DEF StageInv, Inv
<1> QED
  BY <1>3, <1>4, <1>5, <1>10 DEF Inv

\* What a resolution that succeeded says of the file.
LEMMA ResolvedDefinition ==
    ASSUME Inv, stage \in {"answer"} \union Checks
    PROVE  /\ Owners(Path) = Needed(Path)
           /\ \A e \in Errors : ~HasFault(Path, e)
<1>1. /\ IsDefinition(Path) /\ project = ProjectOf(Path) /\ R!Inv /\ result = "resolved"
  BY DEF Inv, StageInv
<1>2. resolved = R!Closure /\ \A e \in Errors : ~R!Fault(e)
  BY <1>1, R!ResolvedIsClosure, R!ResolvedIsSound, ResolverAssumptions DEF R!Errors, Errors
<1>3. resolved = Graph(ProjectOf(Path))!Closure
  BY <1>1, <1>2, ResolverGraph
<1>4. \A e \in Errors : ~Graph(ProjectOf(Path))!Fault(e)
  BY <1>1, <1>2, ResolverGraph
<1> QED
  BY <1>1, <1>3, <1>4 DEF Owners, Needed, HasFault

LEMMA StartStep ==
    ASSUME Inv, NEW c \in Commands, Start(c)
    PROVE  Inv'
<1>1. stage = "idle" /\ verdicts = << >> /\ failures = 0
  BY CommandsAssumption DEF Start, Inv, CommandInv
<1>2. /\ command' = c
      /\ stage' = (IF c.name = "generate" /\ ~c.argumentOK THEN "refused" ELSE "parse")
      /\ UNCHANGED <<source, history, verdicts, failures>>
  BY DEF Start
<1>3. /\ c.name = "validate-all" => todo' = Paths
      /\ c.name # "validate-all" => todo' = {c.path} \ {None}
  BY CommandsAssumption DEF Start
<1>4. HistoryInv' /\ (history \in Seq(Range(history)))'
  BY <1>2, HistoryGrows
<1>5. TypeInv'
  BY <1>2, <1>3, <1>4, CommandsAssumption, DocumentType DEF TypeInv, Inv
<1>6. CommandInv' /\ StageInv'
  BY <1>2, <1>3 DEF CommandInv, StageInv, IsLoop, Checks
<1>7. DOMAIN verdicts' = {}
  BY <1>1, <1>2
<1>8. LoopInv'
  BY <1>1, <1>2, <1>3, <1>7, SameSource DEF LoopInv, IsLoop, AllRight, AllOK
<1> QED
  BY <1>4, <1>5, <1>6, <1>8 DEF Inv

LEMMA RefuseStemStep ==
    ASSUME Inv, RefuseStem
    PROVE  Inv'
<1>1. stage = "refused" /\ command.name = "generate" /\ ~command.argumentOK
  BY DEF RefuseStem, Inv, CommandInv
<1>2. IsRightEntry([command |-> command, status |-> "failure", verdicts |-> verdicts])
  BY <1>1 DEF IsRightEntry, IsRightAnswer
<1> QED
  BY <1>1, <1>2, EndStep DEF RefuseStem

LEMMA RejectFileStep ==
    ASSUME Inv, RejectFile \/ CrashOnFile
    PROVE  Inv'
<1>1. stage = "parse" /\ todo # {} /\ ~IsDefinition(Path)
  BY DEF RejectFile, CrashOnFile, Parsing, IsDefinition
<1>2. HasFault(Path, ParseErrors[Document(Path)])
  BY <1>1 DEF HasFault
<1>3. CASE RejectFile
  BY <1>1, <1>2, <1>3, RefuseStep DEF RejectFile
<1>4. CASE CrashOnFile
  <2>1. ParseErrors[Document(Path)] = "undecodable"
    BY <1>4 DEF CrashOnFile, ParseErrors
  <2> QED
    BY <1>1, <1>2, <1>4, <2>1, CrashStep DEF CrashOnFile
<1> QED
  BY <1>3, <1>4

LEMMA RejectModuleStep ==
    ASSUME Inv, RejectModule
    PROVE  Inv'
<1>1. stage = "parse" /\ todo # {} /\ NeedsDevice /\ ~IsDevice(Path)
  BY DEF RejectModule, Parsing
<1>2. ~IsLoop /\ command.name # "validate" /\ End("failure")
  BY <1>1 DEF NeedsDevice, IsLoop, RejectModule, Refuse
<1>3. IsRightEntry([command |-> command, status |-> "failure", verdicts |-> verdicts])
  BY <1>1, <1>2, PathOfCommand DEF IsRightEntry, IsRightAnswer, IsLoop
<1> QED
  BY <1>1, <1>2, <1>3, EndStep

LEMMA ResolutionSteps ==
    ASSUME Inv, ResolveModules \/ ResolutionStep
    PROVE  Inv'
<1>1. /\ UNCHANGED <<source, history, command, todo, verdicts, failures>>
      /\ stage' = "modules" /\ stage \in {"parse", "modules"} /\ todo # {}
      /\ IsDefinition(Path) /\ (NeedsDevice => IsDevice(Path))
  BY DEF ResolveModules, ResolutionStep, Parsing, Inv, StageInv, loopVars
<1>2. HistoryInv' /\ (history \in Seq(Range(history)))'
  BY <1>1, HistoryGrows
<1>3. TypeInv' /\ CommandInv'
  BY <1>1, <1>2 DEF TypeInv, CommandInv, Inv, IsLoop
<1>4. LoopInv'
  BY <1>1, SameSource, SameEntries DEF LoopInv, Inv, IsLoop, AllOK
<1>5. project' = ProjectOf(Path) /\ R!Inv'
  <2>1. CASE ResolveModules
    BY <1>1, <2>1, ProjectType, ResolverCalled
       DEF ResolveModules, Resolution!Call, Inv, TypeInv
  <2>2. CASE ResolutionStep
    <3>1. R!Inv /\ project = ProjectOf(Path) /\ Resolution!Next
      BY <2>2 DEF ResolutionStep, Inv, StageInv
    <3>2. project' = project
      BY <3>1 DEF Resolution!Next, Resolution!RejectRootDuplicate, Resolution!EnterRoot,
         Resolution!RejectCycle, Resolution!RejectConflict, Resolution!Reuse,
         Resolution!RejectInvalidName, Resolution!RejectUnknown, Resolution!RejectBroken,
         Resolution!CrashOnUndecodable, Resolution!RejectDuplicate, Resolution!Descend,
         Resolution!Return, Resolution!FinishRoot, Resolution!Fail
    <3> QED
      BY <3>1, <3>2, ResolverStep
  <2> QED
    BY <2>1, <2>2
<1>6. Path' = Path /\ NeedsDevice' = NeedsDevice
  BY <1>1 DEF Path, NeedsDevice
<1>7. /\ IsDefinition(Path)' <=> IsDefinition(Path)
      /\ IsDevice(Path)' <=> IsDevice(Path)
      /\ ProjectOf(Path)' = ProjectOf(Path)
  BY <1>1, <1>6, SameSource
<1>8. StageInv'
  BY <1>1, <1>5, <1>6, <1>7 DEF StageInv, Checks
<1> QED
  BY <1>2, <1>3, <1>4, <1>8 DEF Inv

LEMMA ModulesResolvedStep ==
    ASSUME Inv, ModulesResolved
    PROVE  Inv'
<1>1. PassedChecks["types"] = {} /\ "types" \in Checks
  BY DEF PassedChecks, Checks
<1> QED
  BY <1>1, GotoStep DEF ModulesResolved

LEMMA RejectModulesStep ==
    ASSUME Inv, RejectModules \/ CrashOnModule
    PROVE  Inv'
<1>1. stage = "modules" /\ result \in Errors
  BY DEF RejectModules, CrashOnModule, Errors
<1>2. todo # {} /\ IsDefinition(Path) /\ project = ProjectOf(Path) /\ R!Inv
  BY <1>1 DEF Inv, StageInv
<1>3. R!Fault(result)
  BY <1>1, <1>2 DEF R!Inv, R!ErrorInv, R!Errors, Errors
<1>4. HasFault(Path, result)
  BY <1>1, <1>2, <1>3, ResolverGraph DEF HasFault
<1> QED
  BY <1>1, <1>2, <1>4, RefuseStep, CrashStep DEF RejectModules, CrashOnModule

LEMMA CheckStep ==
    ASSUME Inv, PassCheck \/ FailCheck
    PROVE  Inv'
<1>1. stage \in Checks
  BY DEF PassCheck, FailCheck
<1>2. /\ todo # {} /\ IsDefinition(Path) /\ result = "resolved"
      /\ \A s \in PassedChecks[stage] : ~IsFaulty(Owners(Path), s)
  BY <1>1 DEF Inv, StageInv
<1>3. CASE PassCheck
  <2>1. /\ Following(stage) \in {"answer"} \union Checks
        /\ PassedChecks[Following(stage)] = PassedChecks[stage] \union {stage}
    BY <1>1 DEF Checks, Following, PassedChecks
  <2> QED
    BY <1>1, <1>2, <1>3, <2>1, GotoStep DEF PassCheck
<1>4. CASE FailCheck
  <2>1. stage \notin Errors
    BY <1>1 DEF Checks, Errors
  <2>2. HasFault(Path, stage)
    BY <1>1, <1>2, <1>4, <2>1, ResolvedDefinition DEF HasFault, FailCheck
  <2> QED
    BY <1>1, <1>2, <1>4, <2>2, RefuseStep DEF FailCheck, Checks
<1> QED
  BY <1>3, <1>4

\* A definition that has come through every check is sound.
LEMMA AnsweredIsSound ==
    ASSUME Inv, stage = "answer"
    PROVE  IsSound(Path) /\ todo # {} /\ (NeedsDevice => IsDevice(Path))
<1>1. /\ todo # {} /\ IsDefinition(Path) /\ (NeedsDevice => IsDevice(Path))
      /\ \A s \in Checks : ~IsFaulty(Owners(Path), s)
  BY DEF Inv, StageInv, PassedChecks
<1>2. /\ Owners(Path) = Needed(Path)
      /\ \A e \in Errors : ~HasFault(Path, e)
  BY ResolvedDefinition
<1>3. Needed(Path) \subseteq Paths
  BY <1>1, <1>2, NeededIsImported, DocumentType DEF Needed, HasFault, Inv, TypeInv
<1>4. \A e : ~HasFault(Path, e)
  BY <1>1, <1>2, <1>3 DEF HasFault
<1> QED
  BY <1>1, <1>4 DEF IsSound

LEMMA AnswerStep ==
    ASSUME Inv, Accept \/ Answer \/ RejectObject
    PROVE  Inv'
<1>1. stage = "answer" /\ command \in Commands
  BY DEF Accept, Answer, RejectObject, Inv, CommandInv
<1>2. IsSound(Path) /\ todo # {} /\ (NeedsDevice => IsDevice(Path))
  BY <1>1, AnsweredIsSound
<1>3. CASE Accept
  BY <1>1, <1>2, <1>3, JudgeStep DEF Accept, IsRight
<1>4. CASE Answer
  <2>1. ~IsLoop /\ Path = command.path
    BY <1>1, <1>2, <1>4, PathOfCommand DEF Answer
  <2>2. command.name = "validate" \/ (IsDevice(Path) /\ command.argumentOK)
    BY <1>1, <1>2, <1>4, <2>1, CommandsAssumption DEF Answer, IsLoop, NeedsDevice, Inv, CommandInv
  <2>3. IsRightEntry([command |-> command, status |-> "success", verdicts |-> verdicts])
    BY <1>2, <2>1, <2>2 DEF IsRightEntry, IsRightAnswer, IsLoop
  <2> QED
    BY <1>1, <1>4, <2>3, EndStep DEF Answer
<1>5. CASE RejectObject
  <2>1. IsRightEntry([command |-> command, status |-> "failure", verdicts |-> verdicts])
    BY <1>5 DEF RejectObject, IsRightEntry, IsRightAnswer
  <2> QED
    BY <1>1, <1>5, <2>1, EndStep DEF RejectObject
<1> QED
  BY <1>3, <1>4, <1>5

LEMMA AnswerWithoutContextStep ==
    ASSUME Inv, AnswerWithoutContext
    PROVE  Inv'
<1>1. command.name = "address" /\ command.path \notin Paths
  BY CommandsAssumption, DocumentType DEF AnswerWithoutContext, Inv, TypeInv
<1>2. IsRightEntry([command |-> command, status |-> "success", verdicts |-> verdicts])
  BY <1>1 DEF IsRightEntry, IsRightAnswer
<1> QED
  BY <1>2, EndStep DEF AnswerWithoutContext

LEMMA SummariseStep ==
    ASSUME Inv, Summarise
    PROVE  Inv'
<1> DEFINE status == IF failures > 0 THEN "failure" ELSE "success"
<1>1. stage = "parse" /\ IsLoop /\ todo = {} /\ End(status)
  BY DEF Summarise
<1>2. /\ DOMAIN verdicts = Paths /\ AllRight(verdicts)
      /\ status = "success" <=> AllOK(verdicts)
  BY <1>1 DEF Inv, LoopInv
<1>3. IsRightEntry([command |-> command, status |-> status, verdicts |-> verdicts])
  BY <1>1, <1>2 DEF IsRightEntry, IsRightSummary, IsLoop
<1> HIDE DEF status
<1> QED
  BY <1>1, <1>3, EndStep

LEMMA StutterStep ==
    ASSUME Inv, UNCHANGED vars
    PROVE  Inv'
<1>1. UNCHANGED <<source, history, command, todo, verdicts, failures, stage, project, resolved,
                  result, resolutionVars>>
  BY DEF vars, loopVars, resolutionVars
<1>2. HistoryInv' /\ (history \in Seq(Range(history)))'
  BY <1>1, HistoryGrows
<1>3. TypeInv' /\ CommandInv'
  BY <1>1, <1>2 DEF TypeInv, CommandInv, Inv, IsLoop
<1>4. LoopInv'
  BY <1>1, SameSource, SameEntries DEF LoopInv, Inv, IsLoop, AllOK
<1>5. R!Inv => R!Inv'
  BY <1>1, ResolverStep
<1>6. Path' = Path /\ NeedsDevice' = NeedsDevice /\ Owners(Path)' = Owners(Path)
  BY <1>1 DEF Path, NeedsDevice, Owners
<1>7. /\ IsDefinition(Path)' <=> IsDefinition(Path)
      /\ IsDevice(Path)' <=> IsDevice(Path)
      /\ ProjectOf(Path)' = ProjectOf(Path)
      /\ \A c : IsFaulty(Owners(Path), c)' <=> IsFaulty(Owners(Path), c)
  BY <1>1, <1>6, SameSource DEF IsFaulty, Clash
<1>8. StageInv'
  BY <1>1, <1>5, <1>6, <1>7 DEF StageInv, Inv
<1> QED
  BY <1>2, <1>3, <1>4, <1>8 DEF Inv

LEMMA InitEstablishesInv == Init => Inv
<1> SUFFICES ASSUME Init PROVE Inv
  OBVIOUS
<1>1. /\ source \in Sources /\ history = << >> /\ command = None /\ todo = {} /\ stage = "idle"
      /\ verdicts = << >> /\ failures = 0
  BY DEF Init
<1>2. DOMAIN history = {} /\ history \in Seq(Range(history))
  BY <1>1
<1> QED
  BY <1>1, <1>2 DEF Inv, TypeInv, CommandInv, LoopInv, StageInv, HistoryInv, Checks

LEMMA NextKeepsInv == Inv /\ [Next]_vars => Inv'
<1> SUFFICES ASSUME Inv, [Next]_vars PROVE Inv'
  OBVIOUS
<1>1. CASE \E c \in Commands : Start(c)
  BY <1>1, StartStep
<1>2. CASE RefuseStem
  BY <1>2, RefuseStemStep
<1>3. CASE RejectFile \/ CrashOnFile
  BY <1>3, RejectFileStep
<1>4. CASE RejectModule
  BY <1>4, RejectModuleStep
<1>5. CASE ResolveModules \/ ResolutionStep
  BY <1>5, ResolutionSteps
<1>6. CASE ModulesResolved
  BY <1>6, ModulesResolvedStep
<1>7. CASE RejectModules \/ CrashOnModule
  BY <1>7, RejectModulesStep
<1>8. CASE PassCheck \/ FailCheck
  BY <1>8, CheckStep
<1>9. CASE Accept \/ Answer \/ RejectObject
  BY <1>9, AnswerStep
<1>10. CASE AnswerWithoutContext
  BY <1>10, AnswerWithoutContextStep
<1>11. CASE Summarise
  BY <1>11, SummariseStep
<1>12. CASE UNCHANGED vars
  BY <1>12, StutterStep
<1> QED
  BY <1>1, <1>2, <1>3, <1>4, <1>5, <1>6, <1>7, <1>8, <1>9, <1>10, <1>11, <1>12 DEF Next

LEMMA InvHolds == Spec => []Inv
BY InitEstablishesInv, NextKeepsInv, PTL DEF Spec

-----------------------------------------------------------------------------
\* A summary tells what every file is: by NeededIsSound a device passes only if
\* the modules that it needs do.
LEMMA RightSummaries ==
    ASSUME Inv, NEW k \in DOMAIN history, history[k].command.name = "validate-all"
    PROVE  /\ IsRightSummary(history[k])
           /\ \A p \in DOMAIN history[k].verdicts :
                 /\ p \in Paths
                 /\ IF Verdict(k, p) = "ok" THEN IsSound(p)
                    ELSE HasFault(p, Verdict(k, p)) /\ ~IsSound(p)
<1>1. IsRightSummary(history[k])
  BY DEF Inv, HistoryInv, IsRightEntry
<1> QED
  BY <1>1, FaultIsError DEF IsRightSummary, AllRight, IsRight, Verdict, Inv, TypeInv

\* _validate_all: the summary has a verdict on every file, which is right; the
\* exit status is that of the verdicts; a device passes only with its modules.
THEOREM SummariesAreTrue == Spec => []SummaryTellsEveryFile
<1>1. ASSUME Inv PROVE SummaryTellsEveryFile
  <2>1. ASSUME NEW k \in Summaries({"success", "failure"})
        PROVE  /\ DOMAIN history[k].verdicts = Paths
               /\ history[k].status = "success" <=> \A p \in Paths : Verdict(k, p) = "ok"
               /\ \A p \in Paths : IsDefinition(p) =>
                    \A q \in Needed(p) \intersect Paths : Verdict(k, q) # "ok" => Verdict(k, p) # "ok"
    <3>1. /\ DOMAIN history[k].verdicts = Paths
          /\ history[k].status = "success" <=> \A p \in Paths : Verdict(k, p) = "ok"
      BY <1>1, <2>1, RightSummaries DEF Summaries, IsRightSummary, AllOK, Verdict
    <3>2. \A p \in Paths : IsSound(p) <=> Verdict(k, p) = "ok"
      BY <1>1, <2>1, <3>1, RightSummaries DEF Summaries
    <3>3. \A p \in Paths : IsDefinition(p) =>
             \A q \in Needed(p) \intersect Paths : Verdict(k, q) # "ok" => Verdict(k, p) # "ok"
      BY <1>1, <3>2, NeededIsSound DEF Inv, TypeInv
    <3> QED
      BY <3>1, <3>3
  <2>2. ASSUME NEW k \in Summaries({"traceback"})
        PROVE  \E p \in Paths \ DOMAIN history[k].verdicts : HasFault(p, "undecodable")
    BY <1>1, <2>2, RightSummaries DEF Summaries, IsRightSummary
  <2>3. ASSUME NEW k \in Summaries({"success", "failure", "traceback"}),
               NEW p \in DOMAIN history[k].verdicts
        PROVE  IF Verdict(k, p) = "ok" THEN IsSound(p) ELSE HasFault(p, Verdict(k, p))
    BY <1>1, <2>3, RightSummaries DEF Summaries
  <2> QED
    BY <2>1, <2>2, <2>3 DEF SummaryTellsEveryFile
<1> QED
  BY <1>1, InvHolds, PTL

\* What validate-all says of a file is what every later command finds.
THEOREM CommandsFollowVerdicts == Spec => []ValidationPredictsCommands
<1>1. ASSUME Inv PROVE ValidationPredictsCommands
  <2> SUFFICES ASSUME NEW j \in DOMAIN history, NEW k \in DOMAIN history, NEW p,
                      p = history[k].command.path, j < k,
                      history[j].command.name = "validate-all",
                      p \in DOMAIN history[j].verdicts
               PROVE  history[k].status = "success" <=>
                        /\ Verdict(j, p) = "ok"
                        /\ \/ history[k].command.name = "validate"
                           \/ IsDevice(p) /\ history[k].command.argumentOK
    BY DEF ValidationPredictsCommands
  <2>1. p \in Paths /\ (IsSound(p) <=> Verdict(j, p) = "ok")
    BY <1>1, RightSummaries
  <2>2. history[k].command \in Commands /\ IsRightEntry(history[k])
    BY <1>1 DEF Inv, HistoryInv
  <2>3. history[k].command.name # "validate-all"
    BY <1>1, <2>1, <2>2, CommandsAssumption, DocumentType DEF Inv, TypeInv
  <2> QED
    BY <2>1, <2>2, <2>3 DEF IsRightEntry, IsRightAnswer
<1> QED
  BY <1>1, InvHolds, PTL
=============================================================================
