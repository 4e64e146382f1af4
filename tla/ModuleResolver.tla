--------------------------- MODULE ModuleResolver ---------------------------
(***************************************************************************)
(* _ModuleResolver: the depth-first resolution of a root's imports.        *)
(*                                                                         *)
(* One frame of frames is one activation of the recursion: resolve() for   *)
(* the root at the bottom, _resolve_import for a module above it.  A frame *)
(* holds the imports it has not resolved yet; they are taken in lexical    *)
(* order.  The _stack list of the code is the owners of the frames, the    *)
(* frame of a device root excepted.                                        *)
(***************************************************************************)
EXTENDS ModuleGraph

CONSTANT Projects   \* the projects a resolution may start from

ASSUME ProjectsAssumption ==
    \A p \in Projects :
        /\ p.root \in Nat
        /\ p.kind \in {"device", "module"}
        /\ p.imports \in Seq(Imports)
        /\ p.files \in [Modules -> [kind : FileKinds, imports : Seq(Imports)]]

VARIABLES
    frames,         \* the activations, the innermost last
    configurations, \* module -> the parameters it was first imported with
    resolved,       \* modules whose activation has returned
    ordered,        \* the same in the order of their return
    result          \* "resolving", "resolved" or an error

vars == <<project, frames, configurations, resolved, ordered, result>>

-----------------------------------------------------------------------------
Top == frames[Len(frames)]

\* The namespaces on _stack.
OnStack ==
    {frames[k].owner : k \in {k \in DOMAIN frames : k > 1 \/ RootKind = "module"}}

\* The import that the loop of the innermost activation has come to.
CurrentImport ==
    CHOOSE i \in Top.todo : \A j \in Top.todo : i.name <= j.name

Importing == result = "resolving" /\ frames # << >> /\ Top.todo # {}

\* The loop of the innermost activation goes on after import i.
Without(i) == [frames EXCEPT ![Len(frames)].todo = @ \ {i}]

Frame(owner, params, imports) ==
    [owner |-> owner, params |-> params, todo |-> Range(imports)]

\* A module root is registered as if it had been imported.
RootConfiguration(p) == [m \in (IF p.kind = "module" THEN {p.root} ELSE {}) |-> NoParams]

Begin(p) ==
    /\ project = p
    /\ frames = << >>
    /\ configurations = RootConfiguration(p)
    /\ resolved = {}
    /\ ordered = << >>
    /\ result = "resolving"

Init == \E p \in Projects : Begin(p)

\* resolve_modules: a resolver of its own for project p.
Call(p) ==
    /\ project' = p
    /\ frames' = << >>
    /\ configurations' = RootConfiguration(p)
    /\ resolved' = {}
    /\ ordered' = << >>
    /\ result' = "resolving"

Fail(error) ==
    /\ result' = error
    /\ UNCHANGED <<project, frames, configurations, resolved, ordered>>

RejectRootDuplicate ==
    /\ result = "resolving"
    /\ frames = << >>
    /\ HasDuplicates(RootImports)
    /\ Fail("duplicate")

EnterRoot ==
    /\ result = "resolving"
    /\ frames = << >>
    /\ ~HasDuplicates(RootImports)
    /\ frames' = <<Frame(Root, NoParams, RootImports)>>
    /\ UNCHANGED <<project, configurations, resolved, ordered, result>>

\* Mutant of RejectCycle: only a module that imports itself is noticed.
RejectSelfImport ==
    /\ Importing
    /\ CurrentImport.name \in OnStack
    /\ CurrentImport.name = Top.owner
    /\ Fail("cycle")

RejectCycle ==
    /\ Importing
    /\ CurrentImport.name \in OnStack
    /\ Fail("cycle")

\* Mutant of Conflicts: a resolved module is reused as it is.
ConflictsOnStack(i) ==
    /\ i.name \in DOMAIN configurations \ resolved
    /\ ~SameParams(configurations[i.name], i.params)

\* The module was imported before, with parameters that are not == to these.
Conflicts(i) ==
    i.name \in DOMAIN configurations /\ ~SameParams(configurations[i.name], i.params)

RejectConflict ==
    /\ Importing
    /\ CurrentImport.name \notin OnStack
    /\ Conflicts(CurrentImport)
    /\ Fail("conflict")

\* Mutant of Reuse: the cache is consulted before the parameters are compared.
ReuseUnchecked ==
    /\ Importing
    /\ CurrentImport.name \notin OnStack
    /\ CurrentImport.name \in resolved
    /\ frames' = Without(CurrentImport)
    /\ UNCHANGED <<project, configurations, resolved, ordered, result>>

\* A diamond: the module is resolved already.
Reuse ==
    /\ Importing
    /\ CurrentImport.name \notin OnStack
    /\ CurrentImport.name \in DOMAIN configurations
    /\ ~Conflicts(CurrentImport)
    /\ CurrentImport.name \in resolved
    /\ frames' = Without(CurrentImport)
    /\ UNCHANGED <<project, configurations, resolved, ordered, result>>

\* The import names a module that has not been loaded.
Loading(i) ==
    /\ Importing
    /\ i = CurrentImport
    /\ i.name \notin OnStack
    /\ ~Conflicts(i)
    /\ i.name \notin resolved

RejectInvalidName ==
    \E i \in Imports :
        /\ Loading(i)
        /\ i.name \in InvalidNames
        /\ Fail("invalid_name")

RejectUnknown ==
    \E i \in Imports :
        /\ Loading(i)
        /\ i.name \notin InvalidNames
        /\ project.files[i.name].kind = "missing"
        /\ Fail("unknown")

RejectBroken ==
    \E i \in Imports :
        /\ Loading(i)
        /\ i.name \notin InvalidNames
        /\ project.files[i.name].kind = "broken"
        /\ Fail("broken")

\* Bytes that are not UTF-8: the one error of a read that is not reported as
\* an error of the file, and leaves every command.
CrashOnUndecodable ==
    \E i \in Imports :
        /\ Loading(i)
        /\ i.name \notin InvalidNames
        /\ project.files[i.name].kind = "undecodable"
        /\ Fail("undecodable")

\* Mutant of Configure: a module is registered only when it is resolved.
ConfigureLater(i) == i \in Imports /\ UNCHANGED configurations

Configure(i) ==
    configurations' = [m \in DOMAIN configurations \union {i.name} |->
                          IF m = i.name THEN i.params ELSE configurations[m]]

\* The duplicate check runs after the module is registered and pushed.
RejectDuplicate ==
    \E i \in Imports :
        /\ Loading(i)
        /\ i.name \notin InvalidNames
        /\ project.files[i.name].kind = "module"
        /\ HasDuplicates(ModuleImports(i.name))
        /\ Configure(i)
        /\ frames' = Append(frames, Frame(i.name, i.params, << >>))
        /\ result' = "duplicate"
        /\ UNCHANGED <<project, resolved, ordered>>

Descend ==
    \E i \in Imports :
        /\ Loading(i)
        /\ i.name \notin InvalidNames
        /\ project.files[i.name].kind = "module"
        /\ ~HasDuplicates(ModuleImports(i.name))
        /\ Configure(i)
        /\ frames' = Append(Without(i), Frame(i.name, i.params, ModuleImports(i.name)))
        /\ UNCHANGED <<project, resolved, ordered, result>>

\* Mutant of Return: importers come before what they import.
ReturnReversed ==
    /\ result = "resolving"
    /\ Len(frames) > 1
    /\ Top.todo = {}
    /\ resolved' = resolved \union {Top.owner}
    /\ ordered' = <<[name |-> Top.owner, params |-> Top.params]>> \o ordered
    /\ frames' = SubSeq(frames, 1, Len(frames) - 1)
    /\ UNCHANGED <<project, configurations, result>>

Return ==
    /\ result = "resolving"
    /\ Len(frames) > 1
    /\ Top.todo = {}
    /\ resolved' = resolved \union {Top.owner}
    /\ ordered' = Append(ordered, [name |-> Top.owner, params |-> Top.params])
    /\ frames' = SubSeq(frames, 1, Len(frames) - 1)
    /\ UNCHANGED <<project, configurations, result>>

\* Only now is a device's own name compared with the modules it imports.
FinishRoot ==
    /\ result = "resolving"
    /\ Len(frames) = 1
    /\ Top.todo = {}
    /\ frames' = << >>
    /\ result' = IF RootKind = "device" /\ Root \in resolved THEN "collision" ELSE "resolved"
    /\ UNCHANGED <<project, configurations, resolved, ordered>>

Next ==
    \/ RejectRootDuplicate
    \/ EnterRoot
    \/ RejectCycle
    \/ RejectConflict
    \/ Reuse
    \/ RejectInvalidName
    \/ RejectUnknown
    \/ RejectBroken
    \/ CrashOnUndecodable
    \/ RejectDuplicate
    \/ Descend
    \/ Return
    \/ FinishRoot

Spec == Init /\ [][Next]_vars /\ WF_vars(Next)

-----------------------------------------------------------------------------
\* Every registered module is either on the stack or resolved, never both: an
\* import that finds a configuration is a cycle or a diamond, and no file is
\* loaded twice.
RegisteredOnce ==
    /\ DOMAIN configurations = resolved \union
          (IF RootKind = "module" THEN {Root} ELSE {})
          \union {frames[k].owner : k \in DOMAIN frames \ {1}}
    /\ \A j, k \in DOMAIN frames : frames[j].owner = frames[k].owner =>
          j = k \/ (RootKind = "device" /\ 1 \in {j, k})
    /\ \A k \in DOMAIN frames : frames[k].owner \in resolved => k = 1 /\ RootKind = "device"
    /\ \A j, k \in DOMAIN ordered : ordered[j].name = ordered[k].name => j = k
    /\ resolved = {ordered[k].name : k \in DOMAIN ordered}

\* The order is dependency-first: what a module imports is resolved before it.
DependencyFirst ==
    \A k \in DOMAIN ordered :
        Names(ModuleImports(ordered[k].name)) \subseteq {ordered[j].name : j \in 1..(k - 1)}

\* A resolved graph is the closure of the root's imports and none of its files
\* has a fault; a refused one has the fault that is reported.
ResolvesExactlySoundProjects ==
    /\ result = "resolved" =>
          /\ resolved = Closure
          /\ \A e \in Errors : ~Fault(e)
    /\ result \in Errors => Fault(result)

\* Whichever path of a diamond is taken first, a module has the configuration
\* that every import of it asks for, as far as == can tell.
ConfigurationsAgree ==
    result = "resolved" =>
        \A i \in FollowedImports : \A k \in DOMAIN ordered :
            ordered[k].name = i.name => SameParams(ordered[k].params, i.params)

\* docs/wiki/Modules.md:34-35: a diamond that reaches the same namespace with
\* different assignments fails rather than choosing one.
DiamondsNeverChoose ==
    result = "resolved" =>
        \A i \in FollowedImports : \A k \in DOMAIN ordered :
            ordered[k].name = i.name => ordered[k].params = i.params

\* The recursion ends, whatever the imports.
Terminates == <>(result # "resolving")
=============================================================================
