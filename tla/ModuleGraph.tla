----------------------------- MODULE ModuleGraph -----------------------------
(***************************************************************************)
(* The YAML files of one project and the imports between them.             *)
(*                                                                         *)
(* A module name is the natural number of its rank in lexical order.  The  *)
(* parameters of an import are one opaque value; PyClass maps it to its    *)
(* class under Python's ==, which the resolver compares with: 1, 1.0 and   *)
(* True are different YAML scalars of one class.                           *)
(***************************************************************************)
EXTENDS Integers, Sequences, FiniteSets, Functions

CONSTANTS
    Modules,        \* module names that may be written in an import
    InvalidNames,   \* those that are no filename stem
    Params,         \* parameter assignments
    NoParams,       \* the empty assignment
    PyClass         \* [Params -> class under ==]

ASSUME ModulesAssumption == Modules \subseteq Nat /\ InvalidNames \subseteq Modules
ASSUME ParamsAssumption == NoParams \in Params /\ DOMAIN PyClass = Params

VARIABLE project    \* [root, kind, imports, files]: the root and the Modules directory

Imports == [name : Modules, params : Params]

\* "missing" and "broken" files are those parse_module never gets to read, or
\* refuses: not YAML, not schema v1, or a device.  "undecodable" is not UTF-8.
FileKinds == {"module", "missing", "broken", "undecodable"}
File(kind, imports) == [kind |-> kind, imports |-> imports]

\* The root's namespace, its kind ("device" or "module") and its imports; the
\* file of a module root is one of the files.
Root == project.root
RootKind == project.kind
RootImports == project.imports
ModuleImports(m) == project.files[m].imports

Names(imports) == {imports[i].name : i \in DOMAIN imports}
HasDuplicates(imports) ==
    \E i, j \in DOMAIN imports : i # j /\ imports[i].name = imports[j].name

SameParams(p, q) == PyClass[p] = PyClass[q]

-----------------------------------------------------------------------------
\* The modules that the root needs, directly or not.
ImportedBy(S) == Names(RootImports) \union UNION {Names(ModuleImports(m)) : m \in S}
Closure == {m \in Modules : \A S \in SUBSET Modules : ImportedBy(S) \subseteq S => m \in S}

\* The modules that m needs, directly or not.
Below(m) ==
    {n \in Modules : \A S \in SUBSET Modules :
        Names(ModuleImports(m)) \union UNION {Names(ModuleImports(k)) : k \in S} \subseteq S
            => n \in S}

\* Every import that resolving the root has to follow.
FollowedImports ==
    Range(RootImports) \union UNION {Range(ModuleImports(m)) : m \in Closure}

HasCycle ==
    \/ \E m \in Closure : m \in Below(m)
    \/ RootKind = "module" /\ Root \in Closure
HasConflict ==
    \E i, j \in FollowedImports : i.name = j.name /\ ~SameParams(i.params, j.params)
HasInvalidName == Closure \intersect InvalidNames # {}
HasMissing == \E m \in Closure \ InvalidNames : project.files[m].kind = "missing"
HasBroken == \E m \in Closure \ InvalidNames : project.files[m].kind = "broken"
HasUndecodable == \E m \in Closure \ InvalidNames : project.files[m].kind = "undecodable"
HasDuplicateImport ==
    HasDuplicates(RootImports) \/ \E m \in Closure : HasDuplicates(ModuleImports(m))
HasCollision == RootKind = "device" /\ Root \in Closure

\* The faults of a project by the error that reports them.
Fault(error) ==
    \/ error = "cycle" /\ HasCycle
    \/ error = "conflict" /\ HasConflict
    \/ error = "invalid_name" /\ HasInvalidName
    \/ error = "unknown" /\ HasMissing
    \/ error = "broken" /\ HasBroken
    \/ error = "undecodable" /\ HasUndecodable
    \/ error = "duplicate" /\ HasDuplicateImport
    \/ error = "collision" /\ HasCollision

Errors ==
    {"cycle", "conflict", "invalid_name", "unknown", "broken", "undecodable", "duplicate",
     "collision"}
=============================================================================
