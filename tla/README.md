# A TLA+ model of CanOpenGen

CanOpenGen turns a YAML description of a CANopen device, and the reusable modules it
imports, into an EDS file, documentation and C++ sources. It is a compiler: its promises
are about what is computed from which input, in which order faults are found, and what
repeated, interrupted or partly failing runs leave on disk. This directory models those
parts of it in TLA+, checks the models with TLC, and proves with TLAPS, for inputs of any
size, what the allocator promises of a whole device and what an edit does to its addresses,
that EDS, address map and document list the same dictionary, that the modules and the types
of exactly the sound projects are resolved, that the header keeps the types that were
resolved, that mapped PDOs can be transferred, that the commands agree on every file, and
what any number of builds leaves on disk.

All source paths are relative to the repository; `canopengen/` is its Python package.

## The system

| Component | State it keeps | Operations | What makes it correct |
| --- | --- | --- | --- |
| Parser and schema (`parser.py`, `schemas/`) | none; one document at a time | parse a definition, a device, a module | every accepted file satisfies the schema, every fault of a file is an error of that file; identity of a module is its filename stem |
| Module resolver (`resolver.py` 46-212) | registry of configurations, cache of resolved modules, recursion stack, result order | resolve a root, resolve one import | closure of the imports, once each, dependency-first; cycles, conflicts and collisions refused |
| Type resolver (`type_resolver.py`) | cache of lowered types, recursion stack | lower a declaration, lower a reference | the primitive at the end of every chain; enums fit it; only sound graphs accepted |
| Allocator (`allocator.py`) | `occupied` per range, `assignments` for the whole device | place explicit items, place automatic items, build records and arrays, diagnose an address | deterministic, collision-free, explicit first, refuses only for a reason |
| PDO references (`resolver.py` 214-282) | none beyond the loop | resolve each symbolic entry | lookup in the owner's scope: local, qualified, then a unique import |
| PDO mappings (`pdo.py`) | none beyond the loop | encode each entry, check each payload | the address is that of a value that may be transferred; at most 64 bits |
| EDS, Markdown and map (`generators/eds.py`, `generators/markdown.py`, `odmap.py`) | none | render the dictionary and the PDOs, each with loops of its own | every entry exactly once, under its address; documented PDOs are the mapped ones |
| C++ symbols (`generators/cpp.py`) | none; one header at a time | render enums and tags, look enum names up again, refuse names that are no identifiers and enums that cannot be told apart | tags have the resolved enums; a refusal has a cause; no scope declares a tag or an enum twice as long as the Pascal case keeps their names apart, which the code does not check |
| Generation (`cli.py` 98-140, `eds2od.py`) | the output directory, across runs | load, write three files, run Eds2Od, verify, move its class to a namespace | exit status 0 means a complete set of files |
| Other commands (`cli.py`) | the loop of `validate-all` over the files | `validate`, `validate-all`, `map`, `address` | the same verdict as `generate`; a summary that tells every file |
| CMake (`cmake/CanOpenGen.cmake`) | the build tree | run `generate` when an input changes | a build with nothing to do is current |

`_resolve_definition` (`cli.py` 32-49) calls the stages in the order modules, types,
addresses, PDO references, PDO mappings; each consumes the immutable result of the ones
before. The first error of any stage ends the run. Nothing in the Python program is
concurrent; the interleavings that matter are between a run, the edits made while it runs
or between runs, the build tool that decides whether to run it, the Eds2Od child process,
and whatever kills a run.

What is hard here: results that must not depend on the order of the input; recursion with
a cache and a stack over graphs with diamonds and cycles; names with dots, which divide in
more than one way, and scopes of C++ in which they meet again; the same lookup written
several times; full ranges and wraparound; an output directory that is written in place,
file by file; and inputs that change while they are used. `PROJECT.json` lists the hazards line by line.

## The modules

| Module | Models | State and actions |
| --- | --- | --- |
| `AddressSpace` | ranges, items, hash slot and candidates (`allocator.py` 38-69) | operators only |
| `Placement` | what an allocation is for: which placements of a set of items are right | operators only |
| `AddressInputs` | what a pass is given | the assumptions on ranges and items |
| `AddressMap` | what one pass promises, in one step | a request, answered by the placement of its set of items or by a justified refusal |
| `AddressRange` | one pass: the algorithm that `allocator.py` has twice, lines 242-282 for indexes and 95-131 for record subindices | `occupied`, `assigned` and the loop positions; one action per branch of the two loops |
| `AddressStability` | two passes with an edit in between | `AddressRange` and the result of the first pass; `Reorder`, `AddItem`, `Pin` |
| `Dictionary` | `allocate_object_dictionary` and `diagnose_address` | the variables of `AddressRange`, reused by every pass, and the definitions, `assignments` and objects built |
| `Artifacts` | what EDS, address map and documentation list of the dictionary | functions from the places that their loops come to, on the result of `Dictionary` |
| `ModuleGraph` | the project's files and imports, and the faults they may have | `project` |
| `ModuleResolver` | `_ModuleResolver` | one frame per activation of `_resolve_import`; registry, cache and result order |
| `Commands` | `validate`, `validate-all`, `map`, `address`, and `generate` up to its first write | the session, the file a command has come to, its stage; the stages of `_resolve_definition` one by one, with `ModuleResolver` inside |
| `Scope` | qualified names and `visible_namespaces` | operators only |
| `TypeResolver` | `_GraphTypeResolver` | the recursion stack, the cache and the loop positions |
| `CppSymbols` | `generate_cpp_symbols` | the position in the header, the enums and tags rendered; one action per tag and per refusal |
| `PdoMapping` | `resolve_pdo_references`, then `resolve_pdo_mappings`, and the PDO tables of the documentation | one action per way a reference or an entry can be resolved or refused |
| `Generate` | `_generate`, `main`, `run_eds2od`, `_apply_namespace` | the YAML's version, the output directory, the step of the run; `EditDefinition`, `Crash`, `CrashInTool` and what Eds2Od does |
| `Build` | the custom command of `canopen_device` | `Generate`, the outputs newer than every dependency, the role of the device |

How they compose: `Dictionary` runs its passes through `INSTANCE AddressRange`, whose
actions act on the shared pass variables, and `Artifacts` extends `Dictionary`.
`AddressStability` extends `AddressRange`. `AddressMap` is the abstraction of
`AddressRange` (`PassResult` is the refinement mapping); both, and `Dictionary`, are judged
by `Placement`. `CppSymbols` extends `TypeResolver` and renders what it has resolved;
`PdoMapping` and `TypeResolver` share `Scope`. `Commands` calls a new `ModuleResolver` for
every file, as `resolve_modules` does. `Build` extends `Generate` and starts its runs. The
modules named `MC...` hold the inputs of the runs; the modules named `...Proofs` hold
theorems.

What is abstracted:

- A qualified name is a natural number, its rank in lexical order (`AddressSpace`,
  `ModuleGraph`), except where dots matter: in `Scope` a name is the sequence of its parts.
- CRC-32 is any number: each item carries one, and the runs take all hash slots. The
  deterministic dependence on the name is that it is a field of the item.
- Module parameters are one value per import, with its class under Python's `==`.
- A type's enum is the set of its values; member names and their order are left out.
- An object is what the PDO backend reads of it: names, access, width (0 when its type is
  not PDO-mappable) and subentries.
- A generated file is known by the version of the YAML it was made from and by its layout.
- In `Artifacts` a document is a function: a place, which is an object or one of its
  subentries, has the section or the line that is written there, and `IsBefore` is the order
  in which the loops come to the places. Its values are section names, counts and rows,
  without the text of a line.
- What a loop collects in the order of a sort is a set with that order: the files that
  `validate-all` has still to judge, the definitions of a category in `CategoryItems`, the
  leaves that the document compares with a name. The next one is the first of the set, and
  proofs need no induction over sequences.
- In `Commands` a stage after the modules is the question whether a file it sees has a flaw
  of that stage, or two files claim one index. A flaw of types, references or mappings
  belongs to the file that has it and is taken to depend on nothing but that file and its
  imports; the modules of the stages say what the flaws are. For mappings this leaves out
  one case: `pdo.py` 25-39 searches the whole dictionary in index order, so in a module with
  an array `list` and an object keyed `list[1]` (the case of `PdoTargets`) the objects of the
  importing device can decide which of the two is found. What `Commands` shows of mapping
  faults is meant for files without such a pair of keys.
- In `Build` times are compared only with the newest dependency, so that a set of outputs
  stands for them. The build tool remembers a failed command and runs it again, as Ninja
  and Make do.
- Error messages, formatting and rendering are left out; errors are their classes.

## The runs

| Run | Question | Bounds | Answer |
| --- | --- | --- | --- |
| `AddressRange` | Does the pass keep its promises in every state, reach the only right placement, and implement the abstract pass? | all inputs of up to 3 items in every order, and of 4 in lexical order, in ranges of 2 and 3; every slot and every explicit address, including both neighbours of the range | holds |
| `AddressStability` | What does an edit do to the addresses of the rest? | up to 3 items from 4 names in a range of 3, then a permutation, a new item or a pinned one | order is irrelevant, pinning moves nothing, a new item moves others only forward along their chains |
| `Dictionary` | Are categories and records independent and failures justified, and do EDS, map and documentation list the same dictionary? | 2 categories of 2 indexes, records with 2 usable subindices, up to 3 definitions, arrays of up to 2 elements | holds |
| `ModuleResolver` | Is exactly the sound closure resolved, once each and dependency-first? | a root and 3 modules, all imports among them, 3 parameter values of which two are `==`, missing, broken, undecodable and duplicate imports, device and module roots | holds |
| `ModuleParameters` | Does a diamond with different assignments always fail? | the same | violated: see below |
| `Commands` | Does `validate-all` tell every file, and is its verdict that of every later command? | 2 modules and a device, each with every kind of fault, a missing import; `validate-all` and then any one command | holds |
| `TypeResolver` | Is exactly the sound graph lowered, to the end of every chain, and does the header keep what was resolved? | 3 namespaces (one with a dot), as module or as device, up to 6 declarations, a 2-bit integer and a float; variables and record fields that use them | holds |
| `TagTypes` | Is the type that a tag exposes, by C++ scoping, the resolved one? | the same | violated |
| `PdoMapping` | Is every accepted PDO transferable, every refusal justified, and the documentation that of the mapping? | 4 namespaces (one with a dot), up to 7 objects, one or two PDOs of one or two entries | holds |
| `PdoTargets` | Is the encoded entry that of the named target? | the same | violated |
| `Generate` | What is on disk after any history of builds, and is a build with nothing to do current? | module `Build`; 3 versions of the YAML, 2 namespaces, one bad one, any number of runs and crashes | holds |
| `StaleOutput` | Were both Od files written by the run that reports success? | module `Generate` alone, 2 versions | violated |

Why the bounds are enough. The pass treats addresses and names only by comparison, and the
interesting cases (a probe that wraps, a probe over explicit and over automatic items, an
exactly full range, one item too many, an explicit address just outside) all occur with
three addresses; the proofs below remove the bound. Three modules are enough for a diamond
below the root, a cycle that spares it and one that contains it. One dotted namespace and
one dotted key are enough for a name that divides in two ways. `validate-all` keeps nothing
from one file to the next but the summary, so that one command after it shows whatever a
session could show, and two module files are enough for one that is visited through another
and on its own. What a run of `generate` reads of the past is the directory alone, whose
contents are finite once versions are: `MaxVersion` bounds only the number of edits, and
with three versions an edit comes before, during and after a run; the proofs remove this
bound too.

Deadlocks are reported in `StaleOutput` only, where a new run can always start. The other
specifications describe a computation that stops when it has its result, and a build that
is up to date has nothing to do.

The models found four disagreements between the code and its documentation, each shown by
a run that TLC finds violated:

- `ModuleParameters`: parameters are compared with Python's `==` (`resolver.py` 144), so
  that `1` and `true` are one assignment, although `docs/wiki/Modules.md` 34-35 promises
  that different assignments fail.
- `PdoTargets`: an object whose key looks like an array element (`list[1]`) is shadowed by
  the element of an array with a lower index (`pdo.py` 34-39).
- `StaleOutput`: existing Od files of an earlier run pass for the output of this one
  (`eds2od.py` 174).
- `TagTypes`: an object whose Pascal-case key is the name of its enum type becomes
  `struct State { using Type = State; ... }`, where `State` is the tag and not the enum
  (`generators/cpp.py` 236).

Observations that the models rest on or allow for, without a run of their own:

- A reference `N.x` in `D` is taken for local when an import named `D.N` declares `x`
  (`resolver.py` 257-258). It is then still a visible object, which is what
  `LookupIsScoped` asks.
- The header takes what stands before the first dot of an object's name for its owner
  (`generators/cpp.py` 263): objects of a module `D.N` are listed with those of `D`.
  `TagsKeepResolvedEnums` and `ScopesHaveNoDuplicates` leave dotted namespaces out. And a
  device whose own name has a dot gets no preference for its own enums, so that a header
  may be refused for an enum that the device and a module both name;
  `SymbolRefusalIsJustified` has that exception, which its proof asked for and a device
  `D.N` in the run shows. `ScopesHaveNoDuplicates` also leaves out keys that differ only in the case of their words, and keys that
  are the name of a module: these do meet in one scope (`NamesStayApart`).
- An object whose key is `type` becomes a struct `Type` with a member `Type`, which C++
  compilers refuse.
- A file that is not UTF-8 raises `UnicodeDecodeError` (`parser.py` 63-66), which no
  command catches, although the docstring at line 309 promises a `ParseError`:
  `validate-all` then ends without a summary. `SummaryTellsEveryFile` says so.
- `validate-all` of a directory with no definitions succeeds.
- An edit that comes after the YAML is read and before the EDS is written is older than
  every output that was made without it, and is never built. `UpToDateIsCurrent` has that
  exception, and the proof below shows that there is no other.
- A run without a namespace after one with a namespace leaves the Od files in the old
  one if Eds2Od keeps edited files (`eds2od.py` 180).
- The Markdown document lists each PDO entry under its own spelling, while the mapping
  entry keeps the first spelling of its target. `DocumentationMatchesMapping` has that
  exception.
- An Eds2Od that overrides the default one is no dependency of the custom command
  (`CanOpenGen.cmake` 42-49); and the command depends on the `Modules` directory beside
  that of the device file, which is the resolver's only if that directory is named `Device`.

## Fairness

The resolvers, the allocator and the generators are sequential functions: while one runs,
its next step happens, which is `WF_vars(Next)`. It is assumed where termination is a
property (the pass, the module recursion, and `SymbolsNext` for the type recursion with the
header after it). `Build` assumes weak fairness of `RunStep /\ RunCommand`, and `Generate`
alone of `RunStep`: a started run goes on unless it is killed. That includes `ToolFails`
and `ToolSucceeds`, so it assumes that Eds2Od returns; `subprocess.run` is called without a
time limit (`eds2od.py` 155), and without that assumption `RunsEnd` does not hold. Nothing
is assumed of edits, new runs or crashes. `EditDefinition` happens at any moment, also
while a run is under way; reading the YAML and its modules is one step. The role of a
device is fixed when the build is configured.

## The proofs

### The allocator

`AddressRangeProofs` proves, for every range, every CRC, every explicit address and every
input sequence with unique names:

- `TypeCorrect`, `AddressesAreDistinct`, `ExplicitAddressesComeFirst`,
  `ProbeChainsAreJustified`, `ExhaustionIsJustified`: the first five invariants of the
  `AddressRange` run.
- `UniquePlacement`: two placements of the same finite set of items are equal. The proof
  takes the least name on which they differ; its probe chain in one of them would have to
  step over an item that stands elsewhere in the other.
- `ResultsAreUnique`: hence the result of a pass is the only placement of its items
  (`ResultIsTheOnlyPlacement`): the allocation is a function of the set of definitions,
  which is what `docs/wiki/Object-Dictionary-Allocation.md` promises of equivalent
  configurations.
- `PassImplementsAddressMap`: the pass refines the abstract specification.

The assumptions are the named ones of the modules: `None` is no natural number, ranges are
not empty, and the items of an input have unique names, which
`_require_unique_qualified_names` has checked before. The four categories and the record
subindices 1..254 are instances.

None of the four safety properties is inductive alone. The invariant is their conjunction
with `TypeOK` and `LoopInv`, which says what the two loops have done so far: the explicit
loop has reserved every declared address before its position and nothing else, automatic
items have been served in lexical order, and every candidate that the current item has
stepped over is held. The last part is what turns the end of the probe loop into "the range
is full": as many consecutive candidates as there are addresses cover the range
(`CandidatesCover`). Each action has a lemma of its own.

`Allocation` says of a result, in terms of the set of the items alone, what a pass makes of
them, with the source and the probe distance of every entry. `PassInv` carries it through a
pass, from its call (`CallPassInv`) to the outcome of its end (`EndedOutcome`). This is what
the proofs about more than one pass take from here.

### Edits and addresses

`AddressStabilityProofs` proves the three invariants of the `AddressStability` run, for
every range, every sequence of items with unique names and every hash: `OrderNeverMatters`,
`PinningIsHarmless` and `NewItemsPushForward`. Beside the assumptions of the allocator it
takes `NewItemsAssumption`: a new item is an item.

The properties compare the results of two passes, which are `Allocation`s by `PassInv`. Most
of the work is about allocations without a pass: two of one set are equal (`OneAllocation`); in the allocation
of a larger set no item has a smaller probe distance (`ProbesOnlyGrow`), because the first
item, by name, that moved back would stand on an address that a smaller name had to step
over; smaller
names stay where they are (`SmallerNamesStay`); and an allocation in which an automatic
item has been made explicit at its own address is still one (`PinnedPlacement`).
`StabilityInv` remembers the outcome of the first pass and what the edit has made of its
items.

### The whole dictionary

`DictionaryProofs` proves the five invariants of the `Dictionary` run, for any number of
categories, any definitions and every hash: `CategoriesArePlaced`, `CompoundsArePlaced`,
`FailuresAreJustified`, `DiagnosticsExplain` and `ArtifactsAreComplete`. The assumptions are
`RangesAssumption` (the ranges of the categories are disjoint, subindices start at 1),
`CategoriesAssumption` and `DefinitionsAssumption`, which give the input its types.

What is proved of one pass is used through an instance of `AddressRangeProofs`, whose steps
are those of the passes here (`PassNext`). The inductive invariant carries it from the end
of a pass, whose variables the next pass reuses, to the finished dictionary. The pass under
way satisfies `PassInv` over the range and the items that `allocate_object_dictionary` has
called it with (`StageInv`). The entries of every category that is finished are those of a
pass over it alone (`PlacedInv`): names are unique over all definitions, so that the entries
of a later category, which are merged into the same `assignments`, replace none of them.
Every object that is built is what its definition asks for, with the entries of its own pass
(`BuiltInv`), and a failure has its cause (`FailedInv`): a pass refuses only what is crowded
(`RefusedIsCrowded`), and what is placed is not crowded (`PlacedIsNotCrowded`), so that no
fault of an index is left when the first object is built.

For the artifacts, `OrderInv` adds that the objects have ascending indexes, and smaller ones
than every definition without an object. It needs that no index is given twice, within a
category or in two of them (`IndexesDiffer`). Then the places of the EDS and of the map have
addresses in the order of the loops (`PlacesAscend`); sorting the indexes for
`ManufacturerObjects` changes nothing (`SortedIsSame`), and there are as many of them as
definitions (`AsManyObjects`); the places of an object's subentries are the sections that
follow it (`CountsFollow`); and the lines of the map are the sections of the EDS less the
counts (`MapIsEds`), which is where subindex 0 is the count and nothing else.

### Module resolution

`ModuleResolverProofs` proves the four invariants of the `ModuleResolver` run for every
import graph: `RegistersOnce`, `OrdersDependenciesFirst`, `ResolvesSoundProjects` and
`ResolvesAgreedConfigurations`. The assumptions are those on constants in `ModuleGraph` and
`ProjectsAssumption`, which gives the parts of a project their types. Cycles, diamonds,
duplicates and files of every kind are among the projects.

`RegisteredOnce` and `DependencyFirst` speak of the caches; that the right modules are in
them at the end needs the stack. The invariant says that the activations form a path of
imports from the root (`PathInv`), so that an import of a module on the stack closes a
cycle; that what has been loaded was needed and had no fault (`LoadedInv`); that every
import a loop has left behind agrees with the registry and is resolved, or is being
resolved by the next activation (`LoopInv`), hence that all imports of a resolved module
are settled (`SettledInv`); that the registry has what some import asked for
(`RegistryInv`); and that an error names a fault (`ErrorInv`). The closure is the least set
that is closed under imports: one half of `ResolvesSoundProjects` is that the resolved
modules are such a set, the other that they are all in it. No cycle is left because modules
stand after their imports: of those on a cycle, one would have to be first.

### The commands

`CommandsProofs` proves both invariants of the `Commands` run, for every project (any files
in any directories, any graph of imports, any faults) and sessions of any length:
`SummariesAreTrue` and `CommandsFollowVerdicts`. `CommandsAssumption` gives the commands
their arguments and `SourcesAssumption` the files their parts.

Every resolution is a new `ModuleResolver`, and its invariant from `ModuleResolverProofs` is
carried through an instance, over the project that the file at hand sees: a resolution that
is over has reported a fault of that file's project or found none. The inductive invariant
says what the command has done so far: `validate-all` has a right verdict on every file it
has judged, the rest is still to do, and the count of failures is 0 exactly if all verdicts
are good (`LoopInv`); beyond the parse, the file at hand is a definition, its resolver is in
an inductive state, and the checks it has come through found no fault in any module it needs
(`StageInv`); every entry of the history is right (`HistoryInv`). A verdict is right if the
definition is sound, or if the file has the fault. No command changes a file, so that a
right verdict stays right, and two right verdicts on a file agree.

That a device passes only with its modules takes `NeededIsSound`: what a module imports is
within what the device imports, so that a fault in the project of the module, of its imports
or of its checks is one in the project of the device (`ImportedGraph`).

### Types and the header

The first part of `CppSymbolsProofs` proves the three invariants of `TypeResolver`, for
every graph of declarations and every table of primitives: `LowersAlongChains`, `StoresEveryEnum` and
`ResolvesSoundGraphs`. The assumptions are `PrimitivesAssumption`, that a primitive has
integer bounds, and `GraphsAssumption`, that declarations and uses come in finite sequences.

The chain of a declaration is again a least set, the least one that has the declaration and
the bases of its members (`ChainHasItsBases`, `ChainIsLeast`). The invariant: the stack is
in the chain of each of its declarations, none of them twice and none resolved (`PathInv`);
a resolved declaration has one base, resolved before it, and is not in the chain of that
base (`BasesInv`), which excludes cycles through what is resolved; there is one primitive
in its chain, and it is what the declaration is lowered to (`PrimitiveInv`); its enum is its
own or that of its base, and fits (`EnumInv`); the loops have left nothing behind
(`LoopInv`); every use has been lowered to what it denotes (`UsesInv`). In the end every
declaration is resolved and every use denotes something, which leaves no fault
(`NoFaultIsLeft`).

The second part goes on with that invariant and proves the three invariants of `CppSymbols`, for every graph and every Pascal case: `TagsHaveResolvedEnums`,
`RefusesForNames` and `HeaderHasNoDuplicates`. It assumes of the graph what the parser
makes of YAML keys (`DefinitionsAssumption`): names have a part at least, types and objects
belong to definitions of the graph, keys of one mapping differ, and a leaf is a variable or
one level below a record or array. `PascalAssumption` is that a Pascal case is a sequence
of words.

The first two theorems are about two lookups that do not know of each other. What both find
is compared in `SelectedEnum`: once the header has checked that all enums have names
without dots, a use that the resolver lowered to enum `i` has `i` among the enums of that
name, and `i` is the only one, or the only one of the owner, or the only one in sight.
`RefusalHasCause` and `LookupsAgree` are its consequences for the generator. The proof
needs the names of all enums to be checked before the first tag is rendered (`NamedInv`),
as the order of the generator's loops provides. For the third theorem the full name of a
tag is compared with the route of names that leads to its leaf: the routes of two uses do
not begin with one another (`RoutesStayApart`), and the Pascal case keeps their names apart.

### PDO mapping

`PdoMappingProofs` proves the four invariants of the `PdoMapping` run, for every dictionary
and any number of PDOs and entries: `LooksUpInScope`, `MapsTransferableAddresses`,
`DocumentsWhatIsMapped` and `RejectsOnlyFaults`. `DevicesAssumption` says of the
dictionary what the classes of the model and the allocator guarantee: only a record has no
access, a compound object has no width of its own, indexes and subindices are unique, a
count has the key of its object.

The invariant follows both stages: how many references and entries there are, and that a
PDO that has been left behind is full and within its payload (`ProgressInv`); and that every
entry has the address and the width of the leaf that its reference names, which has the
access that its direction needs (`EntriesInv`). That the address is that of such a leaf, and
of no other with the same name, is `TargetIsAddressed`: objects and subentries are searched
in one order, and indexes and subindices identify them.

The document looks every name up by itself, in another way: over all objects, leaf by leaf,
without the counts. `DocumentedLeafIsLeaf` is that it ends at the same leaf. The first object
with that name at one of its leaves is the one that the mapping found; where a count has the
name, so has its object, which comes before it in both searches. Why a row may have another
spelling than its entry is in `EntriesInv`: the declared name of an entry is the spelling of
a reference to the same target, at its own position or at an earlier one.

### Generation and the build

`BuildProofs` proves, for any number of versions, any namespaces and any behaviour of
Eds2Od that `Generate` allows:

- `GenerationIsSafe`: the four invariants of `Generate`, of its own specification.
- `BuildTypeCorrect`, `BuildRunsAreComplete`, `BuildKeepsTheOrder`, `BuildFailuresLeave`:
  the same four of `BuildSpec`, whose steps are steps of `Generate` (`BuildNextIsNext`).
- `UpToDateBuildsAreCurrent`: a build with nothing to do has the artifacts of the present
  YAML (`UpToDateIsCurrent`).

The assumptions are `MaxVersionAssumption` and `NamespacesAssumption`: the sorts of
namespaces and of other layouts are disjoint.

`SuccessIsComplete` speaks of the end of a run; what carries it there is `StepInv`: at
every step, the files written before it are of the YAML that the run has read
(`WrittenBefore`), no file is of a later YAML, and between the two writes of the namespace
adaptation the header is in its namespace. `OlderFilesComeLater` needs the second part, at
the moment when an artifact is replaced while those after it are still old. Each kind of
action has a lemma: edits, starts, the reading, the three writes, Eds2Od, the adaptation,
crashes, refusals and successes.

For the build, `BuildInv` adds why nothing is forgotten: if the YAML that the last run read
is not the present one, then either the edit came in the gap between the reading and the
writing of the EDS (`overtaken`), or the EDS is older than the edit, and the build tool sees
it. One step writes the EDS and one step reads the YAML (`RunCommandShape`); the rest
follows by cases on where the run is.

### What is only model-checked

- `Terminates` (of the pass, the module recursion and the types with the header) and
  `RunsEnd`: liveness is out of the prover's reach. Every other property of a passing run is
  also a theorem.
- `ModuleParameters`, `TagTypes`, `PdoTargets` and `StaleOutput` are counterexamples, which
  TLC finds.

## Not modelled

Left out, and why:

- The conversion of one document by PyYAML and jsonschema (`parser.py` 82-300, the schema):
  a translation without choices of its own. What it guarantees bounds the inputs of the
  models; how reading fails, and who catches it, is in `ModuleGraph` and `Commands`.
- The text of the artifacts: lines, widths, datatype codes, C++ keywords, messages. What
  they list, in which order and scope, is modelled.
- The tables of modules and custom types in the Markdown document, which print the graphs
  that `ModuleResolver` and `TypeResolver` describe.
- The single-definition type resolver (`type_resolver.py` 33-199), which tests alone reach.
- The package interface (`__init__.py` files): re-exports.
- Argument checks of the CMake functions at configuration time.

Eds2Od is not part of the repository; `Generate` lets it do whatever a tool with its
command line can do to its two output files.
