------------------------------ MODULE Commands ------------------------------
(***************************************************************************)
(* The commands of canopengen on the files of one project: validate,       *)
(* validate-all, map, address, and what generate does before it writes.    *)
(*                                                                         *)
(* Every command parses its file and takes the definition through the same *)
(* chain: modules, types, allocation, references, mapping.  The modules    *)
(* are resolved by ModuleResolver; of the other stages only the faults are *)
(* kept.  A flaw of a file (its types, references or mappings) depends on  *)
(* the file and its own imports, so it shows wherever the file is used;    *)
(* files clash in the allocation if they claim the same index.             *)
(***************************************************************************)
EXTENDS ModuleGraph

CONSTANTS
    None,
    Sources,    \* the projects: path -> [document, kind, name, imports, flaw, claim]
    Sessions    \* bound: the sequences of commands that are run, and their prefixes

\* A path is <<directory, stem>>; the stem of a module is its name.
Directories == {"Modules", "Device"}

\* command.path is None for validate-all and for address without a context.
\* A command may fail for what is not in the project: the filename stem that
\* generate requires to be an identifier, the object that address looks up.
Command(name, path, argumentOK) == [name |-> name, path |-> path, argumentOK |-> argumentOK]
Commands == UNION {{s[k] : k \in DOMAIN s} : s \in Sessions}

ASSUME CommandsAssumption ==
    /\ None \notin Commands \union (Directories \X Nat)
    /\ \A c \in Commands :
          /\ c.name \in {"validate-all", "validate", "map", "address", "generate"}
          /\ c.path \in Directories \X Nat \/ c.path = None
          /\ c.argumentOK \in BOOLEAN
          /\ c.name = "validate-all" => c.path = None
          /\ c.name \in {"validate", "map"} => c.argumentOK

\* The errors of parse_definition.  The last of them is not a diagnostic.
ParseErrors ==
    [unreadable |-> "parse", malformed |-> "parse", no_mapping |-> "schema", bad_key |-> "schema",
     old_schema |-> "version", nonconforming |-> "schema", undecodable |-> "undecodable"]

\* What the schema leaves of a file that parses: its kind, its imports, and the
\* name of a device.
ASSUME SourcesAssumption ==
    \A s \in Sources :
        /\ DOMAIN s \subseteq Directories \X Nat
        /\ \A p \in DOMAIN s :
              \/ s[p].document \in DOMAIN ParseErrors
              \/ /\ s[p].document = "valid"
                 /\ s[p].kind \in {"device", "module"}
                 /\ s[p].kind = "device" => s[p].name \in Nat
                 /\ s[p].imports \in Seq(Imports)

VARIABLES
    source,     \* the files of the project
    history,    \* the commands that have ended: [command, status, verdicts]
    command,    \* the command that runs, or None
    todo,       \* the paths it has not judged yet
    stage,      \* where it is with the first of these
    verdicts,   \* the lines of validate-all: path -> "ok" or an error
    failures,   \* its count
    frames, configurations, resolved, ordered, result   \* of the module resolver

Resolution == INSTANCE ModuleResolver WITH Projects <- {}

resolutionVars == <<project, frames, configurations, resolved, ordered, result>>
loopVars == <<todo, verdicts, failures>>
vars == <<source, history, command, loopVars, stage, resolutionVars>>

-----------------------------------------------------------------------------
Paths == DOMAIN source

\* The order of _project_yaml_files: modules before devices, each by name.
IsBefore(p, q) ==
    \/ p[1] = "Modules" /\ q[1] = "Device"
    \/ p[1] = q[1] /\ p[2] <= q[2]

Document(p) == IF p \in Paths THEN source[p].document ELSE "unreadable"
IsDefinition(p) == Document(p) = "valid"
IsDevice(p) == IsDefinition(p) /\ source[p].kind = "device"

\* What an import finds in the Modules directory.
ModulePath(m) == <<"Modules", m>>
ImportedFile(m) ==
    IF ModulePath(m) \notin Paths THEN File("missing", << >>)
    ELSE IF Document(ModulePath(m)) = "undecodable" THEN File("undecodable", << >>)
    ELSE IF IsDefinition(ModulePath(m)) /\ ~IsDevice(ModulePath(m))
         THEN File("module", source[ModulePath(m)].imports)
    ELSE File("broken", << >>)

\* A device has a name of its own, a module that of its file.
Namespace(p) == IF IsDevice(p) THEN source[p].name ELSE p[2]

ProjectOf(p) ==
    [root |-> Namespace(p), kind |-> source[p].kind, imports |-> source[p].imports,
     files |-> [m \in Modules |-> ImportedFile(m)]]

\* The definitions of the resolved graph of p.
Owners(p) == {p} \union {ModulePath(m) : m \in resolved}

Clash(owners) ==
    \E p, q \in owners : p # q /\ source[p].claim # None /\ source[p].claim = source[q].claim

\* A mapping flaw is taken to be that of one file.  pdo.py:25-39 looks a target
\* up in the whole dictionary, so this leaves out a file with an array and an
\* object whose key looks like an element of it: which of the two comes first
\* there may depend on what the importing device adds.
IsFaulty(owners, s) ==
    IF s = "allocation" THEN Clash(owners) ELSE \E p \in owners : source[p].flaw = s

\* Mutant of Following: map is content with the addresses.
FollowingOfMap(s) ==
    IF command.name = "map" /\ s = "allocation" THEN "answer"
    ELSE [types |-> "allocation", allocation |-> "references", references |-> "mapping",
          mapping |-> "answer"][s]

Following(s) ==
    [types |-> "allocation", allocation |-> "references", references |-> "mapping",
     mapping |-> "answer"][s]
Checks == {"types", "allocation", "references", "mapping"}

-----------------------------------------------------------------------------
Init ==
    /\ source \in Sources
    /\ history = << >>
    /\ command = None
    /\ todo = {}
    /\ stage = "idle"
    /\ verdicts = << >>
    /\ failures = 0
    /\ Resolution!Begin([root |-> 0, kind |-> "device", imports |-> << >>, files |-> << >>])

Start(c) ==
    /\ command = None
    /\ Append([k \in DOMAIN history |-> history[k].command], c) \in Sessions
    /\ command' = c
    /\ todo' = CASE c.name = "validate-all" -> Paths
                 [] c.path # None -> {c.path}
                 [] OTHER -> {}
    /\ stage' = IF c.name = "generate" /\ ~c.argumentOK THEN "refused" ELSE "parse"
    /\ UNCHANGED <<source, history, verdicts, failures, resolutionVars>>

Path == CHOOSE p \in todo : \A q \in todo : IsBefore(p, q)
Parsing == stage = "parse" /\ todo # {}

Goto(s) ==
    /\ stage' = s
    /\ UNCHANGED <<source, history, command, loopVars, resolutionVars>>

\* The process ends: what it printed and its exit status are what remains.
End(status) ==
    /\ history' = Append(history, [command |-> command, status |-> status, verdicts |-> verdicts])
    /\ command' = None
    /\ todo' = {}
    /\ stage' = "idle"
    /\ verdicts' = << >>
    /\ failures' = 0
    /\ UNCHANGED <<source, resolutionVars>>

IsLoop == command.name = "validate-all"

\* The loop of validate-all has a verdict on its file and goes on.
Judge(verdict) ==
    /\ verdicts' = [p \in DOMAIN verdicts \union {Path} |->
                       IF p = Path THEN verdict ELSE verdicts[p]]
    /\ failures' = IF verdict = "ok" THEN failures ELSE failures + 1
    /\ todo' = todo \ {Path}
    /\ stage' = "parse"
    /\ UNCHANGED <<source, history, command, resolutionVars>>

\* A CanOpenGenError.  The loop counts it; main turns it into the exit status.
Refuse(error) == IF IsLoop THEN Judge(error) ELSE End("failure")

\* Any other exception passes the loop and main.
Crash == End("traceback")

RefuseStem == stage = "refused" /\ End("failure")

RejectFile ==
    /\ Parsing
    /\ ~IsDefinition(Path)
    /\ Document(Path) # "undecodable"
    /\ Refuse(ParseErrors[Document(Path)])

CrashOnFile ==
    /\ Parsing
    /\ Document(Path) = "undecodable"
    /\ Crash

NeedsDevice == command.name \in {"map", "address", "generate"}

RejectModule ==
    /\ Parsing
    /\ IsDefinition(Path)
    /\ NeedsDevice
    /\ ~IsDevice(Path)
    /\ Refuse("schema")

\* Mutant of ResolveModules: the resolver of the file before is used again.
ResolveWithOldResolver ==
    /\ Parsing
    /\ IsDefinition(Path)
    /\ ~NeedsDevice \/ IsDevice(Path)
    /\ stage' = "modules"
    /\ project' = ProjectOf(Path)
    /\ frames' = << >>
    /\ result' = "resolving"
    /\ UNCHANGED <<source, history, command, loopVars, configurations, resolved, ordered>>

ResolveModules ==
    /\ Parsing
    /\ IsDefinition(Path)
    /\ ~NeedsDevice \/ IsDevice(Path)
    /\ stage' = "modules"
    /\ Resolution!Call(ProjectOf(Path))
    /\ UNCHANGED <<source, history, command, loopVars>>

ResolutionStep ==
    /\ stage = "modules"
    /\ Resolution!Next
    /\ UNCHANGED <<source, history, command, loopVars, stage>>

ModulesResolved ==
    /\ stage = "modules"
    /\ result = "resolved"
    /\ Goto("types")

RejectModules ==
    /\ stage = "modules"
    /\ result \in Errors \ {"undecodable"}
    /\ Refuse(result)

CrashOnModule ==
    /\ stage = "modules"
    /\ result = "undecodable"
    /\ Crash

PassCheck ==
    /\ stage \in Checks
    /\ ~IsFaulty(Owners(Path), stage)
    /\ Goto(Following(stage))

FailCheck ==
    /\ stage \in Checks
    /\ IsFaulty(Owners(Path), stage)
    /\ Refuse(stage)

Accept ==
    /\ stage = "answer"
    /\ IsLoop
    /\ Judge("ok")

\* validate reports, map prints, generate goes on to write (module Generate).
Answer ==
    /\ stage = "answer"
    /\ ~IsLoop
    /\ command.name # "address" \/ command.argumentOK
    /\ End("success")

RejectObject ==
    /\ stage = "answer"
    /\ command.name = "address" /\ ~command.argumentOK
    /\ End("failure")

\* The address of a name by itself: nothing is looked up.
AnswerWithoutContext ==
    /\ stage = "parse"
    /\ command.name = "address" /\ command.path = None
    /\ End("success")

\* The summary, which an empty project passes too.
Summarise ==
    /\ stage = "parse"
    /\ IsLoop
    /\ todo = {}
    /\ End(IF failures > 0 THEN "failure" ELSE "success")

Next ==
    \/ \E c \in Commands : Start(c)
    \/ RefuseStem
    \/ RejectFile
    \/ CrashOnFile
    \/ RejectModule
    \/ ResolveModules
    \/ ResolutionStep
    \/ ModulesResolved
    \/ RejectModules
    \/ CrashOnModule
    \/ PassCheck
    \/ FailCheck
    \/ Accept
    \/ Answer
    \/ RejectObject
    \/ AnswerWithoutContext
    \/ Summarise

Spec == Init /\ [][Next]_vars

-----------------------------------------------------------------------------
\* The reference: what is wrong with a file, whatever finds it.
Graph(proj) == INSTANCE ModuleGraph WITH project <- proj

Needed(p) == {p} \union {ModulePath(m) : m \in Graph(ProjectOf(p))!Closure}
HasFault(p, error) ==
    IF ~IsDefinition(p) THEN error = ParseErrors[Document(p)]
    ELSE IF error \in Errors THEN Graph(ProjectOf(p))!Fault(error)
    ELSE error \in Checks /\ (Needed(p) \subseteq Paths => IsFaulty(Needed(p), error))
IsSound(p) == \A e \in Errors \union Checks \union Range(ParseErrors) : ~HasFault(p, e)

Verdict(k, p) == history[k].verdicts[p]
Summaries(status) ==
    {k \in DOMAIN history : history[k].command.name = "validate-all" /\ history[k].status \in status}

\* A summary of validate-all has a verdict on every file, "ok" for those that
\* have no fault however the files around them are, else a fault the file has;
\* the exit status says whether there is one; and a device fails with any of
\* the modules it needs.  Only a file that cannot be decoded leaves files
\* without a verdict, and then one of those not judged meets it.
SummaryTellsEveryFile ==
    /\ \A k \in Summaries({"success", "failure"}) :
          /\ DOMAIN history[k].verdicts = Paths
          /\ history[k].status = "success" <=> \A p \in Paths : Verdict(k, p) = "ok"
          /\ \A p \in Paths : IsDefinition(p) =>
                \A q \in Needed(p) \intersect Paths : Verdict(k, q) # "ok" => Verdict(k, p) # "ok"
    /\ \A k \in Summaries({"traceback"}) :
          \E p \in Paths \ DOMAIN history[k].verdicts : HasFault(p, "undecodable")
    /\ \A k \in Summaries({"success", "failure", "traceback"}) : \A p \in DOMAIN history[k].verdicts :
          IF Verdict(k, p) = "ok" THEN IsSound(p) ELSE HasFault(p, Verdict(k, p))

\* What validate-all says of a file holds for every later command on it:
\* validate agrees, and map, address and generate accept the devices among the
\* files that passed, unless their other argument is at fault.
ValidationPredictsCommands ==
    \A j, k \in DOMAIN history :
        LET p == history[k].command.path IN
        (j < k /\ history[j].command.name = "validate-all" /\ p \in DOMAIN history[j].verdicts) =>
            (history[k].status = "success" <=>
                /\ Verdict(j, p) = "ok"
                /\ history[k].command.name = "validate" \/ (IsDevice(p) /\ history[k].command.argumentOK))
=============================================================================
