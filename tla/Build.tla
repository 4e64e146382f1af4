-------------------------------- MODULE Build --------------------------------
(***************************************************************************)
(* canopen_device: the build that runs canopengen generate for one device  *)
(* when it has to, composed with Generate.                                 *)
(*                                                                         *)
(* The build tool is external.  It runs the command of add_custom_command  *)
(* if one of its outputs is missing or older than one of its dependencies, *)
(* or if the command failed the last time.  Times matter only as far as    *)
(* an output is newer than every dependency, so that a set of outputs      *)
(* stands for them.                                                        *)
(***************************************************************************)
EXTENDS Generate

VARIABLES
    role,       \* EDS2OD_NAMESPACE: none for the local device
    fresh,      \* the outputs that are newer than every dependency
    overtaken   \* history: the YAML was edited after the run in which its
                \* present outputs were begun had read it, and before its EDS

buildVars == <<vars, role, fresh, overtaken>>

Outputs == {"eds", "md", "objects", "cpp", "hpp"}

IsUpToDate == step = "idle" /\ outcome = "generated" /\ Outputs \subseteq fresh

-----------------------------------------------------------------------------
BuildInit ==
    /\ Init
    /\ role \in Namespaces \union BadNamespaces \union {NoNamespace}
    /\ fresh = {}
    /\ overtaken = FALSE

\* Mutant of EditDependency: a module that is edited is no dependency.
EditUnnoticed ==
    /\ EditDefinition
    /\ overtaken' = (overtaken \/ step = "eds")
    /\ UNCHANGED <<role, fresh>>

\* The device, one of the modules, the schema or the generator changes, and is
\* newer than everything there is.
EditDependency ==
    /\ EditDefinition
    /\ fresh' = {}
    /\ overtaken' = (overtaken \/ step = "eds")
    /\ UNCHANGED role

StartCommand ==
    /\ ~IsUpToDate
    /\ Start
    /\ run'.namespace = role
    /\ UNCHANGED <<role, fresh, overtaken>>

\* The files that a step of the run writes, whether or not they change.
Touched == (written' \ written) \union {f \in Files : files'[f] # files[f]}

RunCommand ==
    /\ RunStep \/ Crash \/ CrashInTool
    /\ fresh' = fresh \union Touched
    /\ overtaken' = (overtaken /\ ~Load)
    /\ UNCHANGED role

BuildNext == EditDependency \/ StartCommand \/ RunCommand

BuildSpec == BuildInit /\ [][BuildNext]_buildVars /\ WF_buildVars(RunStep /\ RunCommand)

-----------------------------------------------------------------------------
\* A build that has nothing to do is right to have nothing to do: the EDS, the
\* documentation and the symbols are those of the present YAML, and both Od
\* files are there in the namespace of the device's role, whatever failed, was
\* killed or was edited before, even while it ran.  One edit escapes it: one
\* that comes between the reading of the YAML and the writing of the EDS, and
\* is older than every output that is made without it.
UpToDateIsCurrent ==
    IsUpToDate /\ ~overtaken =>
        /\ \A f \in {"eds", "md", "objects"} : files[f] = Content(config.version, "text")
        /\ \A f \in OdFiles : IsFile(f)
        /\ role # NoNamespace => InNamespace(role)
=============================================================================
