------------------------------ MODULE Generate ------------------------------
(***************************************************************************)
(* canopengen generate: the five artifacts that repeated runs for one      *)
(* device write into one output directory, while its YAML is edited at any *)
(* time and a run may be killed, or fail to write, at any point.           *)
(*                                                                         *)
(* A file is known by the version of the YAML it was made from and by its  *)
(* layout: the C++ namespace its Eds2Od class is in, for the two Od files. *)
(* Eds2Od itself is external, and so is what it does with a file that is   *)
(* there already.                                                          *)
(***************************************************************************)
EXTENDS Integers, FiniteSets

CONSTANTS
    Namespaces,     \* C++ identifiers that --eds2od-namespace may give
    BadNamespaces,  \* what it may give that is no C++ identifier
    MaxVersion      \* bound on the edits of the YAML

StackNamespace == "CANoopEn"    \* where Eds2Od puts a new class
NoNamespace == "none"           \* the option is not given
OtherLayouts == {"absent", "truncated", "unexpected", "text"}

ASSUME NamespacesAssumption ==
    /\ Namespaces \intersect (BadNamespaces \union OtherLayouts \union {NoNamespace}) = {}
    /\ BadNamespaces \intersect (OtherLayouts \union {NoNamespace}) = {}
ASSUME MaxVersionAssumption == MaxVersion \in Nat \ {0}

VARIABLES
    stem,       \* is the stem of the YAML file a C++ identifier?
    config,     \* the YAML: its version and what generation will make of it
    files,      \* the output directory
    run,        \* the argument of the run, and the YAML that it has read
    written,    \* the files that the run, or its Eds2Od, has written
    step,       \* where the run is, or "idle"
    outcome     \* how the last run ended

vars == <<stem, config, files, run, written, step, outcome>>

OdFiles == {"hpp", "cpp"}
Files == {"eds", "md", "objects"} \union OdFiles

Versions == 1..MaxVersion
Verdicts == {"sound", "refused", "no_symbols"}
Layouts == Namespaces \union {StackNamespace, "unexpected"}

Content(version, layout) == [version |-> version, layout |-> layout]
Absent == Content(0, "absent")
Truncated == Content(0, "truncated")
IsFile(f) == files[f] # Absent
IsComplete(f) == files[f].version > 0

Init ==
    /\ stem \in BOOLEAN
    /\ \E verdict \in Verdicts : config = [version |-> 1, verdict |-> verdict]
    /\ files = [f \in Files |-> Absent]
    /\ run = [namespace |-> NoNamespace, version |-> 0, verdict |-> "sound"]
    /\ written = {}
    /\ step = "idle"
    /\ outcome = "none"

-----------------------------------------------------------------------------
EditDefinition ==
    /\ config.version < MaxVersion
    /\ \E verdict \in Verdicts :
          config' = [version |-> config.version + 1, verdict |-> verdict]
    /\ UNCHANGED <<stem, files, run, written, step, outcome>>

Start ==
    /\ step = "idle"
    /\ \E ns \in Namespaces \union BadNamespaces \union {NoNamespace} :
          run' = [namespace |-> ns, version |-> 0, verdict |-> "sound"]
    /\ written' = {}
    /\ step' = "load"
    /\ outcome' = "running"
    /\ UNCHANGED <<stem, config, files>>

Stop(end) ==
    /\ step' = "idle"
    /\ outcome' = end

Fail(error) ==
    /\ Stop(error)
    /\ UNCHANGED <<stem, config, files, run, written>>

RejectStem ==
    /\ step = "load"
    /\ ~stem
    /\ Fail("bad_stem")

\* Any error of parse_device and _resolve_definition.
RejectDefinition ==
    /\ step = "load"
    /\ stem
    /\ config.verdict = "refused"
    /\ Fail("refused")

\* Mutant of Load: off by one in the version.
LoadNext ==
    /\ step = "load"
    /\ stem
    /\ config.verdict # "refused"
    /\ run' = [run EXCEPT !.version = config.version + 1, !.verdict = config.verdict]
    /\ step' = "eds"
    /\ UNCHANGED <<stem, config, files, written, outcome>>

\* The definition is read and resolves; the output directory is made.
Load ==
    /\ step = "load"
    /\ stem
    /\ config.verdict # "refused"
    /\ run' = [run EXCEPT !.version = config.version, !.verdict = config.verdict]
    /\ step' = "eds"
    /\ UNCHANGED <<stem, config, files, written, outcome>>

\* write_text replaces file f, which is rendered from what the run has read.
Write(f) ==
    /\ files' = [files EXCEPT ![f] = Content(run.version, "text")]
    /\ written' = written \union {f}
    /\ UNCHANGED <<stem, config, run, outcome>>

\* Mutant of WriteEds: an EDS that is there already is kept.
WriteEdsOnce ==
    /\ step = "eds"
    /\ IF IsFile("eds") THEN UNCHANGED <<stem, config, files, run, written, outcome>>
                       ELSE Write("eds")
    /\ step' = "md"

WriteEds ==
    /\ step = "eds"
    /\ Write("eds")
    /\ step' = "md"

WriteMarkdown ==
    /\ step = "md"
    /\ Write("md")
    /\ step' = "objects"

\* Mutant of RejectSymbols: the file is opened before the symbols are rendered.
RejectSymbolsLate ==
    /\ step = "objects"
    /\ run.verdict = "no_symbols"
    /\ files' = [files EXCEPT !["objects"] = Truncated]
    /\ written' = written \union {"objects"}
    /\ Stop("bad_symbols")
    /\ UNCHANGED <<stem, config, run>>

\* A name that is no C++ identifier, or an enum that cannot be told apart.
RejectSymbols ==
    /\ step = "objects"
    /\ run.verdict = "no_symbols"
    /\ Fail("bad_symbols")

WriteSymbols ==
    /\ step = "objects"
    /\ run.verdict # "no_symbols"
    /\ Write("objects")
    /\ step' = "tool"

RejectUnavailable ==
    /\ step = "tool"
    /\ Fail("unavailable")

\* External: the contents in which Eds2Od may leave the file f when it writes
\* it.  It may start afresh, or keep the layout of the file it finds.
ToolContents(f) ==
    {Content(files["eds"].version, l) :
        l \in {StackNamespace, "unexpected"} \union ({files[f].layout} \intersect Layouts)}

\* External: Eds2Od writes the files of S and leaves the others alone; it may
\* leave one in the state of extra.
RunTool(S, extra) ==
    /\ \E hpp \in ToolContents("hpp") \union extra, cpp \in ToolContents("cpp") \union extra :
          files' = [files EXCEPT
                        !["hpp"] = IF "hpp" \in S THEN hpp ELSE @,
                        !["cpp"] = IF "cpp" \in S THEN cpp ELSE @]
    /\ written' = written \union S
    /\ UNCHANGED <<stem, config, run>>

ToolFails ==
    /\ step = "tool"
    /\ \E S \in SUBSET OdFiles : RunTool(S, {Truncated})
    /\ Stop("tool_failed")

ToolSucceeds ==
    /\ step = "tool"
    /\ \E S \in SUBSET OdFiles : RunTool(S, {})
    /\ step' = "verify"
    /\ UNCHANGED outcome

\* Mutant of RejectMissing: Eds2Od is called again until the files are there.
RetryMissing ==
    /\ step = "verify"
    /\ \E f \in OdFiles : ~IsFile(f)
    /\ step' = "tool"
    /\ UNCHANGED <<stem, config, files, run, written, outcome>>

RejectMissing ==
    /\ step = "verify"
    /\ \E f \in OdFiles : ~IsFile(f)
    /\ Fail("missing_output")

\* The files are there: run_eds2od returns, or goes on to _apply_namespace.
Finish ==
    /\ step = "verify"
    /\ \A f \in OdFiles : IsFile(f)
    /\ run.namespace = NoNamespace
    /\ Fail("generated")

RejectNamespace ==
    /\ step = "verify"
    /\ \A f \in OdFiles : IsFile(f)
    /\ run.namespace \in BadNamespaces
    /\ Fail("bad_namespace")

InNamespace(ns) == \A f \in OdFiles : files[f].layout = ns

Wrapping ==
    /\ step = "verify"
    /\ \A f \in OdFiles : IsFile(f)
    /\ run.namespace \in Namespaces

\* Mutant of KeepNamespace: only the header is looked at.
KeepHeader ==
    /\ Wrapping
    /\ files["hpp"].layout = run.namespace
    /\ Fail("generated")

KeepNamespace ==
    /\ Wrapping
    /\ InNamespace(run.namespace)
    /\ Fail("generated")

RejectLayout ==
    /\ Wrapping
    /\ ~InNamespace(run.namespace)
    /\ ~InNamespace(StackNamespace)
    /\ Fail("unexpected_layout")

\* Both texts are ready before the header is written, and then the source.
Wrap(f) ==
    /\ files' = [files EXCEPT ![f].layout = run.namespace]
    /\ UNCHANGED <<stem, config, run>>

WrapsFreshFiles ==
    Wrapping /\ ~InNamespace(run.namespace) /\ InNamespace(StackNamespace)

WriteHeader ==
    /\ WrapsFreshFiles
    /\ Wrap("hpp")
    /\ step' = "source"
    /\ UNCHANGED <<written, outcome>>

WriteSource ==
    /\ step = "source"
    /\ Wrap("cpp")
    /\ Stop("generated")
    /\ UNCHANGED written

\* The file that is open for writing at a step.
OpenFile ==
    CASE step \in {"eds", "md", "objects"} -> {step}
      [] step = "source" -> {"cpp"}
      [] WrapsFreshFiles -> {"hpp"}
      [] OTHER -> {}

\* The run is killed, or a write raises OSError, which main does not catch.
Crash ==
    /\ step # "idle"
    /\ \/ /\ UNCHANGED files
          /\ UNCHANGED written
       \/ \E f \in OpenFile :
             /\ files' = [files EXCEPT ![f] = Truncated]
             /\ written' = written \union {f}
    /\ Stop("crashed")
    /\ UNCHANGED <<stem, config, run>>

\* The run is killed while Eds2Od is writing.
CrashInTool ==
    /\ step = "tool"
    /\ \E S \in SUBSET OdFiles : RunTool(S, {Truncated})
    /\ Stop("crashed")

RunStep ==
    \/ RejectStem
    \/ RejectDefinition
    \/ Load
    \/ WriteEds
    \/ WriteMarkdown
    \/ RejectSymbols
    \/ WriteSymbols
    \/ RejectUnavailable
    \/ ToolFails
    \/ ToolSucceeds
    \/ RejectMissing
    \/ Finish
    \/ RejectNamespace
    \/ KeepNamespace
    \/ RejectLayout
    \/ WriteHeader
    \/ WriteSource

Next ==
    \/ EditDefinition
    \/ Start
    \/ RunStep
    \/ Crash
    \/ CrashInTool

Spec == Init /\ [][Next]_vars /\ WF_vars(RunStep)

-----------------------------------------------------------------------------
Refusals == {"bad_stem", "refused"}
ToolErrors == {"unavailable", "tool_failed"}
LateErrors == {"missing_output", "bad_namespace", "unexpected_layout"}
Outcomes ==
    {"none", "running", "generated", "bad_symbols", "crashed"}
        \union Refusals \union ToolErrors \union LateErrors

TypeOK ==
    /\ stem \in BOOLEAN
    /\ config \in [version : Versions, verdict : Verdicts]
    /\ files \in [Files -> [version : 0..MaxVersion, layout : Layouts \union OtherLayouts]]
    /\ run \in [namespace : Namespaces \union BadNamespaces \union {NoNamespace},
               version : 0..MaxVersion, verdict : Verdicts]
    /\ written \subseteq Files
    /\ step \in {"idle", "load", "eds", "md", "objects", "tool", "verify", "source"}
    /\ outcome \in Outcomes

\* Exit status 0 means that the EDS, the documentation and the symbols are
\* those of the YAML as the run read it, that both Od files are there, and,
\* when a namespace was asked for, that both of them are in it: whatever
\* earlier runs, crashes and Eds2Od have left behind.
SuccessIsComplete ==
    outcome = "generated" =>
        /\ \A f \in {"eds", "md", "objects"} : files[f] = Content(run.version, "text")
        /\ \A f \in OdFiles : IsFile(f)
        /\ run.namespace # NoNamespace => InNamespace(run.namespace)

\* The order of the writes over all runs: no artifact was made from a later
\* YAML than one that is written before it, except beside a torn file.
OlderFilesComeLater ==
    \A f, g \in Files :
        /\ IsComplete(f) /\ IsComplete(g)
        /\ <<f, g>> \in {<<"eds", "md">>, <<"md", "objects">>, <<"eds", "objects">>}
                           \union ({"eds", "md", "objects"} \X OdFiles)
        => files[f].version >= files[g].version

\* What a failed run leaves behind.  A device that is refused costs nothing;
\* one whose symbols cannot be written has a new EDS beside old symbols; a
\* late error comes when every file has been written.
FailureLeaves ==
    /\ outcome \in Refusals => written = {}
    /\ outcome = "bad_symbols" => written = {"eds", "md"}
    /\ outcome = "unavailable" => written = {"eds", "md", "objects"}
    /\ outcome \in {"tool_failed"} \union LateErrors => {"eds", "md", "objects"} \subseteq written
    /\ outcome = "bad_namespace" => \A f \in OdFiles : IsFile(f)

\* Every run comes to an end, if Eds2Od does: the code gives it no time limit.
RunsEnd == step # "idle" ~> step = "idle"

\* docs/wiki/CANoopEn-Integration.md:26-27: generate verifies that both C++
\* files were written.
BothOdFilesWereWritten ==
    outcome = "generated" => OdFiles \subseteq written
=============================================================================
