----------------------------- MODULE BuildProofs -----------------------------
(***************************************************************************)
(* The invariants of generation and of the build, for any number of        *)
(* versions of the YAML and any namespaces.                                *)
(*                                                                         *)
(* What a successful run promises follows from what each step of it may    *)
(* rely on (StepInv): the files written before it are those of the YAML    *)
(* that the run has read, and no file is of a later one.                   *)
(***************************************************************************)
EXTENDS Build, TLAPS

Rendered == {"eds", "md", "objects"}
AfterLoad == {"eds", "md", "objects", "tool", "verify", "source"}

\* The rendered files that the run has written when it comes to a step.
WrittenBefore(s) ==
    {f \in Rendered :
        \/ f = "eds" /\ s = "md"
        \/ f # "objects" /\ s = "objects"
        \/ s \in {"tool", "verify", "source"}}

StepInv ==
    /\ outcome = "running" <=> step # "idle"
    /\ step # "idle" => WrittenBefore(step) \subseteq written
    /\ step \in {"load", "eds", "md", "objects", "tool"} => written = WrittenBefore(step)
    /\ \A f \in Files : files[f].version <= config.version
    /\ run.version <= config.version
    /\ step \in AfterLoad => \A f \in Files : files[f].version <= run.version
    /\ step # "idle" => \A f \in WrittenBefore(step) : files[f] = Content(run.version, "text")
    /\ step = "source" => run.namespace \in Namespaces /\ files["hpp"].layout = run.namespace
                            /\ IsFile("cpp")

GenerateInv ==
    TypeOK /\ StepInv /\ SuccessIsComplete /\ OlderFilesComeLater /\ FailureLeaves

\* If the YAML of the last run is not the present one, either its edit came
\* between the reading and the writing, or the EDS is older than the edit.
BuildInv ==
    /\ step # "idle" \/ outcome = "generated" => run.namespace = role
    /\ (step \in AfterLoad \/ outcome = "generated") /\ run.version # config.version =>
          overtaken \/ ("eds" \notin fresh /\ step # "eds")

-----------------------------------------------------------------------------
\* What the type invariant says of one file.
Contents == [version : 0..MaxVersion, layout : Layouts \union OtherLayouts]

LEMMA InitEstablishes == Init => GenerateInv
<1> SUFFICES ASSUME Init PROVE GenerateInv
    OBVIOUS
<1>1. MaxVersion \in Nat \ {0}
    BY MaxVersionAssumption
<1>2. TypeOK
    BY <1>1 DEF Init, TypeOK, Files, OdFiles, Versions, Verdicts, Absent, Content,
                Outcomes, OtherLayouts
<1>3. StepInv
    BY <1>1 DEF Init, StepInv, Files, OdFiles, Absent, Content, WrittenBefore, AfterLoad
<1>4. SuccessIsComplete /\ FailureLeaves
    BY DEF Init, SuccessIsComplete, FailureLeaves, Refusals, LateErrors
<1>5. OlderFilesComeLater
    BY DEF Init, OlderFilesComeLater, IsComplete, Absent, Content, Files, OdFiles
<1>6. QED
    BY <1>2, <1>3, <1>4, <1>5 DEF GenerateInv

LEMMA EditPreserves == GenerateInv /\ EditDefinition => GenerateInv'
<1> SUFFICES ASSUME GenerateInv, EditDefinition PROVE GenerateInv'
    OBVIOUS
<1> USE DEF GenerateInv, EditDefinition
<1>1. MaxVersion \in Nat \ {0}
    BY MaxVersionAssumption
<1>2. PICK verdict \in Verdicts : config' = [version |-> config.version + 1, verdict |-> verdict]
    OBVIOUS
<1>3. config.version \in Nat /\ config'.version = config.version + 1
    BY <1>1, <1>2 DEF TypeOK, Versions
<1>4. TypeOK'
    BY <1>1, <1>2, <1>3 DEF TypeOK, Versions
<1>5. \A f \in Files : files[f].version \in 0..MaxVersion
    BY DEF TypeOK
<1>6. StepInv'
    <2>1. \A f \in Files : files'[f].version <= config'.version
        BY <1>1, <1>3, <1>5 DEF StepInv
    <2>2. run'.version <= config'.version
        BY <1>1, <1>3 DEF StepInv, TypeOK
    <2>3. QED
        BY <2>1, <2>2 DEF StepInv, Content, IsFile, Absent
<1>7. (SuccessIsComplete /\ OlderFilesComeLater /\ FailureLeaves)'
    BY DEF SuccessIsComplete, OlderFilesComeLater, FailureLeaves, IsFile, IsComplete,
           InNamespace, Content, Absent
<1>8. QED
    BY <1>4, <1>6, <1>7

LEMMA StartPreserves == GenerateInv /\ Start => GenerateInv'
<1> SUFFICES ASSUME GenerateInv, Start PROVE GenerateInv'
    OBVIOUS
<1> USE DEF GenerateInv, Start
<1>1. MaxVersion \in Nat \ {0}
    BY MaxVersionAssumption
<1>2. PICK ns \in Namespaces \union BadNamespaces \union {NoNamespace} :
            run' = [namespace |-> ns, version |-> 0, verdict |-> "sound"]
    OBVIOUS
<1>3. TypeOK'
    BY <1>1, <1>2 DEF TypeOK, Verdicts, Outcomes
<1>4. StepInv'
    BY <1>1, <1>2 DEF StepInv, TypeOK, Versions, WrittenBefore, AfterLoad
<1>5. (SuccessIsComplete /\ FailureLeaves)'
    BY DEF SuccessIsComplete, FailureLeaves, Refusals, LateErrors
<1>6. OlderFilesComeLater'
    BY DEF OlderFilesComeLater, IsComplete
<1>7. QED
    BY <1>3, <1>4, <1>5, <1>6

\* The run ends in an error, or ends well, without writing anything more.
LEMMA FailPreserves ==
    ASSUME NEW error \in Outcomes \ {"running"}, GenerateInv, Fail(error),
           (SuccessIsComplete /\ FailureLeaves)'
    PROVE  GenerateInv'
<1> USE DEF GenerateInv, Fail, Stop
<1>1. TypeOK'
    BY DEF TypeOK
<1>2. StepInv'
    BY DEF StepInv, WrittenBefore, AfterLoad
<1>3. OlderFilesComeLater'
    BY DEF OlderFilesComeLater, IsComplete
<1>4. QED
    BY <1>1, <1>2, <1>3

LEMMA LoadPreserves == GenerateInv /\ Load => GenerateInv'
<1> SUFFICES ASSUME GenerateInv, Load PROVE GenerateInv'
    OBVIOUS
<1> USE DEF GenerateInv, Load
<1>1. MaxVersion \in Nat \ {0}
    BY MaxVersionAssumption
<1>2. run' = [run EXCEPT !.version = config.version, !.verdict = config.verdict]
    OBVIOUS
<1>3. /\ run'.version = config.version
      /\ run'.namespace = run.namespace
      /\ run'.verdict = config.verdict
    BY <1>2 DEF TypeOK
<1>4. TypeOK'
    <2>1. config.version \in 0..MaxVersion /\ config.verdict \in Verdicts
        BY <1>1 DEF TypeOK, Versions
    <2>2. run' \in [namespace : Namespaces \union BadNamespaces \union {NoNamespace},
                   version : 0..MaxVersion, verdict : Verdicts]
        BY <1>2, <2>1 DEF TypeOK
    <2>3. QED
        BY <2>2 DEF TypeOK
<1>5. StepInv'
    <2>1. config.version <= config.version
        BY <1>1 DEF TypeOK, Versions
    <2>2. QED
        BY <1>3, <2>1 DEF StepInv, WrittenBefore, AfterLoad
<1>6. (SuccessIsComplete /\ FailureLeaves)'
    BY DEF SuccessIsComplete, FailureLeaves, StepInv, Refusals, LateErrors
<1>7. OlderFilesComeLater'
    BY DEF OlderFilesComeLater, IsComplete
<1>8. QED
    BY <1>4, <1>5, <1>6, <1>7

NextStep(s) == IF s = "eds" THEN "md" ELSE IF s = "md" THEN "objects" ELSE "tool"

\* Each of the three files rendered by the generator is written when those
\* before it are of the same YAML already.
LEMMA WritePreserves ==
    ASSUME NEW f \in Rendered, GenerateInv, step = f, Write(f), step' = NextStep(f)
    PROVE  GenerateInv'
<1> USE DEF GenerateInv, Write
<1>1. MaxVersion \in Nat \ {0}
    BY MaxVersionAssumption
<1>2. f \in Files /\ f \notin OdFiles
    BY DEF Rendered, Files, OdFiles
<1>3. /\ files'[f] = Content(run.version, "text")
      /\ \A g \in Files : g # f => files'[g] = files[g]
    BY <1>2 DEF TypeOK
<1>4. /\ run.version \in 0..MaxVersion
      /\ \A g \in Files : files[g].version \in 0..MaxVersion
    BY DEF TypeOK
<1>5. f \in AfterLoad /\ step # "idle" /\ outcome = "running"
    BY DEF Rendered, AfterLoad, StepInv
<1>6. \A g \in Files : files[g].version <= run.version
    BY <1>5 DEF StepInv
<1>7. \A g \in Files : files'[g].version <= run.version
    BY <1>1, <1>3, <1>4, <1>6 DEF Content
<1>8. TypeOK'
    <2>1. Content(run.version, "text") \in Contents
        BY <1>4 DEF Content, Contents, OtherLayouts
    <2>2. files' \in [Files -> Contents]
        BY <1>2, <2>1 DEF TypeOK, Contents
    <2>3. QED
        BY <1>2, <1>5, <2>2 DEF TypeOK, Contents, NextStep
<1>9. written = WrittenBefore(f) /\ written' = written \union {f}
    BY DEF StepInv, Rendered
<1>10. written' = WrittenBefore(NextStep(f))
    BY <1>9 DEF Rendered, WrittenBefore, NextStep
<1>11. \A g \in WrittenBefore(NextStep(f)) : files'[g] = Content(run.version, "text")
    <2>1. \A g \in WrittenBefore(f) : g \in Files /\ files[g] = Content(run.version, "text")
        BY <1>5 DEF StepInv, WrittenBefore, Rendered, Files
    <2>2. QED
        BY <1>3, <1>9, <1>10, <2>1
<1>12. StepInv'
    <2>1. run.version <= config.version /\ config.version \in Nat
        BY <1>1 DEF StepInv, TypeOK, Versions
    <2>2. \A g \in Files : files'[g].version \in Int
        BY <1>3, <1>4 DEF Content
    <2>3. \A g \in Files : files'[g].version <= config.version
        BY <1>4, <1>7, <2>1, <2>2
    <2>4. step' \in {"md", "objects", "tool"}
        BY DEF NextStep
    <2>5. \A g \in WrittenBefore(step') : files'[g] = Content(run.version, "text")
        BY <1>11
    <2>6. outcome' = "running" /\ written' = WrittenBefore(step')
        BY <1>5, <1>10
    <2>7. QED
        BY <1>7, <2>1, <2>3, <2>4, <2>5, <2>6 DEF StepInv
<1>13. OlderFilesComeLater'
    <2> SUFFICES ASSUME NEW g \in Files, NEW h \in Files,
                        IsComplete(g)', IsComplete(h)',
                        <<g, h>> \in {<<"eds", "md">>, <<"md", "objects">>, <<"eds", "objects">>}
                                        \union ({"eds", "md", "objects"} \X OdFiles)
                 PROVE  files'[g].version >= files'[h].version
        BY DEF OlderFilesComeLater
    <2>1. CASE g = f
        BY <1>3, <1>4, <1>7, <2>1 DEF Content
    <2>2. CASE g # f /\ h # f
        BY <1>3, <2>2 DEF OlderFilesComeLater, IsComplete
    <2>3. CASE g # f /\ h = f
        <3>1. g \in WrittenBefore(f)
            BY <1>2, <2>3 DEF WrittenBefore, Rendered, OdFiles
        <3>2. files'[g] = Content(run.version, "text")
            BY <1>9, <1>10, <1>11, <3>1
        <3>3. QED
            BY <1>3, <1>4, <2>3, <3>2 DEF Content
    <2>4. QED
        BY <2>1, <2>2, <2>3
<1>14. (SuccessIsComplete /\ FailureLeaves)'
    BY <1>5 DEF SuccessIsComplete, FailureLeaves, Refusals, LateErrors
<1>15. QED
    BY <1>8, <1>12, <1>13, <1>14


\* Once the three files are written, the order is safe whatever is put into the
\* Od files, as long as it is no later than the EDS.
LEMMA OdFilesMayChange ==
    ASSUME GenerateInv, step \in {"tool", "verify", "source"},
           files' \in [Files -> Contents], UNCHANGED run,
           \A f \in Rendered : files'[f] = files[f],
           \A f \in OdFiles : files'[f].version <= run.version
    PROVE  /\ OlderFilesComeLater'
           /\ \A f \in Files : files'[f].version <= run.version
           /\ \A f \in Rendered : files'[f] = Content(run.version, "text")
<1>1. \A f \in Rendered : files[f] = Content(run.version, "text")
    BY DEF GenerateInv, StepInv, WrittenBefore
<1>2. \A f \in Rendered : files'[f] = Content(run.version, "text")
    BY <1>1
<1>3. run.version \in Nat /\ \A f \in Files : files'[f].version \in Nat
    BY MaxVersionAssumption DEF GenerateInv, TypeOK, Contents
<1>4. \A f \in Files : files'[f].version <= run.version
    BY <1>2, <1>3 DEF Files, Rendered, Content
<1>5. OlderFilesComeLater'
    <2> SUFFICES ASSUME NEW f \in Rendered, NEW g \in Files
                 PROVE  files'[f].version >= files'[g].version
        BY DEF OlderFilesComeLater, Rendered
    <2>1. QED
        BY <1>2, <1>3, <1>4 DEF Content
<1>6. QED
    BY <1>2, <1>4, <1>5

LEMMA ToolWrites ==
    ASSUME NEW S \in SUBSET OdFiles, NEW extra \in SUBSET {Truncated},
           GenerateInv, step = "tool", RunTool(S, extra)
    PROVE  /\ files' \in [Files -> Contents]
           /\ written' \subseteq Files
           /\ Rendered \subseteq written'
           /\ OlderFilesComeLater'
           /\ \A f \in Files : files'[f].version <= run.version
           /\ \A f \in Rendered : files'[f] = Content(run.version, "text")
<1>1. MaxVersion \in Nat \ {0}
    BY MaxVersionAssumption
<1>2. PICK hpp \in ToolContents("hpp") \union extra, cpp \in ToolContents("cpp") \union extra :
            files' = [files EXCEPT !["hpp"] = IF "hpp" \in S THEN hpp ELSE @,
                                   !["cpp"] = IF "cpp" \in S THEN cpp ELSE @]
    BY DEF RunTool
<1>3. files["eds"] = Content(run.version, "text") /\ run.version \in 0..MaxVersion
    BY DEF GenerateInv, StepInv, WrittenBefore, Rendered, TypeOK
<1>4. \A f \in OdFiles : \A c \in ToolContents(f) \union extra :
            c \in Contents /\ c.version <= run.version
    BY <1>1, <1>3 DEF ToolContents, Truncated, Content, Contents, Layouts, OtherLayouts
<1>5. files \in [Files -> Contents] /\ \A f \in Files : files[f].version <= run.version
    BY DEF GenerateInv, TypeOK, StepInv, AfterLoad, Contents
<1>6. "hpp" \in Files /\ "cpp" \in Files /\ OdFiles = {"hpp", "cpp"}
    BY DEF Files, OdFiles
<1>7. files' \in [Files -> Contents]
    BY <1>2, <1>4, <1>5, <1>6
<1>8. \A f \in Rendered : files'[f] = files[f]
    BY <1>2, <1>5 DEF Rendered, Files
<1>9. \A f \in OdFiles : files'[f].version <= run.version
    BY <1>2, <1>4, <1>5, <1>6
<1>10. UNCHANGED run
    BY DEF RunTool
<1>11. written' \subseteq Files /\ Rendered \subseteq written'
    BY DEF RunTool, GenerateInv, TypeOK, StepInv, WrittenBefore, Rendered, Files
<1>12. QED
    BY <1>7, <1>8, <1>9, <1>10, <1>11, OdFilesMayChange

LEMMA ToolPreserves == GenerateInv /\ (ToolFails \/ ToolSucceeds \/ CrashInTool) => GenerateInv'
<1> SUFFICES ASSUME GenerateInv, ToolFails \/ ToolSucceeds \/ CrashInTool PROVE GenerateInv'
    OBVIOUS
<1>1. PICK S \in SUBSET OdFiles, extra \in SUBSET {Truncated} : RunTool(S, extra)
    BY DEF ToolFails, ToolSucceeds, CrashInTool
<1>2. step = "tool"
    BY DEF ToolFails, ToolSucceeds, CrashInTool
<1>3. /\ files' \in [Files -> Contents]
      /\ written' \subseteq Files
      /\ Rendered \subseteq written'
      /\ OlderFilesComeLater'
      /\ \A f \in Files : files'[f].version <= run.version
      /\ \A f \in Rendered : files'[f] = Content(run.version, "text")
    BY <1>1, <1>2, ToolWrites
<1>4. UNCHANGED <<stem, config, run>>
    BY <1>1 DEF RunTool
<1>5. \/ step' = "idle" /\ outcome' \in {"tool_failed", "crashed"}
      \/ step' = "verify" /\ outcome' = "running"
    BY <1>2 DEF ToolFails, ToolSucceeds, CrashInTool, Stop, GenerateInv, StepInv
<1>6. TypeOK'
    BY <1>3, <1>4, <1>5 DEF GenerateInv, TypeOK, Contents, Outcomes, ToolErrors
<1>7. StepInv'
    <2>1. run.version \in Nat /\ config.version \in Nat /\ run.version <= config.version
        BY MaxVersionAssumption DEF GenerateInv, TypeOK, StepInv, Versions
    <2>2. \A f \in Files : files'[f].version <= config'.version
        BY <1>3, <1>4, <2>1 DEF Contents
    <2>3. WrittenBefore(step') \subseteq Rendered
        BY DEF WrittenBefore
    <2>4. QED
        BY <1>3, <1>4, <1>5, <2>1, <2>2, <2>3 DEF StepInv, AfterLoad
<1>8. (SuccessIsComplete /\ FailureLeaves)'
    BY <1>3, <1>5 DEF SuccessIsComplete, FailureLeaves, Refusals, LateErrors, Rendered
<1>9. QED
    BY <1>3, <1>6, <1>7, <1>8 DEF GenerateInv

LEMMA WrapPreserves == GenerateInv /\ (WriteHeader \/ WriteSource) => GenerateInv'
<1> SUFFICES ASSUME GenerateInv, WriteHeader \/ WriteSource PROVE GenerateInv'
    OBVIOUS
<1>1. PICK f \in OdFiles : Wrap(f) /\ (f = "hpp" <=> WriteHeader) /\ (f = "cpp" <=> WriteSource)
    BY DEF WriteHeader, WriteSource, WrapsFreshFiles, Wrapping, OdFiles
<1>2. UNCHANGED <<stem, config, run, written>>
    BY DEF WriteHeader, WriteSource, Wrap
<1>3. step \in {"verify", "source"} /\ run.namespace \in Namespaces /\ outcome = "running"
    BY DEF WriteHeader, WriteSource, WrapsFreshFiles, Wrapping, GenerateInv, StepInv
<1>4. f \in Files /\ f \notin Rendered /\ files \in [Files -> Contents]
    BY DEF OdFiles, Files, Rendered, GenerateInv, TypeOK, Contents
<1>5. files' = [files EXCEPT ![f].layout = run.namespace]
    BY <1>1 DEF Wrap
<1>6. /\ files'[f].version = files[f].version
      /\ files'[f].layout = run.namespace
      /\ \A g \in Files : g # f => files'[g] = files[g]
    BY <1>4, <1>5 DEF Contents
<1>7. files' \in [Files -> Contents]
    BY <1>3, <1>4, <1>5 DEF Contents, Layouts
<1>8. /\ OlderFilesComeLater'
      /\ \A g \in Files : files'[g].version <= run.version
      /\ \A g \in Rendered : files'[g] = Content(run.version, "text")
    <2>1. \A g \in Rendered : files'[g] = files[g]
        BY <1>4, <1>6 DEF Rendered, Files
    <2>2. \A g \in OdFiles : files'[g].version <= run.version
        BY <1>3, <1>6 DEF OdFiles, Files, GenerateInv, StepInv, AfterLoad
    <2>3. QED
        BY <1>2, <1>3, <1>7, <2>1, <2>2, OdFilesMayChange
<1>9. \A g \in OdFiles : IsFile(g)'
    <2>1. \A g \in OdFiles : IsFile(g) \/ g = f
        <3>1. CASE WriteHeader
            BY <3>1 DEF WriteHeader, WrapsFreshFiles, Wrapping
        <3>2. CASE WriteSource
            <4>1. files["hpp"].layout \in Namespaces
                BY <1>3, <3>2 DEF WriteSource, GenerateInv, StepInv
            <4>2. IsFile("hpp")
                BY <4>1, NamespacesAssumption DEF IsFile, Absent, Content, OtherLayouts
            <4>3. QED
                BY <1>1, <3>2, <4>2 DEF OdFiles
        <3>3. QED
            BY <3>1, <3>2
    <2>2. \A g \in OdFiles : g # f => IsFile(g)'
        BY <1>6, <2>1 DEF IsFile, Files, Absent, Content
    <2>3. IsFile(f)'
        BY <1>3, <1>6, NamespacesAssumption DEF IsFile, Absent, Content, OtherLayouts
    <2>4. QED
        BY <2>2, <2>3
<1>10. Rendered \subseteq written'
    BY <1>2, <1>3 DEF GenerateInv, StepInv, WrittenBefore
<1>11. \/ f = "hpp" /\ step' = "source" /\ outcome' = "running"
       \/ f = "cpp" /\ step' = "idle" /\ outcome' = "generated" /\ step = "source"
    BY <1>1, <1>3 DEF WriteHeader, WriteSource, Stop, OdFiles
<1>12. TypeOK'
    BY <1>2, <1>7, <1>11 DEF GenerateInv, TypeOK, Contents, Outcomes
<1>13. StepInv'
    <2>1. run.version \in Nat /\ config.version \in Nat /\ run.version <= config.version
        BY MaxVersionAssumption DEF GenerateInv, TypeOK, StepInv, Versions
    <2>2. \A g \in Files : files'[g].version <= config'.version
        BY <1>2, <1>7, <1>8, <2>1 DEF Contents
    <2>3. WrittenBefore(step') \subseteq Rendered
        BY DEF WrittenBefore
    <2>4. step' = "source" => files'["hpp"].layout = run.namespace /\ IsFile("cpp")'
        BY <1>6, <1>9, <1>11 DEF OdFiles
    <2>5. QED
        BY <1>2, <1>3, <1>8, <1>10, <1>11, <2>1, <2>2, <2>3, <2>4 DEF StepInv, AfterLoad
<1>14. SuccessIsComplete'
    <2> SUFFICES ASSUME f = "cpp" PROVE SuccessIsComplete'
        BY <1>11 DEF SuccessIsComplete
    <2>1. files'["hpp"].layout = run.namespace
        BY <1>6, <1>11 DEF GenerateInv, StepInv, Files, OdFiles
    <2>2. InNamespace(run.namespace)'
        BY <1>2, <1>6, <2>1 DEF InNamespace, OdFiles
    <2>3. QED
        BY <1>2, <1>8, <1>9, <2>2 DEF SuccessIsComplete, Rendered, Content
<1>15. FailureLeaves'
    BY <1>11 DEF FailureLeaves, Refusals, LateErrors
<1>16. QED
    BY <1>8, <1>12, <1>13, <1>14, <1>15 DEF GenerateInv

LEMMA CrashPreserves == GenerateInv /\ Crash => GenerateInv'
<1> SUFFICES ASSUME GenerateInv, Crash PROVE GenerateInv'
    OBVIOUS
<1>1. MaxVersion \in Nat \ {0}
    BY MaxVersionAssumption
<1>2. files \in [Files -> Contents] /\ OpenFile \subseteq Files
    BY DEF GenerateInv, TypeOK, Contents, OpenFile, Files, OdFiles
<1>3. \/ files' = files /\ written' = written
      \/ \E f \in Files : files' = [files EXCEPT ![f] = Truncated] /\ written' = written \union {f}
    BY <1>2 DEF Crash
<1>4. Truncated \in Contents /\ Truncated.version = 0
    BY <1>1 DEF Truncated, Content, Contents, OtherLayouts
<1>5. /\ files' \in [Files -> Contents]
      /\ written' \subseteq Files
      /\ \A f \in Files : files'[f] = files[f] \/ files'[f].version = 0
    BY <1>2, <1>3, <1>4 DEF GenerateInv, TypeOK
<1>6. step' = "idle" /\ outcome' = "crashed" /\ UNCHANGED <<stem, config, run>>
    BY DEF Crash, Stop
<1>7. TypeOK'
    BY <1>5, <1>6 DEF GenerateInv, TypeOK, Contents, Outcomes
<1>8. StepInv'
    <2>1. config.version \in Nat
        BY <1>1 DEF GenerateInv, TypeOK, Versions
    <2>2. \A f \in Files : files'[f].version <= config.version
        BY <1>5, <2>1 DEF GenerateInv, StepInv
    <2>3. QED
        BY <1>6, <2>2 DEF GenerateInv, StepInv, AfterLoad
<1>9. OlderFilesComeLater'
    BY <1>5 DEF GenerateInv, OlderFilesComeLater, IsComplete
<1>10. (SuccessIsComplete /\ FailureLeaves)'
    BY <1>6 DEF SuccessIsComplete, FailureLeaves, Refusals, LateErrors
<1>11. QED
    BY <1>7, <1>8, <1>9, <1>10 DEF GenerateInv

\* The actions that end the run without writing.
Refuses ==
    \/ RejectStem
    \/ RejectDefinition
    \/ RejectSymbols
    \/ RejectUnavailable
    \/ RejectMissing
    \/ RejectNamespace
    \/ RejectLayout
Succeeds == Finish \/ KeepNamespace

LEMMA RefusalPreserves == GenerateInv /\ Refuses => GenerateInv'
<1> SUFFICES ASSUME GenerateInv, Refuses PROVE GenerateInv'
    OBVIOUS
<1> USE DEF Outcomes, Refusals, ToolErrors, LateErrors
<1>1. /\ step \in {"load", "objects", "tool"} => written = WrittenBefore(step)
      /\ step = "verify" => Rendered \subseteq written
    BY DEF GenerateInv, StepInv, WrittenBefore
<1>2. PICK error \in Outcomes \ {"running", "generated", "crashed", "none", "tool_failed"} :
            /\ Fail(error)
            /\ error \in Refusals => written = {}
            /\ error = "bad_symbols" => written = {"eds", "md"}
            /\ error = "unavailable" => written = Rendered
            /\ error \in LateErrors => Rendered \subseteq written
            /\ error = "bad_namespace" => \A f \in OdFiles : IsFile(f)
    <2>1. CASE RejectStem
        BY <1>1, <2>1 DEF RejectStem, WrittenBefore
    <2>2. CASE RejectDefinition
        BY <1>1, <2>2 DEF RejectDefinition, WrittenBefore
    <2>3. CASE RejectSymbols
        <3>1. written = {"eds", "md"}
            BY <1>1, <2>3 DEF RejectSymbols, WrittenBefore, Rendered
        <3>2. QED
            BY <2>3, <3>1 DEF RejectSymbols
    <2>4. CASE RejectUnavailable
        <3>1. written = Rendered
            BY <1>1, <2>4 DEF RejectUnavailable, WrittenBefore, Rendered
        <3>2. QED
            BY <2>4, <3>1 DEF RejectUnavailable
    <2>5. CASE RejectMissing
        BY <1>1, <2>5 DEF RejectMissing, WrittenBefore
    <2>6. CASE RejectNamespace
        BY <1>1, <2>6 DEF RejectNamespace, WrittenBefore
    <2>7. CASE RejectLayout
        BY <1>1, <2>7 DEF RejectLayout, Wrapping, WrittenBefore
    <2>8. QED
        BY <2>1, <2>2, <2>3, <2>4, <2>5, <2>6, <2>7 DEF Refuses
<1>3. outcome' = error /\ written' = written /\ files' = files
    BY <1>2 DEF Fail, Stop
<1>4. (SuccessIsComplete /\ FailureLeaves)'
    BY <1>2, <1>3 DEF SuccessIsComplete, FailureLeaves, IsFile, Absent, Content, Rendered
<1>5. QED
    BY <1>2, <1>4, FailPreserves

LEMMA SuccessPreserves == GenerateInv /\ Succeeds => GenerateInv'
<1> SUFFICES ASSUME GenerateInv, Succeeds PROVE GenerateInv'
    OBVIOUS
<1>1. /\ step = "verify"
      /\ \A f \in OdFiles : IsFile(f)
      /\ run.namespace # NoNamespace => InNamespace(run.namespace)
      /\ Fail("generated")
    BY DEF Succeeds, Finish, KeepNamespace, Wrapping
<1>2. \A f \in Rendered : files[f] = Content(run.version, "text")
    BY <1>1 DEF GenerateInv, StepInv, WrittenBefore
<1>3. SuccessIsComplete'
    BY <1>1, <1>2 DEF SuccessIsComplete, Fail, IsFile, InNamespace, Absent, Content, Rendered
<1>4. FailureLeaves'
    BY <1>1 DEF FailureLeaves, Fail, Stop, Refusals, LateErrors
<1>5. QED
    BY <1>1, <1>3, <1>4, FailPreserves DEF Outcomes

LEMMA NextPreserves == GenerateInv /\ [Next]_vars => GenerateInv'
<1> SUFFICES ASSUME GenerateInv, [Next]_vars PROVE GenerateInv'
    OBVIOUS
<1>1. CASE EditDefinition
    BY <1>1, EditPreserves
<1>2. CASE Start
    BY <1>2, StartPreserves
<1>3. CASE Load
    BY <1>3, LoadPreserves
<1>4. CASE WriteEds
    BY <1>4, WritePreserves DEF WriteEds, Rendered, NextStep
<1>5. CASE WriteMarkdown
    BY <1>5, WritePreserves DEF WriteMarkdown, Rendered, NextStep
<1>6. CASE WriteSymbols
    BY <1>6, WritePreserves DEF WriteSymbols, Rendered, NextStep
<1>7. CASE Refuses
    BY <1>7, RefusalPreserves
<1>8. CASE Succeeds
    BY <1>8, SuccessPreserves
<1>9. CASE ToolFails \/ ToolSucceeds \/ CrashInTool
    BY <1>9, ToolPreserves
<1>10. CASE WriteHeader \/ WriteSource
    BY <1>10, WrapPreserves
<1>11. CASE Crash
    BY <1>11, CrashPreserves
<1>12. CASE UNCHANGED vars
    BY <1>12 DEF vars, GenerateInv, TypeOK, StepInv, SuccessIsComplete, OlderFilesComeLater,
                 FailureLeaves, IsFile, IsComplete, InNamespace, Absent, Content
<1>13. QED
    BY <1>1, <1>2, <1>3, <1>4, <1>5, <1>6, <1>7, <1>8, <1>9, <1>10, <1>11, <1>12
    DEF Next, RunStep, Refuses, Succeeds

\* generate alone: what a run leaves behind, whatever came before it.
THEOREM GenerationIsSafe ==
    Spec => [](TypeOK /\ SuccessIsComplete /\ OlderFilesComeLater /\ FailureLeaves)
<1>1. GenerateInv => TypeOK /\ SuccessIsComplete /\ OlderFilesComeLater /\ FailureLeaves
    BY DEF GenerateInv
<1>2. QED
    BY <1>1, InitEstablishes, NextPreserves, PTL DEF Spec

-----------------------------------------------------------------------------
LEMMA BuildInitEstablishes == BuildInit => GenerateInv /\ BuildInv
<1> SUFFICES ASSUME BuildInit PROVE GenerateInv /\ BuildInv
    OBVIOUS
<1>1. GenerateInv
    BY InitEstablishes DEF BuildInit
<1>2. BuildInv
    BY DEF BuildInit, Init, BuildInv, AfterLoad
<1>3. QED
    BY <1>1, <1>2

LEMMA BuildNextIsNext == [BuildNext]_buildVars => [Next]_vars
BY DEF BuildNext, EditDependency, StartCommand, RunCommand, Next, buildVars, vars

LEMMA EditKeepsBuildInv == GenerateInv /\ BuildInv /\ EditDependency => BuildInv'
BY DEF BuildInv, EditDependency, EditDefinition, AfterLoad

LEMMA StartKeepsBuildInv == GenerateInv /\ BuildInv /\ StartCommand => BuildInv'
<1> SUFFICES ASSUME StartCommand PROVE BuildInv'
    OBVIOUS
<1>1. step' = "load" /\ outcome' = "running" /\ run'.namespace = role /\ role' = role
    BY DEF StartCommand, Start
<1>2. QED
    BY <1>1 DEF BuildInv, AfterLoad

\* A step of the run changes no YAML, reads it in Load only, and writes the EDS
\* in WriteEds only.
LEMMA RunCommandShape ==
    ASSUME GenerateInv, RunCommand
    PROVE  /\ UNCHANGED config
           /\ step # "idle"
           /\ Load => step = "load"
           /\ ~Load => UNCHANGED run
           /\ ~Load /\ step = "load" => step' = "idle" /\ outcome' # "generated"
           /\ ~Load => step' # "eds"
           /\ step \notin {"load", "eds"} => "eds" \notin Touched
<1> USE DEF RunCommand, RunStep, Load, RejectStem, RejectDefinition, WriteEds, WriteMarkdown,
            RejectSymbols, WriteSymbols, RejectUnavailable, ToolFails, ToolSucceeds,
            RejectMissing, Finish, RejectNamespace, KeepNamespace, RejectLayout, WriteHeader,
            WriteSource, Crash, CrashInTool, Fail, Stop, Write, RunTool, Wrap, Wrapping,
            WrapsFreshFiles
<1>1. UNCHANGED config
    OBVIOUS
<1>2. step # "idle"
    OBVIOUS
<1>3. ~Load => UNCHANGED run
    OBVIOUS
<1>4. ~Load /\ step = "load" => step' = "idle" /\ outcome' # "generated"
    OBVIOUS
<1>5. ~Load => step' # "eds"
    OBVIOUS
<1>6. step \notin {"load", "eds"} => "eds" \notin Touched
    <2>1. step \notin {"load", "eds"} =>
              files'["eds"] = files["eds"] /\ ("eds" \in written' => "eds" \in written)
        BY <1>2 DEF OpenFile, OdFiles, GenerateInv, TypeOK, Files
    <2>2. QED
        BY <2>1 DEF Touched
<1>7. QED
    BY <1>1, <1>2, <1>3, <1>4, <1>5, <1>6

LEMMA RunKeepsBuildInv == GenerateInv /\ BuildInv /\ RunCommand => BuildInv'
<1> SUFFICES ASSUME GenerateInv, BuildInv, RunCommand PROVE BuildInv'
    OBVIOUS
<1>1. UNCHANGED role /\ overtaken' = (overtaken /\ ~Load) /\ fresh' = fresh \union Touched
    BY DEF RunCommand
<1>2. UNCHANGED config /\ step # "idle" /\ run.namespace = role
    BY RunCommandShape DEF BuildInv
<1>3. CASE Load
    <2>1. /\ run'.version = config.version
          /\ run'.namespace = run.namespace
          /\ step' = "eds"
          /\ outcome' = "running"
        BY <1>2, <1>3 DEF Load, GenerateInv, TypeOK, StepInv
    <2>2. QED
        BY <1>1, <1>2, <2>1 DEF BuildInv
<1>4. CASE ~Load
    <2>1. UNCHANGED run /\ step' # "eds"
        BY <1>4, RunCommandShape
    <2>2. CASE step = "load"
        <3>1. step' = "idle" /\ outcome' # "generated"
            BY <1>4, <2>2, RunCommandShape
        <3>2. QED
            BY <3>1 DEF BuildInv, AfterLoad
    <2>3. CASE step = "eds"
        BY <1>1, <1>2, <1>4, <2>1, <2>3 DEF BuildInv, AfterLoad
    <2>4. CASE step \notin {"load", "eds"}
        <3>1. "eds" \notin Touched
            BY <2>4, RunCommandShape
        <3>2. step \in AfterLoad
            BY <1>2, <2>4 DEF GenerateInv, TypeOK, AfterLoad
        <3>3. QED
            BY <1>1, <1>2, <1>4, <2>1, <2>4, <3>1, <3>2 DEF BuildInv
    <2>5. QED
        BY <2>2, <2>3, <2>4
<1>5. QED
    BY <1>3, <1>4

LEMMA BuildInvariant == BuildSpec => [](GenerateInv /\ BuildInv)
<1>1. BuildInv /\ UNCHANGED buildVars => BuildInv'
    BY DEF BuildInv, buildVars, vars, AfterLoad
<1>2. GenerateInv /\ BuildInv /\ [BuildNext]_buildVars => GenerateInv' /\ BuildInv'
    BY <1>1, BuildNextIsNext, NextPreserves, EditKeepsBuildInv, StartKeepsBuildInv,
       RunKeepsBuildInv DEF BuildNext
<1>3. QED
    BY <1>2, BuildInitEstablishes, PTL DEF BuildSpec

\* The state of the output directory and of the run has its type, in every build.
THEOREM BuildTypeCorrect == BuildSpec => []TypeOK
<1>1. GenerateInv => TypeOK
    BY DEF GenerateInv
<1>2. QED
    BY <1>1, BuildInvariant, PTL

\* A run that a build starts and that ends with status 0 leaves a complete set
\* of files behind.
THEOREM BuildRunsAreComplete == BuildSpec => []SuccessIsComplete
<1>1. GenerateInv => SuccessIsComplete
    BY DEF GenerateInv
<1>2. QED
    BY <1>1, BuildInvariant, PTL

\* No build leaves an artifact of a later YAML than one written before it.
THEOREM BuildKeepsTheOrder == BuildSpec => []OlderFilesComeLater
<1>1. GenerateInv => OlderFilesComeLater
    BY DEF GenerateInv
<1>2. QED
    BY <1>1, BuildInvariant, PTL

\* What each kind of failure leaves behind, in every build.
THEOREM BuildFailuresLeave == BuildSpec => []FailureLeaves
<1>1. GenerateInv => FailureLeaves
    BY DEF GenerateInv
<1>2. QED
    BY <1>1, BuildInvariant, PTL

\* A build with nothing to do is current: its EDS is newer than every edit, so
\* that the YAML of the last run is the present one (BuildInv), and that run was
\* complete (SuccessIsComplete).
THEOREM UpToDateBuildsAreCurrent == BuildSpec => []UpToDateIsCurrent
<1>1. GenerateInv /\ BuildInv => UpToDateIsCurrent
    <2> SUFFICES ASSUME GenerateInv, BuildInv, IsUpToDate, ~overtaken
                 PROVE  /\ \A f \in {"eds", "md", "objects"} :
                              files[f] = Content(config.version, "text")
                        /\ \A f \in OdFiles : IsFile(f)
                        /\ role # NoNamespace => InNamespace(role)
        BY DEF UpToDateIsCurrent
    <2>1. step = "idle" /\ outcome = "generated" /\ "eds" \in fresh
        BY DEF IsUpToDate, Outputs
    <2>2. run.version = config.version /\ run.namespace = role
        BY <2>1 DEF BuildInv
    <2>3. QED
        BY <2>1, <2>2 DEF GenerateInv, SuccessIsComplete
<1>2. QED
    BY <1>1, BuildInvariant, PTL
=============================================================================
