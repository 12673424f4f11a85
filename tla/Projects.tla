------------------------------- MODULE Projects --------------------------------
(***************************************************************************)
(* From the command line to a program: the options (Options.cpp,           *)
(* Main.cpp), the lines of a project file, the building of the sources     *)
(* that they name and the linking of what that made (Project.cpp,          *)
(* CodeGen_Writer.cpp, CodeGen_Mods.cpp, Binutils.cpp).                    *)
(*                                                                         *)
(* A line is its words.  A file is a name and an extension; where it is    *)
(* does not matter here.  A plug-in stands for the commands that it has,   *)
(* which are used together.                                                *)
(***************************************************************************)
EXTENDS SequencesExt, TLC

CONSTANTS
  TargetConditions,  \* "Debug", if there are symbols for debugging
  ProjectFiles,      \* the names of project files, with that of the one that is read below
  SourceModules,     \* the plug-ins that a source uses, in the order of their first use
  StopsAt            \* where the building of a source fails, or "none"

VARIABLES
  meant,         \* what the command line is to say
  projectText,   \* the lines of the project files
  phase,         \* of main
  options,       \* what the options left
  projects,      \* MProjects::m_Projects
  building,      \* the project and the unit that are next
  declared,      \* plug-ins whose commands have a function of LLVM
  made,          \* what the units that were built left
  links,         \* what the linker was given
  failed         \* whether main has failed

projectVars == <<meant, projectText, phase, options, projects, building, declared, made, links, failed>>

-----------------------------------------------------------------------------
(* The command line.  An argument has so many dashes, "no-" or not, a name, *)
(* and a value: behind "=", or behind the letter of a short option.         *)
Arg(dashes, no, name, value) == [dashes |-> dashes, no |-> no, name |-> name, value |-> value]
Plain(name) == Arg(0, FALSE, name, "")
RestAreInputs == Arg(2, FALSE, "", "")

LongNames == {"help", "compile", "output-file"}
ShortNames == "h" :> "help" @@ "c" :> "compile" @@ "o" :> "output-file"
ArgumentType == "help" :> "String" @@ "compile" :> "None" @@ "output-file" :> "OutputFile"
IsArgumentRequired(option) == option # "help"

\* "-" and the letter of an option that takes an argument; else the whole name counts,
\* however many dashes there are.
Letter == ShortNames @@ [n \in LongNames |-> n]
FindOption(arg) ==
  LET option == IF arg.name \in DOMAIN Letter THEN Letter[arg.name] ELSE ""
      short == arg.dashes = 1 /\ ~arg.no /\ option # "" /\ ArgumentType[option] # "None"
  IN IF short THEN [option |-> option, value |-> IF arg.name \in LongNames THEN "rest of name" ELSE arg.value]
     ELSE [option |-> IF arg.name \in LongNames THEN arg.name ELSE "", value |-> arg.value]

NoOptions ==
  [inputs |-> <<>>, output |-> "", compileOnly |-> FALSE, shown |-> FALSE, processed |-> FALSE,
   successes |-> 0, failures |-> 0]
Fails(o) == [o EXCEPT !.failures = @ + 1]
Succeeds(o) == [o EXCEPT !.successes = @ + 1]

\* The OnCall of each option.
OnCall(o, option, value) ==
  CASE option = "help" ->
         IF value \in LongNames \cup {""} THEN Succeeds([o EXCEPT !.shown = TRUE]) ELSE Fails(o)
    [] option = "compile" -> Succeeds([o EXCEPT !.compileOnly = TRUE])
    [] option = "output-file" -> Succeeds([o EXCEPT !.output = value])

\* MOptions::Process, of the arguments from the i-th on.
RECURSIVE ProcessFrom(_, _, _, _)
ProcessFrom(args, i, onlyInputs, o) ==
  IF i > Len(args) THEN o
  ELSE LET arg == args[i]
           found == FindOption(arg)
           wants == found.option # "" /\ ArgumentType[found.option] # "None" /\ found.value = ""
                      /\ IsArgumentRequired(found.option)
       IN CASE arg.dashes = 0 \/ onlyInputs ->
                 ProcessFrom(args, i + 1, onlyInputs, Succeeds([o EXCEPT !.inputs = Append(@, arg.name)]))
            [] arg = RestAreInputs /\ ~onlyInputs -> ProcessFrom(args, i + 1, TRUE, o)
            [] OTHER ->
                 IF found.option = "" \/ (wants /\ i = Len(args)) THEN ProcessFrom(args, i + 1, onlyInputs, Fails(o))
                 ELSE IF wants THEN ProcessFrom(args, i + 2, onlyInputs, OnCall(o, found.option, args[i + 1].name))
                 ELSE ProcessFrom(args, i + 1, onlyInputs, OnCall(o, found.option, found.value))
\* Without arguments, help is asked for on an option without a name, and there is none.
Processed(args) == ProcessFrom(args, 1, FALSE, NoOptions)

\* What is meant, in the ways to write it.
Meaning(is, value, form) == [is |-> is, value |-> value, form |-> form]
Written(m) ==
  CASE m.is = "input" -> <<Plain(m.value)>>
    [] m.is = "rest" -> <<RestAreInputs>>
    [] m.is = "help" -> <<Arg(1, FALSE, "h", "")>>
    [] m.is = "output" ->
        (CASE m.form = "-o f" -> <<Arg(1, FALSE, "o", ""), Plain(m.value)>>
           [] m.form = "-of" -> <<Arg(1, FALSE, "o", m.value)>>
           [] m.form = "--output-file=f" -> <<Arg(2, FALSE, "output-file", m.value)>>
           [] m.form = "--output-file f" -> <<Arg(2, FALSE, "output-file", ""), Plain(m.value)>>)
    [] m.is = "compile" ->
        (CASE m.form = "-c" -> <<Arg(1, FALSE, "c", "")>>
           [] m.form = "-compile" -> <<Arg(1, FALSE, "compile", "")>>
           [] m.form = "--compile" -> <<Arg(2, FALSE, "compile", "")>>)
CommandLine == FlattenSeq([i \in DOMAIN meant |-> Written(meant[i])])

-----------------------------------------------------------------------------
(* The lines of a project file.                                             *)
File(name, extension) == <<name, extension>>
ReplaceExtension(file, extension) == <<file[1], extension>>

\* CProject.  The build information of one that is not loaded from a file is all zero.
NewProject ==
  [name |-> "a", target |-> <<>>, prefix |-> TRUE, suffix |-> TRUE, asm |-> FALSE, ir |-> FALSE,
   type |-> "Executable", env |-> "Terminal", subsystem |-> "Text", info |-> "zero",
   units |-> <<>>, modules |-> <<>>, refused |-> FALSE]

Toggles == {"+TargetPrefix", "-TargetPrefix", "+TargetSuffix", "-TargetSuffix", "+ASMList", "-ASMList",
            "+IRList", "-IRList"}
Unimplemented == {"EmitLLVMText", "EmitModules", "Dependency", "OptionalDependency", "+Module", "-Module",
                  "-Modules"}
               \cup {"Shell." \o w : w \in {"PreDependencies", "PostDependencies", "PreCompile",
                                            "PostCompile", "PreBuild", "PostBuild",
                                            "FailedDependencies", "FailedCompile", "FailedCommand"}}
\* HasParm: how many words come behind a command.
HasParm(command, args) ==
  CASE command \in {"Name", "Type", "Target"} -> Len(args) = 1
    [] command \in Toggles -> args = <<>>
    [] command = "Compile" -> Len(args) \in 1 .. 2
    [] OTHER -> FALSE

Conditions == {"?0", "?1", "?Debug", "?Release", "?Linux"}
\* A faulty Condition, for which every condition holds.
ConditionAlways(c) == TRUE

Condition(c) ==
  \/ c = "?1"
  \/ c = "?Debug" /\ "Debug" \in TargetConditions
  \/ c = "?Release" /\ "Debug" \notin TargetConditions

TypeCmd(p, type) ==
  CASE type \in {"Executable", "Pipeline"} ->
         [p EXCEPT !.type = "Executable", !.env = "Terminal", !.subsystem = "Text"]
    [] type \in {"Application", "Editor"} ->
         [p EXCEPT !.type = "Executable", !.env = "Windowed", !.subsystem = "Window"]
    [] type = "Game" -> [p EXCEPT !.type = "Executable", !.env = "Platform", !.subsystem = "Window"]
    [] type \in {"StaticLibrary", "DynamicLibrary"} -> [p EXCEPT !.type = type]
    [] OTHER -> [p EXCEPT !.refused = TRUE]

\* For Linux, where an executable has no suffix.
TargetPath(type, prefix, suffix, name) ==
  <<IF prefix /\ type # "Executable" THEN "lib" ELSE "", name,
    CASE ~suffix \/ type = "Executable" -> ""
      [] OTHER -> IF type = "StaticLibrary" THEN ".a" ELSE ".so">>
TargetCmd(p, name) == [p EXCEPT !.target = TargetPath(p.type, p.prefix, p.suffix, name)]

ToggleCmd(p, command) ==
  CASE command \in {"+TargetPrefix", "-TargetPrefix"} -> [p EXCEPT !.prefix = command = "+TargetPrefix"]
    [] command \in {"+TargetSuffix", "-TargetSuffix"} -> [p EXCEPT !.suffix = command = "+TargetSuffix"]
    [] command \in {"+ASMList", "-ASMList"} -> [p EXCEPT !.asm = command = "+ASMList"]
    [] command \in {"+IRList", "-IRList"} -> [p EXCEPT !.ir = command = "+IRList"]

\* The names of listings are empty if there are none.
CompileCmd(p, args) ==
  LET object == IF Len(args) = 2 THEN File(args[2], "") ELSE ReplaceExtension(File(args[1], ""), ".o")
      listing(wanted, extension) == IF wanted THEN ReplaceExtension(object, extension) ELSE <<>>
  IN [p EXCEPT !.units = Append(@, [source |-> args[1], object |-> object, asm |-> listing(p.asm, ".s"),
                                    ir |-> listing(p.ir, ".ll")])]

\* CProject::ApplyLine, of words none of which is in a comment.
Applied(p, command, args) ==
  IF command \in Unimplemented \/ ~HasParm(command, args) THEN [p EXCEPT !.refused = TRUE]
  ELSE CASE command = "Name" -> [p EXCEPT !.name = args[1]]
         [] command = "Type" -> TypeCmd(p, args[1])
         [] command = "Target" -> TargetCmd(p, args[1])
         [] command \in Toggles -> ToggleCmd(p, command)
         [] command = "Compile" -> CompileCmd(p, args)
\* The conditions in front, and the command behind them.
ConditionsOf(words) == {i \in DOMAIN words : \A j \in 1 .. i : words[j] \in Conditions}
CommandOf(words) == SubSeq(words, Cardinality(ConditionsOf(words)) + 1, Len(words))
ApplyLine(p, words) ==
  LET command == CommandOf(words)
      ignored == (words # <<>> /\ words[1] = "#") \/ \E i \in ConditionsOf(words) : ~Condition(words[i])
  IN IF ignored \/ command = <<>> THEN p ELSE Applied(p, command[1], Tail(command))

\* The white space that is skipped at the start of a line may be more lines: a line
\* without words is the line behind it, once more.
LineAt(lines, i) ==
  LET words == {k \in i .. Len(lines) : lines[k] # <<>>}
  IN IF words = {} THEN <<>> ELSE lines[CHOOSE k \in words : \A j \in words : k <= j]
LoadFromFile(lines) ==
  FoldLeft(LAMBDA p, i : IF p.refused THEN p ELSE ApplyLine(p, LineAt(lines, i)),
           [NewProject EXCEPT !.info = "environment"], [i \in DOMAIN lines |-> i])

-----------------------------------------------------------------------------
(* main.                                                                    *)
Process ==
  /\ phase = "options"
  /\ \E o \in {Processed(CommandLine)} :
       /\ options' = o
       /\ failed' = (o.successes = 0 /\ o.failures > 0)
       /\ phase' = IF o.successes = 0 /\ o.failures > 0 THEN "done" ELSE "inputs"
  /\ UNCHANGED <<meant, projectText, projects, building, declared, made, links>>

\* MProjects::Current, which may have to be added first.
WithCurrent(ps) == IF ps = <<>> THEN <<NewProject>> ELSE ps
UpdateCurrent(ps, words) == [WithCurrent(ps) EXCEPT ![Len(WithCurrent(ps))] = ApplyLine(@, words)]

\* MProjects::Load: a project whose file is refused is taken away again.
Load(ps, p) == IF p.refused THEN ps ELSE Append(ps, p)

\* ProcessFile.  The extension of an input is that of a project, none, or another, with
\* which it is passed over.
ProcessFile ==
  /\ phase = "inputs" /\ options.inputs # <<>>
  /\ LET input == Head(options.inputs)
         loaded == LoadFromFile(projectText[input])
         fails == input \in ProjectFiles /\ loaded.refused
     IN /\ projects' = CASE input \in ProjectFiles -> Load(projects, loaded)
                         [] input \in DOMAIN StopsAt -> UpdateCurrent(projects, <<"Compile", input>>)
                         [] OTHER -> projects
        /\ failed' = (failed \/ fails)
        /\ options' = [options EXCEPT !.inputs = IF fails THEN <<>> ELSE Tail(@),
                                      !.processed = @ \/ ~fails]   \* bDidAllSucceed
  /\ UNCHANGED <<meant, projectText, phase, building, declared, made, links>>

\* Into the current project, whichever it is.
SetOutput ==
  /\ phase = "inputs" /\ options.inputs = <<>>
  /\ phase' = IF options.processed THEN "build" ELSE "done"
  /\ projects' = IF options.processed /\ options.output # ""
                 THEN FoldLeft(UpdateCurrent, projects,
                               <<<<"-TargetPrefix">>, <<"-TargetSuffix">>, <<"Target", options.output>>>>)
                 ELSE projects
  /\ UNCHANGED <<meant, projectText, options, building, declared, made, links, failed>>

-----------------------------------------------------------------------------
(* MProjects::Build: each project, and each unit of it.                     *)
IsInternal(m) == m = "core"
Named(modules) == SelectSeq(modules, LAMBDA m : ~IsInternal(m))

\* CProject::TouchModule, of the current project: a plug-in is in one project at a time.
TouchModule(ps, m) ==
  IF m \in ToSet(Last(ps).modules) THEN ps
  ELSE [i \in DOMAIN ps |-> [ps[i] EXCEPT !.modules =
          IF i = Len(ps) THEN Append(@, m) ELSE SelectSeq(@, LAMBDA o : o # m)]]

Unit == projects[building.project].units[building.unit]
MoreUnits == building.project <= Len(projects) /\ building.unit <= Len(projects[building.project].units)

\* SFunctionOverload::GenDecl: a command that has a function, of this unit's module of
\* LLVM or of one before it, does not touch its plug-in.
Touched ==
  IF StopsAt[Unit.source] \in {"load", "syntax"} THEN <<>>
  ELSE SelectSeq(SourceModules[Unit.source], LAMBDA m : m \notin declared)

\* AddObjOut, AddAsmOut and WriteIR, of the files that have names; and WriteOutputs.
Outputs(unit) == {unit.object, unit.asm, unit.ir} \ {<<>>}

\* SCompilation::Build, with EmitModuleInfo, WriteIR and WriteOutputs.  For the units
\* behind the first one MCodeGen::Fini deletes the entry function, and then the module
\* that it is still in: what comes of that is undefined, and may be a crash.
BuildUnit ==
  /\ phase = "build" /\ MoreUnits
  /\ projects' = FoldLeft(TouchModule, projects, Touched)
  /\ declared' = declared \cup ToSet(Touched)
  /\ LET stops == StopsAt[Unit.source] # "none"
     IN /\ made' = IF stops THEN made
                   ELSE Append(made, [project |-> building.project, source |-> Unit.source,
                                      files |-> Outputs(Unit),
                                      table |-> Named(Last(projects').modules)])
        /\ building' = [building EXCEPT !.unit = @ + 1, !.units = @ + 1,
                                        !.failures = IF stops THEN @ + 1 ELSE @]
  /\ phase' \in {"build"} \cup (IF building.units > 0 THEN {"crashed"} ELSE {})
  /\ UNCHANGED <<meant, projectText, options, links, failed>>

\* MBinutils::Link, and ld: two objects both have the entry and the table of plug-ins.
Links(p) ==
  LET project == projects[p]
  IN [project |-> p, target |-> project.target,
      objects |-> [i \in DOMAIN project.units |-> project.units[i].object],
      modules |-> Named(project.modules)]
LinkerTakes(l) ==
  /\ l.target # <<>> /\ Len(l.objects) = 1
  /\ \A i \in DOMAIN made : made[i].project = l.project =>
       ToSet(made[i].table) \cup ToSet(Named(SourceModules[made[i].source])) \subseteq ToSet(l.modules)

\* The end of CProject::Build.
LinkProject ==
  /\ phase = "build" /\ building.project <= Len(projects) /\ ~MoreUnits
  /\ LET l == Links(building.project)
         linking == building.failures = 0 /\ l.objects # <<>>
     IN /\ links' = IF linking THEN Append(links, l) ELSE links
        /\ failed' = (failed \/ building.failures > 0 \/ (linking /\ ~LinkerTakes(l)))
  /\ building' = [building EXCEPT !.project = @ + 1, !.unit = 1, !.failures = 0]
  /\ UNCHANGED <<meant, projectText, phase, options, projects, declared, made>>

Finish ==
  /\ phase = "build" /\ building.project > Len(projects)
  /\ phase' = "done"
  /\ UNCHANGED <<meant, projectText, options, projects, building, declared, made, links, failed>>

StartsWith(meaning, text) ==
  /\ meant = meaning /\ projectText = text
  /\ phase = "options" /\ options = NoOptions /\ projects = <<>>
  /\ building = [project |-> 1, unit |-> 1, units |-> 0, failures |-> 0]
  /\ declared = {} /\ made = <<>> /\ links = <<>> /\ failed = FALSE

ProjectsNext == Process \/ ProcessFile \/ SetOutput \/ BuildUnit \/ LinkProject \/ Finish

-----------------------------------------------------------------------------
(* What was meant.                                                          *)
ValuesOf(is, m) == LET chosen == SelectSeq(m, LAMBDA x : x.is = is) IN [i \in DOMAIN chosen |-> chosen[i].value]

NoOptionFrom(i) == \A j \in i .. Len(meant) : meant[j].is = "input"

\* The command line is understood, in every way to write it but "-c", which is no option.
OptionsAsMeant ==
  (phase = "inputs" /\ \A i \in DOMAIN meant : meant[i].form # "-c" /\ (meant[i].is = "rest" => NoOptionFrom(i + 1))) =>
    /\ ValuesOf("output", meant) # <<>> => options.output = Last(ValuesOf("output", meant))
    /\ options.failures = 0 /\ (options.compileOnly <=> ValuesOf("compile", meant) # <<>>)
    /\ \E n \in 0 .. Len(ValuesOf("input", meant)) :
         options.inputs = SubSeq(ValuesOf("input", meant), n + 1, Len(ValuesOf("input", meant)))

\* The lines that count, by their numbers.
Counts(line) ==
  /\ line # <<>> /\ line[1] # "#" /\ CommandOf(line) # <<>>
  /\ \A i \in ConditionsOf(line) : line[i] \in {"?1", "?Debug"}
Lines(text, command) == {i \in DOMAIN text : Counts(text[i]) /\ CommandOf(text[i])[1] = command}
Latest(text, commands, i) ==
  LET before == {j \in UNION {Lines(text, c) : c \in commands} : j < i}
  IN IF before = {} THEN <<"">> ELSE CommandOf(text[CHOOSE j \in before : \A k \in before : k <= j])
IsOn(text, option, default, i) ==
  LET latest == Latest(text, {"+" \o option, "-" \o option}, i)[1]
  IN IF latest = "" THEN default ELSE latest = "+" \o option
\* A line without words in front of one that counts counts for it.
BlankInFront(text) == \E i \in 2 .. Len(text) : text[i - 1] = <<>> /\ (text[i] = <<>> \/ Counts(text[i]))

\* A unit for each line that counts and says so, with the listings that are on there;
\* the target that the last line names, of the type that it has there.
ReadAsWritten(p, text) ==
  LET compiles == SetToSortSeq(Lines(text, "Compile"), <)
      targets == Lines(text, "Target")
  IN /\ Len(p.units) = Len(compiles)
     /\ \A n \in DOMAIN compiles :
          LET i == compiles[n]
              args == Tail(CommandOf(text[i]))
          IN /\ p.units[n].source = args[1]
             /\ p.units[n].object = IF Len(args) = 1 THEN <<args[1], ".o">> ELSE <<args[2], "">>
             /\ p.units[n].asm # <<>> <=> IsOn(text, "ASMList", FALSE, i)
             /\ p.units[n].ir # <<>> <=> IsOn(text, "IRList", FALSE, i)
     /\ p.target = IF targets = {} THEN <<>>
                   ELSE LET i == CHOOSE t \in targets : \A k \in targets : k <= t
                            type == Latest(text, {"Type"}, i)
                            library == type[1] # "" /\ type[2] \in {"StaticLibrary", "DynamicLibrary"}
                        IN <<IF library /\ IsOn(text, "TargetPrefix", TRUE, i) THEN "lib" ELSE "",
                             CommandOf(text[i])[2],
                             IF library /\ IsOn(text, "TargetSuffix", TRUE, i)
                             THEN IF type[2] = "StaticLibrary" THEN ".a" ELSE ".so" ELSE "">>

\* A project is what its file says, and a file that is refused is no project.
FilesAsWritten ==
  /\ phase = "inputs" /\ Len(meant) = 1 /\ options.processed /\ meant[1].value \in ProjectFiles =>
       \A text \in {projectText[meant[1].value]} :
         ~BlankInFront(text) => projects # <<>> /\ ReadAsWritten(projects[1], text)
  /\ phase = "build" => \A p \in ToSet(projects) : p.info = "environment" => ~p.refused

\* Of a single project: what is linked is what was made of its sources, with all the
\* plug-ins that they use, which are those in the table of the last of them.
LinkedWhole ==
  Len(projects) = 1 =>
    \A l \in ToSet(links) :
      /\ Len(l.objects) = Len(made) /\ \A i \in DOMAIN made : l.objects[i] \in made[i].files
      /\ l.modules = Last(made).table
      /\ ToSet(l.modules) = UNION {ToSet(Named(SourceModules[made[i].source])) : i \in DOMAIN made}

IsLinked(p) == \E l \in ToSet(links) : l.project = p /\ LinkerTakes(l)
Built(p) == projects[p].units # <<>> /\ \A u \in ToSet(projects[p].units) : StopsAt[u.source] = "none"
IsCalledFor(p) == \E l \in ToSet(links) : l.project = p
\* The linker is called for the projects of which every source was built, whatever became
\* of others; and success is told when, and only when, it links every project with sources.
\* When only compiling is asked for, success is told of sources that could be built.
\* Nothing is said of an input that is passed over.
ExitTells ==
  phase = "done" =>
    /\ options.processed =>
         \A p \in DOMAIN projects :
           (IsCalledFor(p) => Built(p)) /\ (Built(p) /\ ~options.compileOnly => IsCalledFor(p))
    /\ ~failed => \A p \in DOMAIN projects :
                    projects[p].units # <<>> => Built(p) /\ (options.compileOnly \/ IsLinked(p))
    /\ failed => \/ ~options.processed \/ options.compileOnly
                 \/ \E p \in DOMAIN projects : projects[p].units # <<>> /\ ~IsLinked(p)
                 \/ \E m \in ToSet(meant) : m.value \in ProjectFiles /\ LoadFromFile(projectText[m.value]).refused

(* "Compile only; do not link." (the help of the option, Main.cpp:271).     *)
(* main looks at the option only to log that it is not implemented, and     *)
(* builds and links as always (Main.cpp:435-442).                           *)
CompileOnlyLinksNothing == options.compileOnly => links = <<>>

\* What is meant by the command line, and written in project files, is what is built.
BuiltAsWritten == OptionsAsMeant /\ FilesAsWritten /\ LinkedWhole /\ ExitTells
================================================================================
