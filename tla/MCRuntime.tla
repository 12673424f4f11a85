----------------------------- MODULE MCRuntime -----------------------------
(***************************************************************************)
(* The data that the runtime library keeps for a script, and its start-up. *)
(* The parts do not interact: a behaviour is one of one of them, named by  *)
(* part, and the others stay as they were made.                            *)
(***************************************************************************)
EXTENDS RuntimeList, RuntimeArray, ModuleStartup, ObjectPool, RuntimeStrings, FileSystem

CONSTANTS n1, n2, n3, n4

MCNodes == {n1, n2, n3, n4}

\* Strings of the bytes a and b, and one with an e acute in it and a slash at its
\* end.  The code points are those at which the length of the encoding changes.
MCTexts == UNION {[1 .. n -> {97, 98}] : n \in 0 .. 4} \cup {NULL, <<97, 195, 169, 47>>}
MCSearches == UNION {[1 .. n -> {97, 98}] : n \in 0 .. 2}
MCCodepoints == {0, 1, 97, 127, 128, 2047, 2048, 65535, 65536, 65537, 1114111}

\* Paths of the bytes . / \\ a, with drives, shares and devices among them; and names to set.
StringsOf(n, S) == UNION {[1 .. k -> S] : k \in 0 .. n}
MCPaths == StringsOf(4, {46, 47, 97}) \cup StringsOf(3, {46, 92, 97}) \cup StringsOf(3, {58, 92, 97})
  \cup {<<92, 92, x, 92, 97, 92, 98>> : x \in {46, 63}} \cup {<<92, 92, 97, 92, 98>>}
MCNames == {<<>>, <<98>>, <<98, 99>>}

\* Directories within directories, with files in the inner ones, one that cannot be opened,
\* and one that lies deeper than MaxDepth.
MCTrees == {
  [dirs |-> {<<>>, <<1>>, <<1, 1>>, <<1, 3>>}, files |-> {<<2>>, <<1, 2>>, <<1, 1, 1>>, <<1, 4>>}, locked |-> {<<1, 1>>}],
  [dirs |-> {<<>>, <<1>>, <<1, 1>>, <<1, 1, 1>>}, files |-> {<<1, 1, 1, 1>>, <<1, 1, 2>>, <<3>>}, locked |-> {}]}
MCValues == {<<1, 2>>}

VARIABLES
  part,
  path, name, windows,
  pcg, drawn, draws,
  memblocks, valueWritten, outside, memCalls,
  number, otherNumber

Commands == INSTANCE ScriptValues WITH
  Channel <- 16, Circle <- 360, Generators <- {0, 1}, HalfBits <- 4, MaxTurns <- 2, MaxDraws <- 2,
  MemblockNumbers <- {1, 2}, MemblockSizes <- {4}, BlockPositions <- {0, 1, 2, 15}, Byte <- 4, Word <- 16, MaxCalls <- 4
randomVars == <<pcg, drawn, draws>>
memblockVars == <<memblocks, valueWritten, outside, memCalls>>
MCNumbers == -20 .. 20 \cup {45 * k : k \in -9 .. 9}

\* The arguments of a call of the arithmetic, which keeps no state.
pure == <<path, name, windows, number, otherNumber>>
others == <<pure, poolVars, arrayVars, startVars, fileVars, randomVars, memblockVars>>

RuntimeInit ==
  /\ part \in {"list", "pool", "array", "start", "strings", "paths", "files", "folders", "random", "memblocks", "maths"}
  /\ Init /\ ArrayInit
  /\ PoolInit /\ (part # "pool" => safe)
  /\ StartInit /\ (part # "start" => ToSet(inits) = {"none"} /\ ToSet(finis) = {FALSE})
  /\ StringInit /\ (part # "strings" => text = NULL)
  /\ FileInit /\ (part # "files" => ToSet(disk) = {Absent})
  /\ FolderInit /\ (part # "folders" => cwd = <<>> /\ tree.locked = {})
  /\ Commands!RandomInit /\ Commands!MemblockInit
  /\ IF part = "maths" THEN number \in MCNumbers /\ otherNumber \in MCNumbers ELSE number = 0 /\ otherNumber = 0
  /\ IF part = "paths" THEN path \in MCPaths /\ name \in MCNames /\ windows \in BOOLEAN
                        ELSE path = <<>> /\ name = <<>> /\ windows = TRUE

RuntimeNext ==
  /\ UNCHANGED <<part, pure>>
  /\ \/ part = "list" /\ Next
        /\ UNCHANGED <<poolVars, arrayVars, startVars, stringVars, fileVars, folderVars, randomVars, memblockVars>>
     \/ part = "pool" /\ PoolNext
        /\ UNCHANGED <<vars, arrayVars, startVars, stringVars, fileVars, folderVars, randomVars, memblockVars>>
     \/ part = "array" /\ ArrayNext
        /\ UNCHANGED <<vars, poolVars, startVars, stringVars, fileVars, folderVars, randomVars, memblockVars>>
     \/ part = "start" /\ StartNext
        /\ UNCHANGED <<vars, poolVars, arrayVars, stringVars, fileVars, folderVars, randomVars, memblockVars>>
     \/ part = "strings" /\ StringNext
        /\ UNCHANGED <<vars, poolVars, arrayVars, startVars, fileVars, folderVars, randomVars, memblockVars>>
     \/ part = "files" /\ FileNext
        /\ UNCHANGED <<vars, poolVars, arrayVars, startVars, stringVars, folderVars, randomVars, memblockVars>>
     \/ part = "folders" /\ FolderNext
        /\ UNCHANGED <<vars, poolVars, arrayVars, startVars, stringVars, fileVars, randomVars, memblockVars>>
     \/ part = "random" /\ Commands!RandomNext
        /\ UNCHANGED <<vars, poolVars, arrayVars, startVars, stringVars, fileVars, folderVars, memblockVars>>
     \/ part = "memblocks" /\ Commands!MemblockNext
        /\ UNCHANGED <<vars, poolVars, arrayVars, startVars, stringVars, fileVars, folderVars, randomVars>>

\* FairSpec of the list; no other part has a loop that could fail to end.
RuntimeSpec ==
  /\ RuntimeInit
  /\ [][RuntimeNext]_<<part, vars, stringVars, folderVars, others>>
  /\ WF_vars(part = "list" /\ EmptyTurn)
  /\ WF_vars(part = "list" /\ Emptied)

\* The parts that a text, and that a path, is cut into.
TextPartsAgree == PartsFit /\ CodepointsReadBack /\ (part = "paths" => PathPartsAgree(path, name, windows))

\* What files promise to those that read and write them (FilesAgree), and Find First, the
\* directories that are read and the current directory to a script (FoldersAgree).
FilesHold == FilesAgree /\ (part = "folders" => FoldersAgree)

\* What File System.txt says of LEAVE DIR and FIND FIRST.  The code does otherwise: either
\* fails when it is added to MCRuntime.cfg, the first with a fourth command.
LeavesRetraced == part = "folders" => DirsRetraced
FindsAfresh == part = "folders" => FoundAfresh

\* The arithmetic, the random numbers and the blocks of memory of a script.
ValuesAgree ==
  /\ part = "maths" => Commands!MathsAgree(number, otherNumber)
  /\ part = "random" => Commands!RandomAgrees
  /\ part = "memblocks" => Commands!MemblocksAgree

\* What Math System.txt says of CLAMP and FLOOR.  These fail, too.
Clamps == part = "maths" => Commands!ClampAgrees(number, 0, Commands!Abs(otherNumber))
Floors == part = "maths" => Commands!FloorAgrees(number)
=============================================================================
