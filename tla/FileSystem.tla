---------------------------- MODULE FileSystem ----------------------------
(***************************************************************************)
(* The plug-in Modules/API.FileSystem: files, and then paths and folders.  *)
(*                                                                         *)
(* The files that a script opens by number (File.cpp), in the build for    *)
(* Windows; the other builds refuse every open.  What CreateFileW and its  *)
(* companions do is external.  A file's contents are a sequence of bytes;  *)
(* a value of more than a byte is the sequence of its bytes, the lowest    *)
(* first, which is how the machine keeps it.  The number of a file comes   *)
(* from a pool (ObjectPool), of which only which numbers are in use is     *)
(* kept here.                                                              *)
(***************************************************************************)
EXTENDS Integers, SequencesExt, FiniteSetsExt

CONSTANTS
  FileNumbers,  \* the numbers that the script uses
  Files,        \* the paths
  Values,       \* the values that are written, sequences of two bytes
  MaxFileSize   \* bound on the size of a file

VARIABLES
  disk,      \* the contents of each file, or Absent
  files,     \* the open handle under each number, or Closed
  fileError, \* whether the script has ended with a runtime error
  results,   \* what the last command read, and from where; NothingRead if it did not read
  written    \* the values that a file holds, while they were written one after the other

fileVars == <<disk, files, fileError, results, written>>

Unread == -1
Absent == <<Unread>>
NothingRead == [path |-> "none", at |-> 0, order |-> "none", bytes |-> <<>>]
Closed ==
  [path |-> "none", mode |-> [access |-> "none", share |-> "none", disposition |-> "none"], read |-> FALSE,
   write |-> FALSE, shareRead |-> FALSE, shareWrite |-> FALSE, pos |-> 0]

-----------------------------------------------------------------------------
(* What a mode means.  A mode is an access, how the file is shared, what    *)
(* becomes of a file that exists or does not, and other flags.              *)

CanRead(m) == m.access \in {"R", "RW"}
CanWrite(m) == m.access \in {"W", "RW", "APPEND"}

SharingReads(m) ==
  CASE m.share \in {"SHARE_R", "SHARE_RW"} -> TRUE
    [] m.share \in {"NSHARE_R", "NSHARE_RW"} -> FALSE
    [] OTHER -> ~CanWrite(m)

SharingWrites(m) ==
  CASE m.share \in {"SHARE_W", "SHARE_RW"} -> TRUE
    [] m.share \in {"NSHARE_W", "NSHARE_RW"} -> FALSE
    [] OTHER -> m.access = "APPEND"

\* GetEffectiveDisposition returns the whole mode when it names a disposition, and
\* GetCreationDisposition knows it then only if nothing else is in the mode.
GetCreationDisposition(m) ==
  CASE m.disposition = "DEFAULT" ->
         (CASE m.access = "R" -> "OPEN_EXISTING" [] m.access = "W" -> "CREATE_ALWAYS"
            [] OTHER -> "OPEN_ALWAYS")
    [] m.disposition # "DEFAULT" /\ m.access = "R" /\ m.share = "DEFAULT" -> m.disposition
    [] OTHER -> "none"

Mode(access) == [access |-> access, share |-> "DEFAULT", disposition |-> "DEFAULT"]
Modes ==
  {Mode(access) : access \in {"R", "W", "RW", "APPEND"}}
  \cup {[Mode("R") EXCEPT !.disposition = "CREATE_NEW"], [Mode("RW") EXCEPT !.disposition = "CREATE_ALWAYS"]}
  \cup {[Mode("R") EXCEPT !.share = "SHARE_RW"], [Mode("W") EXCEPT !.share = "SHARE_R"]}

-----------------------------------------------------------------------------
(* CreateFileW: external.  What another handle has open must be shared on   *)
(* both sides.                                                              *)

Open == {n \in FileNumbers : files[n] # Closed}
Clash(h, g) ==
  (g.read /\ ~h.shareRead) \/ (g.write /\ ~h.shareWrite) \/ (h.read /\ ~g.shareRead) \/ (h.write /\ ~g.shareWrite)

Creates(disposition, exists) ==
  \/ disposition \in {"CREATE_ALWAYS", "OPEN_ALWAYS"}
  \/ disposition = "CREATE_NEW" /\ ~exists
  \/ disposition = "OPEN_EXISTING" /\ exists

Opened(file, m) ==
  [path |-> file, mode |-> m, read |-> CanRead(m), write |-> CanWrite(m), shareRead |-> SharingReads(m),
   shareWrite |-> SharingWrites(m), pos |-> 0]
CreateFile(file, m) ==
  /\ Creates(GetCreationDisposition(m), disk[file] # Absent)
  /\ \A n \in Open : files[n].path = file => ~Clash(Opened(file, m), files[n])

Contents(file, m) ==
  IF GetCreationDisposition(m) = "CREATE_ALWAYS" \/ disk[file] = Absent THEN <<>> ELSE disk[file]

-----------------------------------------------------------------------------
FileInit ==
  /\ disk \in [Files -> {Absent, <<7>>}]
  /\ files = [n \in FileNumbers |-> Closed]
  /\ fileError = FALSE /\ results = NothingRead
  /\ written = [f \in Files |-> <<>>]

\* OpenFile, under the number that is asked for, or under any when none is (Make).
\* With a reference for the error, a failure frees the number; without one, and
\* when the number is in use, the script ends.
OpenFile(n, chosen, file, m, reports) ==
  /\ ~fileError
  /\ IF chosen /\ files[n] # Closed
     THEN fileError' = TRUE /\ UNCHANGED <<disk, files, written>>
     ELSE /\ files[n] = Closed
          /\ IF CreateFile(file, m)
             THEN /\ files' = [files EXCEPT ![n] = Opened(file, m)]
                  /\ disk' = [disk EXCEPT ![file] = Contents(file, m)]
                  /\ written' = IF Contents(file, m) = <<>> THEN [written EXCEPT ![file] = <<>>] ELSE written
                  /\ UNCHANGED fileError
             ELSE /\ fileError' = ~reports
                  /\ UNCHANGED <<disk, files, written>>
  /\ results' = NothingRead

CloseFile(n) ==
  /\ ~fileError /\ files[n] # Closed
  /\ files' = [files EXCEPT ![n] = Closed]
  /\ results' = NothingRead
  /\ UNCHANGED <<disk, fileError, written>>

\* WriteFile: external.  A gap, after another handle has emptied the file, is zeros.
Overwritten(s, at, bytes) ==
  LET size == Max({Len(s), at + Len(bytes)})
  IN [i \in 1 .. size |-> IF i \in at + 1 .. at + Len(bytes) THEN bytes[i - at] ELSE IF i <= Len(s) THEN s[i] ELSE 0]

\* A value as it goes to the file, and as it comes back.
BE(value) == Reverse(value)
LE(value) == value
ToFile(order, value) == IF order = "BE" THEN BE(value) ELSE LE(value)
FromBE(bytes) == Reverse(bytes)
FromLE(bytes) == bytes
FromFile(order, bytes) == IF order = "BE" THEN FromBE(bytes) ELSE FromLE(bytes)

\* File( FileNumber ) ends the script when the number is not open.  Write fails on a
\* handle that only reads.
WriteValue(n, order, value, reports) ==
  /\ ~fileError
  /\ IF files[n] = Closed \/ ~files[n].write
     THEN fileError' = (files[n] = Closed \/ ~reports) /\ UNCHANGED <<disk, files, written>>
     ELSE LET h == files[n] IN
          /\ h.pos + Len(value) <= MaxFileSize
          /\ disk' = [disk EXCEPT ![h.path] = Overwritten(@, h.pos, ToFile(order, value))]
          /\ files' = [files EXCEPT ![n].pos = @ + Len(value)]
          /\ written' = [written EXCEPT ![h.path] =
               IF h.pos = 2 * Len(@) THEN Append(@, <<order, value>>) ELSE <<>>]
          /\ UNCHANGED fileError
  /\ results' = NothingRead

\* FS_Read16 and its kind.  At the end of the file fewer bytes are read, or none, and
\* only the versions that report say so: the others hand over what was in memory.
ReadValue(n, order, length, reports) ==
  /\ ~fileError
  /\ IF files[n] = Closed \/ ~files[n].read
     THEN fileError' = (files[n] = Closed \/ ~reports) /\ results' = NothingRead /\ UNCHANGED files
     ELSE LET h == files[n]
              got == SubSeq(disk[h.path], h.pos + 1, Min({Len(disk[h.path]), h.pos + length}))
              bytes == got \o [i \in 1 .. length - Len(got) |-> Unread] IN
          /\ files' = [files EXCEPT ![n].pos = @ + Len(got)]
          /\ results' = IF reports /\ Len(got) < length THEN NothingRead
               ELSE [path |-> h.path, at |-> h.pos, order |-> order, bytes |-> FromFile(order, bytes)]
          /\ UNCHANGED fileError
  /\ UNCHANGED <<disk, written>>

FileNext ==
  \/ \E n \in FileNumbers, file \in Files, m \in Modes, chosen, reports \in BOOLEAN : OpenFile(n, chosen, file, m, reports)
  \/ \E n \in FileNumbers : CloseFile(n)
  \/ \E n \in FileNumbers, order \in {"BE", "LE"}, value \in Values, reports \in BOOLEAN : WriteValue(n, order, value, reports)
  \/ \E n \in FileNumbers, order \in {"BE", "LE"}, reports \in BOOLEAN : ReadValue(n, order, 2, reports)

-----------------------------------------------------------------------------
(* Files that are opened without a word about sharing do not meet: when two *)
(* numbers have the same file open, both only read it, or both append to    *)
(* it.                                                                      *)
FilesApart ==
  \A n, k \in Open :
    n # k /\ files[n].path = files[k].path /\ files[n].mode.share = "DEFAULT" /\ files[k].mode.share = "DEFAULT" =>
      files[n].mode.access = files[k].mode.access /\ files[n].mode.access \in {"R", "APPEND"}

(* Who opens a file to write, and does not share it, writes it alone: it    *)
(* holds what came through that number, and nothing else.                   *)
WritesAlone ==
  \A n \in Open : files[n].mode = Mode("W") => Len(disk[files[n].path]) = files[n].pos

(* A value that was written in an order of bytes is the value that is read  *)
(* in that order, from the place it was written to, by whichever number.    *)
ValuesComeBack ==
  \A f \in Files : \A i \in DOMAIN written[f] :
    results.path = f /\ results.at = 2 * (i - 1) /\ results.order = written[f][i][1] =>
      results.bytes = written[f][i][2]

\* What a script may count on of the files it has open.
FilesAgree == FilesApart /\ WritesAlone /\ ValuesComeBack

-----------------------------------------------------------------------------
(* What a script knows of paths and directories.  First the parts of a path *)
(* (Path.cpp), and the references to parts of a text that they are found    *)
(* with (StrRef in TenshiRuntime.h).  A text is a sequence of byte values.  *)
(* A reference into it is the pair of offsets of its first byte and of the  *)
(* byte after its last; NoRef is the one that points nowhere, which is not  *)
(* the same as one of no bytes.                                             *)

Slash == 47
Backslash == 92
Dot == 46
Colon == 58

NoRef == [s |-> -1, e |-> -1]
Ref(s, e) == [s |-> s, e |-> e]
Whole(t) == Ref(0, Len(t))
Length(r) == r.e - r.s
Text(t, r) == IF r = NoRef THEN <<>> ELSE SubSeq(t, r.s + 1, r.e)

Skip(r, n) == IF n >= Length(r) THEN NoRef ELSE Ref(r.s + n, r.e)
Drop(r, n) == IF n >= Length(r) THEN NoRef ELSE Ref(r.s, r.e - n)
Left(r, n) == IF n >= Length(r) THEN r ELSE Ref(r.s, r.s + n)
StartsWith(t, r, x) == Length(r) >= Len(x) /\ Text(t, Left(r, Len(x))) = x

\* Where a byte of r is one of x, and the references that start there.
Positions(t, r, x) == {i \in r.s .. r.e - 1 : t[i + 1] \in x}
Find(t, r, x) == IF Positions(t, r, x) = {} THEN NoRef ELSE Ref(Min(Positions(t, r, x)), r.e)
FindLast(t, r, x) == IF Positions(t, r, x) = {} THEN NoRef ELSE Ref(Max(Positions(t, r, x)), r.e)

\* Find of a text gives up when the text is shorter than what it is looked for in.
FindText(t, r, x) ==
  LET at == {i \in Positions(t, r, {x[1]}) : StartsWith(t, Ref(i, r.e), x)}
  IN IF Length(r) = 0 \/ Len(x) < Length(r) \/ at = {} THEN NoRef ELSE Ref(Min(at), r.e)

Separators(windows) == IF windows THEN {Slash, Backslash} ELSE {Slash}
FindPathSep(t, r, windows) == Find(t, r, Separators(windows))
FindLastPathSep(t, r, windows) == FindLast(t, r, Separators(windows))

-----------------------------------------------------------------------------
(* A root name ends before the separator that follows it. *)

UpTo(t, x) == IF x = NoRef THEN Whole(t) ELSE Ref(0, x.s)
PathRootname(t, windows) ==
  LET path == Whole(t)
      raw == Find(t, Skip(path, 4), {Backslash})
      share == Find(t, Skip(raw, 5), {Backslash}) IN
  CASE ~windows -> IF StartsWith(t, path, <<Slash>>) THEN Left(path, 1) ELSE NoRef
    [] windows /\ StartsWith(t, Skip(path, 1), <<Colon>>) -> Left(path, 2)
    [] windows /\ ~StartsWith(t, Skip(path, 1), <<Colon>>) /\ ~StartsWith(t, path, <<Backslash, Backslash>>) -> NoRef
    [] OTHER ->
         IF StartsWith(t, Skip(path, 2), <<63, Backslash>>)
         THEN IF StartsWith(t, raw, <<Backslash, 85, 78, 67, Backslash>>) /\ share # NoRef THEN Ref(0, share.s) ELSE UpTo(t, raw)
         ELSE IF StartsWith(t, Skip(path, 2), <<Dot, Backslash>>) THEN UpTo(t, raw)
         ELSE UpTo(t, Find(t, Skip(path, 2), {Backslash}))

PathRootdir(t, windows) ==
  LET root == PathRootname(t, windows)
      path == Skip(Whole(t), IF root = NoRef THEN 0 ELSE Length(root) + 1)
      next == FindPathSep(t, path, windows)
  IN IF next = NoRef THEN path ELSE Ref(0, next.s)

\* A faulty directory, without its separator.
PathDirectoryBare(t, windows) ==
  LET last == FindLastPathSep(t, Whole(t), windows)
  IN IF last = NoRef THEN NoRef ELSE Drop(Whole(t), Length(last))

PathDirectory(t, windows) ==
  LET last == FindLastPathSep(t, Whole(t), windows)
  IN IF last = NoRef THEN NoRef ELSE Drop(Whole(t), Length(last) - 1)

PathFilename(t, windows) ==
  LET dir == PathDirectory(t, windows)
  IN IF dir = NoRef THEN Whole(t) ELSE Skip(Whole(t), Length(dir))

PathBasename(t, windows) ==
  LET name == PathFilename(t, windows)
      dot == FindLast(t, name, {Dot})
  IN IF dot = NoRef THEN name ELSE Ref(name.s, dot.s)

PathExtension(t, windows) == FindLast(t, PathFilename(t, windows), {Dot})

ParentPath(t, windows) ==
  LET last == FindLastPathSep(t, Drop(PathDirectory(t, windows), 1), windows)
  IN IF PathDirectory(t, windows) = NoRef \/ last = NoRef THEN NoRef ELSE Ref(0, last.s)

PathIsAbsolute(t, windows) == t # <<>> /\ PathRootname(t, windows) # NoRef
PathIsRelative(t, windows) == t # <<>> /\ PathRootname(t, windows) = NoRef

SetPathFilename(t, name, windows) == Text(t, PathDirectory(t, windows)) \o name
SetPathBasename(t, base, windows) ==
  LET dir == PathDirectory(t, windows)
      ext == FindLast(t, IF dir = NoRef THEN Whole(t) ELSE Ref(dir.e, Len(t)), {Dot})
  IN Text(t, dir) \o base \o Text(t, ext)
SetPathExtension(t, extension, windows) ==
  LET ext == PathExtension(t, windows)
  IN Text(t, IF ext = NoRef THEN Whole(t) ELSE Ref(0, ext.s)) \o extension

-----------------------------------------------------------------------------
Plain(x) == \A c \in ToSet(x) : c \notin {Slash, Backslash, Dot}

(* What the parts of a path promise each other: the directory and the file  *)
(* name make the path up, and so do the base name and the extension the     *)
(* file name; setting one of them to a text that holds no separator and no  *)
(* dot gives a path that has it, and keeps the others; the parent of a      *)
(* directory is that directory less its last name; and a path that is not   *)
(* empty is absolute or relative, with a root name at its start or none.    *)
PathPartsAgree(t, x, windows) ==
  LET part(F(_, _), p) == Text(p, F(p, windows))
      renamed == SetPathFilename(t, x, windows)
      rebased == SetPathBasename(t, x, windows)
      retyped == SetPathExtension(t, <<Dot>> \o x, windows) IN
  /\ part(PathDirectory, t) \o part(PathFilename, t) = t
  /\ part(PathBasename, t) \o part(PathExtension, t) = part(PathFilename, t)
  /\ Plain(x) =>
       /\ part(PathFilename, renamed) = x /\ part(PathDirectory, renamed) = part(PathDirectory, t)
       /\ part(PathBasename, rebased) = x /\ part(PathDirectory, rebased) = part(PathDirectory, t)
       /\ part(PathExtension, rebased) = part(PathExtension, t)
       /\ part(PathExtension, retyped) = <<Dot>> \o x /\ part(PathDirectory, retyped) = part(PathDirectory, t)
       /\ part(PathBasename, retyped) = part(PathBasename, t)
  /\ Plain(x) /\ x # <<>> /\ t # <<>> /\ t[Len(t)] \in Separators(windows) =>
       LET inner == t \o x \o <<Slash>> IN part(ParentPath, inner) = Front(t)
  /\ t # <<>> => PathIsAbsolute(t, windows) # PathIsRelative(t, windows)
  /\ PathIsAbsolute(t, windows) => PathRootname(t, windows).s = 0

-----------------------------------------------------------------------------
(* Directories as a script sees them: the current one and the stack of     *)
(* those it has left (Libs/System/FileSystem.cpp), Find First and Find     *)
(* Next (FindFiles.cpp), directories that are read entry by entry, alone   *)
(* or with all that is in them (Directory.cpp, on Windows), and the known  *)
(* folders (Path.cpp).  A path is the sequence of its names.  What the     *)
(* system does is external: a directory may be locked, so that it cannot   *)
(* be opened, and another program may delete files at any time.            *)

CONSTANTS
  Trees,      \* the trees there may be at the start: [dirs, files, locked], sets of paths
  Folders,    \* the known folders
  MaxDepth,   \* how deep EnumFileTree goes, 64
  MaxCommands \* bound on the number of commands

VARIABLES
  tree,       \* the tree as it is
  cwd, dirs,  \* the current directory, and the stack (DirStack)
  start,      \* the directory that the script was started in, while it has not changed it by SetDir
  entered,    \* the directories entered and not left: the stack that File System.txt describes
  leaves,     \* of each PopDir, the directory it went to, and the one that was entered from
  found, uIndex, statOf, statKind, \* SFindFiles: the files found, where it is, and what it knows (bValidStat, StatInfo)
  finds,      \* of each Find First, the files that there were to find, and whether it succeeded
  levels,     \* the directory that is read, and those in it that are being read: what is left in each
  seen, whole, \* the entries read from it, and those there were to read
  leaked,     \* directories that will never be closed
  known,      \* the known folders that are kept, each the path, or Unset
  commands    \* how many commands were given

folderVars ==
  <<tree, cwd, dirs, start, entered, leaves, found, uIndex, statOf, statKind, finds, levels, seen, whole, leaked, known, commands>>
dirVars == <<cwd, dirs, start, entered, leaves>>
findVars == <<found, uIndex, statOf, statKind, finds>>
walkVars == <<levels, seen, whole, leaked>>

None == -2
Unset == <<-9>>
Self == 0      \* the entry "."
Parent == -1   \* the entry ".."

Exists(p) == p \in tree.dirs \cup tree.files
Under(d, S) == {p \in S : Len(p) > Len(d) /\ SubSeq(p, 1, Len(d)) = d}
Children(d) == {p \in tree.dirs \cup tree.files : Len(p) = Len(d) + 1 /\ Front(p) = d}
Entries(d) == SetToSortSeq(Children(d), LAMBDA p, q : Last(p) < Last(q))
Command == commands < MaxCommands /\ commands' = commands + 1

-----------------------------------------------------------------------------
(* Making a directory: each one on the way, in turn.  One that exists is    *)
(* passed over, whatever it is; one that cannot be made ends the loop.      *)

MakeDir(r, p) ==
  IF r.errno # 0 \/ p \in r.tree.dirs \cup r.tree.files THEN r
  ELSE IF Front(p) \in r.tree.dirs THEN [r EXCEPT !.tree.dirs = @ \cup {p}]
  ELSE [r EXCEPT !.errno = 1]
MakeDirs(p) == FoldLeft(MakeDir, [tree |-> tree, errno |-> 0], [i \in DOMAIN p |-> SubSeq(p, 1, i)])

\* The tree stays as it is while a directory is being read.
MakeDirectory(p) ==
  /\ Command /\ levels = <<>>
  /\ tree' = MakeDirs(p).tree
  /\ UNCHANGED <<dirVars, findVars, walkVars, known>>

DeleteFile ==
  /\ Command /\ levels = <<>>
  /\ \E p \in tree.files : tree' = [tree EXCEPT !.files = @ \ {p}]
  /\ UNCHANGED <<dirVars, findVars, walkVars, known>>

-----------------------------------------------------------------------------
(* The current directory. *)

SetDir(p) ==
  /\ Command /\ p \in tree.dirs
  /\ cwd' = p /\ start' = IF dirs = <<>> THEN p ELSE start
  /\ UNCHANGED <<tree, dirs, entered, leaves, findVars, walkVars, known>>

\* The current directory goes on the stack first, and off again if the other is no directory.
PushDir(p) ==
  /\ Command /\ p \in tree.dirs
  /\ dirs' = Append(dirs, cwd) /\ cwd' = p
  /\ entered' = Append(entered, cwd)
  /\ UNCHANGED <<tree, start, leaves, findVars, walkVars, known>>

\* PopDir leaves what it goes back to on the stack.
PopDir ==
  /\ Command
  /\ cwd' = IF dirs = <<>> THEN cwd ELSE Last(dirs)
  /\ entered' = IF entered = <<>> THEN entered ELSE Front(entered)
  /\ leaves' = Append(leaves, [to |-> cwd', due |-> IF entered = <<>> THEN cwd ELSE Last(entered)])
  /\ UNCHANGED <<tree, dirs, start, findVars, walkVars, known>>

\* A faulty end, which goes back to where the last one was entered from.
RestoredLast == IF dirs = <<>> THEN cwd ELSE Last(dirs)
\* ~DirStack, when the program ends.
Restored == IF dirs = <<>> THEN cwd ELSE Head(dirs)

-----------------------------------------------------------------------------
(* EnumFileTree: the files of a tree.  Below a directory that cannot be     *)
(* opened, or too deep, it fails, with the files it has found by then.      *)

RECURSIVE EnumFileTree(_, _), EnumEntries(_, _)
EnumEntries(entries, depth) ==
  IF entries = <<>> THEN [files |-> <<>>, ok |-> TRUE]
  ELSE LET e == Head(entries)
           r == IF e \in tree.files THEN [files |-> <<e>>, ok |-> TRUE] ELSE EnumFileTree(e, depth + 1)
           rest == EnumEntries(Tail(entries), depth)
       IN IF ~r.ok THEN r ELSE [files |-> r.files \o rest.files, ok |-> rest.ok]
EnumFileTree(d, depth) ==
  IF depth >= MaxDepth \/ d \in tree.locked THEN [files |-> <<>>, ok |-> FALSE] ELSE EnumEntries(Entries(d), depth)

\* The form that makes a graph of it: directories that hold no file are left out, and a
\* failure ends the directory it is in, and is not reported further.
RECURSIVE FileGraph(_), GraphEntries(_)
GraphEntries(entries) ==
  IF entries = <<>> THEN {}
  ELSE LET e == Head(entries) IN
       IF e \in tree.files THEN {e} \cup GraphEntries(Tail(entries))
       ELSE IF e \in tree.locked THEN {}
       ELSE FileGraph(e) \cup GraphEntries(Tail(entries))
FileGraph(d) == GraphEntries(Entries(d))

Relative(paths) == [i \in DOMAIN paths |-> SubSeq(paths[i], Len(cwd) + 1, Len(paths[i]))]

\* Find First adds to what an earlier one has found.
FindFirst ==
  /\ Command
  /\ LET r == EnumFileTree(cwd, 0) IN
     /\ found' = found \o Relative(r.files)
     /\ finds' = Append(finds, [files |-> ToSet(Relative(SetToSeq(Under(cwd, tree.files)))), ok |-> r.ok])
     /\ IF r.ok /\ found' # <<>>
        THEN uIndex' = 0 /\ statOf' = None /\ statKind' = "none"
        ELSE UNCHANGED <<uIndex, statOf, statKind>>
  /\ UNCHANGED <<tree, dirVars, walkVars, known>>

\* A faulty Find Next, which keeps what is known of the file before.
FindNextKeeping ==
  /\ Command
  /\ uIndex' = IF uIndex + 1 >= Len(found) THEN Len(found) ELSE uIndex + 1
  /\ UNCHANGED <<tree, dirVars, found, statOf, statKind, finds, walkVars, known>>

FindNext ==
  /\ Command
  /\ statOf' = None /\ statKind' = "none"
  /\ uIndex' = IF uIndex + 1 >= Len(found) THEN Len(found) ELSE uIndex + 1
  /\ UNCHANGED <<tree, dirVars, found, finds, walkVars, known>>

\* DoStat: kept until the next file; nothing is kept when there is no such file now.
DoStat ==
  /\ Command
  /\ IF statOf = None /\ uIndex < Len(found) /\ Exists(cwd \o found[uIndex + 1])
     THEN /\ statOf' = uIndex
          /\ statKind' = IF cwd \o found[uIndex + 1] \in tree.dirs THEN "directory" ELSE "file"
     ELSE UNCHANGED <<statOf, statKind>>
  /\ UNCHANGED <<tree, dirVars, found, uIndex, finds, walkVars, known>>

-----------------------------------------------------------------------------
(* CDirectory.  An open directory gives the entries it had when it was      *)
(* opened, itself and its parent among them.  In a tree, a directory is     *)
(* not given: what is in it comes in its place.                             *)

Dots(d) == <<Append(d, Self), Append(d, Parent)>>
Level(d) == Dots(d) \o Entries(d)
IsDots(e) == Last(e) \in {Self, Parent}

RECURSIVE ReadLevels(_, _)
ReadLevels(ls, recursively) ==
  LET here == Last(ls) IN
  IF here = <<>> THEN (IF Len(ls) = 1 THEN [levels |-> ls, entry |-> <<>>] ELSE ReadLevels(Front(ls), recursively))
  ELSE LET e == Head(here)
           left == Append(Front(ls), Tail(here)) IN
       IF recursively /\ e \in tree.dirs /\ ~IsDots(e)
       THEN IF e \in tree.locked THEN [levels |-> left, entry |-> <<>>]
            ELSE ReadLevels(Append(left, Level(e)), recursively)
       ELSE [levels |-> left, entry |-> e]

\* What a directory that is read with all that is in it should give.
Reachable(d) == {p \in Under(d, tree.dirs) \cup {d} : \A i \in Len(d) + 1 .. Len(p) : SubSeq(p, 1, i) \notin tree.locked}
InTree(d, recursively) ==
  LET read == IF recursively THEN Reachable(d) ELSE {d}
      dots == UNION {ToSet(Dots(p)) : p \in read}
      listed == UNION {Children(p) : p \in read}
  IN dots \cup (IF recursively THEN listed \ tree.dirs ELSE listed)

OpenDirectory(d, recursively) ==
  /\ Command /\ levels = <<>> /\ d \in tree.dirs \ tree.locked
  /\ levels' = <<Level(d)>> /\ seen' = <<>>
  /\ whole' = [recursively |-> recursively, entries |-> InTree(d, recursively)]
  /\ UNCHANGED <<tree, dirVars, findVars, leaked, known>>

\* Reading takes no part in the bound on commands: it comes to an end.
ReadDirectory ==
  /\ levels # <<>>
  /\ \E r \in {ReadLevels(levels, whole.recursively)} :
       /\ levels' = r.levels
       /\ seen' = IF r.entry = <<>> THEN seen ELSE Append(seen, r.entry)
  /\ UNCHANGED <<tree, dirVars, findVars, whole, leaked, known, commands>>

\* Only the outermost directory is closed.
CloseDirectory ==
  /\ levels # <<>>
  /\ levels' = <<>> /\ leaked' = leaked + Len(levels) - 1
  /\ UNCHANGED <<tree, dirVars, findVars, seen, whole, known, commands>>

-----------------------------------------------------------------------------
(* A known folder is asked of the system until it is had, and kept. *)

GetFolder(f, answer) ==
  /\ Command
  /\ known' = IF known[f] = Unset THEN [known EXCEPT ![f] = answer] ELSE known
  /\ UNCHANGED <<tree, dirVars, findVars, walkVars>>

FolderInit ==
  /\ tree \in Trees
  /\ cwd \in tree.dirs /\ start = cwd /\ dirs = <<>> /\ entered = <<>> /\ leaves = <<>>
  /\ found = <<>> /\ uIndex = 0 /\ statOf = None /\ statKind = "none" /\ finds = <<>>
  /\ levels = <<>> /\ seen = <<>> /\ whole = [recursively |-> FALSE, entries |-> {}] /\ leaked = 0
  /\ known = [f \in Folders |-> Unset] /\ commands = 0

FolderNext ==
  \/ \E p \in {<<1, 2>>, <<2, 1, 1>>} : MakeDirectory(p)
  \/ DeleteFile
  \/ \E p \in {<<>>, <<1>>} : SetDir(p)
  \/ \E p \in {<<>>, <<1>>} : PushDir(p)
  \/ PopDir
  \/ FindFirst \/ FindNext \/ DoStat
  \/ \E recursively \in BOOLEAN : OpenDirectory(cwd, recursively)
  \/ ReadDirectory \/ CloseDirectory
  \/ \E f \in Folders, answer \in {Unset, <<1>>} : GetFolder(f, answer)

-----------------------------------------------------------------------------
(* FIND FIRST "opens the current working directory and sets the current     *)
(* entry to the first entry found" (File System.txt): one that succeeds is  *)
(* followed by the files of that directory, each once.  The code keeps what *)
(* an earlier one has found (FindFiles.cpp:98).                             *)
FoundAfresh == finds # <<>> /\ Last(finds).ok => IsInjective(found) /\ ToSet(found) = Last(finds).files

(* LEAVE DIR goes back to where the innermost directory that has not been   *)
(* left was entered from, and nowhere when there is none.  The code never   *)
(* takes anything off the stack (FileSystem.cpp:295).                       *)
DirsRetraced == \A i \in DOMAIN leaves : leaves[i].to = leaves[i].due

(* A Find First that succeeds misses no file; the first of all finds each  *)
(* once and nothing else; and what is known of the file that Find Next has  *)
(* come to is known of that file.                                           *)
EachFound ==
  /\ \A i \in DOMAIN finds : finds[i].ok => finds[i].files \subseteq ToSet(found)
  /\ Len(finds) = 1 => FoundAfresh
  /\ statOf # None => statOf = uIndex

(* Reading a directory gives no entry twice and none that is not in it, and *)
(* by its end every one: with all that is in it, the files of every         *)
(* directory that can be opened, however deep, and an unreadable directory  *)
(* costs no more than its own files.                                        *)
AllRead ==
  /\ IsInjective(seen) /\ ToSet(seen) \subseteq whole.entries
  /\ levels = <<<<>>>> => ToSet(seen) = whole.entries

(* The two forms of EnumFileTree agree where the first one succeeds; and a  *)
(* directory that was made is there, unless a file has its name.            *)
TreesAgree ==
  /\ EnumFileTree(cwd, 0).ok => ToSet(EnumFileTree(cwd, 0).files) = FileGraph(cwd)
  /\ \A p \in {<<1, 2>>, <<2, 1, 1>>} :
       LET r == MakeDirs(p) IN
       /\ r.errno = 0 => \A i \in 1 .. Len(p) - 1 : SubSeq(p, 1, i) \in r.tree.dirs
       /\ r.errno = 0 => p \in r.tree.dirs \cup tree.files
       /\ \A q \in r.tree.dirs : q = <<>> \/ Front(q) \in r.tree.dirs

(* The first LEAVE DIR goes back to where the last directory was entered    *)
(* from, and a program leaves the directory it is in as the one it was      *)
(* started in, whatever it has entered and left.                            *)
DirRestored ==
  /\ leaves # <<>> => leaves[1].to = leaves[1].due
  /\ dirs # <<>> => Restored = start

FoldersAgree == EachFound /\ AllRead /\ TreesAgree /\ DirRestored
=============================================================================
