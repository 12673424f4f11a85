----------------------------- MODULE CommandFiles -----------------------------
(***************************************************************************)
(* The commands of a plug-in, read line by line from its text              *)
(* (MModules::LoadFromText, Module.cpp).                                   *)
(***************************************************************************)
EXTENDS BuiltinTypes

\* Names after "?" that hold for the target.
CONSTANT TargetConditions

VARIABLES
  commandLines,  \* the lines that are left
  linesRead,     \* those read that were not ignored
  ignoring,      \* bIgnoring
  directives,    \* the directives that were given a name
  overloads,     \* of all the commands of the module, in the order they were added
  keywords       \* the commands that the lexer was told of

commandVars == <<commandLines, linesRead, ignoring, directives, overloads, keywords>>

\* A line that declares a command: "name[%pattern%symbol", or "name%pattern%symbol".
Command(name, returns, pattern, symbol) ==
  [is |-> "command", name |-> name, returns |-> returns, pattern |-> pattern, symbol |-> symbol]

LoadsText(lines) ==
  /\ commandLines = lines
  /\ linesRead = <<>> /\ ignoring = FALSE /\ directives = <<>> /\ overloads = <<>> /\ keywords = {}

Reads(line) ==
  /\ commandLines # <<>>
  /\ line = Head(commandLines)
  /\ commandLines' = Tail(commandLines)

\* "?", and "?name": the last of them decides.
Conditional(line) ==
  /\ Reads(line)
  /\ line.is = "?"
  /\ ignoring' = (line.name \notin TargetConditions \cup {""})
  /\ UNCHANGED <<linesRead, directives, overloads, keywords>>

Ignore(line) ==
  /\ Reads(line)
  /\ line.is # "?" /\ ignoring
  /\ UNCHANGED <<linesRead, ignoring, directives, overloads, keywords>>

\* ".fn-init name" and its like take one name, once.  Of .name and .object the last counts.
Directive(line) ==
  /\ Reads(line)
  /\ line.is = "directive" /\ ~ignoring
  /\ directives' = IF line.name = "fn-init" /\ "fn-init" \in DOMAIN directives THEN directives
                   ELSE line.name :> line.value @@ directives
  /\ linesRead' = Append(linesRead, line)
  /\ UNCHANGED <<ignoring, overloads, keywords>>


\* How many characters of a pattern are the type that the command returns.
ReturnLength(pattern) ==
  LET first == Start(pattern, 1) IN
  CASE first \in {"I", "U"} -> 2
    [] first = "V" -> 3
    [] first = "E" -> 4
    [] OTHER -> 1

\* The overload is in the list, and counts for conflicts by the pattern it has so
\* far, before its patterns are parsed.
OverloadOf(line, pattern, params, ret) ==
  [command |-> line.name, pattern |-> IF params.ok THEN pattern ELSE "", params |-> params.members,
   ret |-> IF params.ok /\ ret.ok THEN ret.member.type ELSE "Invalid",
   symbol |-> IF params.ok /\ ret.ok THEN line.symbol ELSE ""]
Overload(line, length) ==
  OverloadOf(line, Skipped(line.pattern, length), ParseTypePattern(Skipped(line.pattern, length)),
             ParseReturn(Start(line.pattern, length)))

\* Too short for the type that it is to return, or there already.
Conflicts(line, length) ==
  \/ length > 1 /\ Len(line.pattern) < length
  \/ \E o \in Range(overloads) :
       o.command = line.name /\ o.pattern = Skipped(line.pattern, length)

DeclareCommand(line) ==
  /\ Reads(line)
  /\ line.is = "command" /\ ~ignoring
  /\ linesRead' = Append(linesRead, line)
  /\ \E length \in {IF line.returns THEN ReturnLength(line.pattern) ELSE 0} :
       IF Conflicts(line, length) THEN UNCHANGED <<overloads, keywords>>
       ELSE \E overload \in {Overload(line, length)} :
            /\ overloads' = Append(overloads, overload)
            /\ keywords' = IF overload.symbol # "" THEN keywords \cup {line.name} ELSE keywords
  /\ UNCHANGED <<ignoring, directives>>

CommandsNext ==
  \E line \in Range(commandLines) :
    Conditional(line) \/ Ignore(line) \/ Directive(line) \/ DeclareCommand(line)

-----------------------------------------------------------------------------
\* Declarations that are left half-made, or are read otherwise than the pattern is:
\* one that does not parse, one whose return type has two characters that start
\* with "#", or a modifier, and "0", which does not say that there are no parameters:
\* it is one, of type Void.
Declared(line) == ParseTypePattern(line.pattern)
Readable(line) ==
  /\ Declared(line).ok
  /\ \A i \in DOMAIN Declared(line).members : i > 1 \/ ~line.returns => Declared(line).members[i].type # "Void"
  /\ line.returns =>
       /\ Start(line.pattern, 1) # "#"
       /\ Start(Skipped(line.pattern, ReturnLength(line.pattern)), 1)
            \notin {"<", ">", "*", "~", "+", "?"}
SignatureOf(o) == <<o.ret>> \o [i \in DOMAIN o.params |-> o.params[i].type]
DeclaredSignature(line) ==
  LET types == [i \in DOMAIN Declared(line).members |-> Declared(line).members[i].type]
  IN IF line.returns /\ types # <<>> THEN types ELSE <<"Void">> \o types

\* If every command that was read is readable then each overload has the types that
\* the whole of some line's pattern declares, and every line has an overload with
\* its parameters, of a command that the lexer knows.  The parameters of every
\* overload, half-made or not, are those that the pattern written for them declares,
\* one after the other.
CommandsAsDeclared ==
  LET commands == {line \in Range(linesRead) : line.is = "command"} IN
  /\ (\A line \in commands : Readable(line)) =>
       /\ \A o \in Range(overloads) :
            /\ \E line \in commands : line.name = o.command /\ line.symbol = o.symbol
                                        /\ SignatureOf(o) = DeclaredSignature(line)
            /\ "Void" \notin Range(Tail(SignatureOf(o)))
       /\ \A line \in commands :
            \E o \in Range(overloads) : o.command = line.name /\ o.command \in keywords
                                          /\ Tail(SignatureOf(o)) = Tail(DeclaredSignature(line))
  /\ \A o \in Range(overloads) :
       /\ ParseTypePattern(GetTypePattern(o.params)) = [ok |-> TRUE, members |-> o.params]
       /\ \A i \in 2 .. Len(o.params) :
            Offsets(o.params)[i - 1] + TypeSize(o.params[i - 1].type) <= Offsets(o.params)[i]
=============================================================================
