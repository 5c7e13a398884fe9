------------------------------ MODULE Console -------------------------------
(***************************************************************************)
(* hxconsole: commands and variables by name, lines that call or set them, *)
(* and files of lines, which may execute files themselves.                 *)
(*                                                                         *)
(* A line is a name and the tokens behind it; a newline at its end stays   *)
(* in the line, as getline leaves it there.  A token is a number, a text   *)
(* (the path of a file or any word), or the # of a comment.  The C types   *)
(* have small ranges.                                                      *)
(***************************************************************************)
EXTENDS Integers, Sequences

CONSTANTS
  Symbol,        \* what may be registered
  Effect,        \* of each: "set" (a variable), "call" a function of numbers,
                 \* "fail" (a function that returns false), "exec", "boot" (a
                 \* function that executes BootPath), "drop" (one that
                 \* deregisters Dropped)
  Late,          \* the symbols that come and go; the others are static objects,
                 \* registered by their constructors before main
  Types,         \* of each: its parameter types, or the type of the variable
  BootPath, Dropped,
  Script,        \* of each path: its lines, and whether the last has a newline
  Typed          \* the lines that the program or its user types

VARIABLES
  commands,      \* the registered symbols
  value,         \* of each variable
  called,        \* the line that called or set something last, and the values
  frames,        \* the files that are being executed, the innermost last
  result,        \* of the line, or the file, that was executed last
  line,          \* history: that line
  failed         \* history: the typed line or one in its files failed

consoleVars == <<commands, value, called, frames, result, line, failed>>

Blank == "blank"
Long == -8..7
ULong == 0..15
TypeRange ==
  [bool |-> 0..1, i8 |-> -2..1, u8 |-> 0..3, i64 |-> Long, u64 |-> ULong]
IsSigned(type) == type \in {"bool", "i8", "i64"}

Token == [kind : {"number", "text", "comment"}, value : Int]
LineType == [symbol : Symbol \union {Blank}, tokens : Seq(Token)]
Nothing == [symbol |-> Blank, tokens |-> <<>>]

ConsoleAssumption ==
  /\ Effect \in [Symbol -> {"set", "call", "fail", "exec", "boot", "drop"}]
  /\ Types \in [Symbol -> Seq(DOMAIN TypeRange)]
  /\ \A s \in Symbol : Effect[s] = "set" => Len(Types[s]) = 1
  /\ Late \subseteq Symbol /\ Dropped \in Symbol /\ BootPath \in DOMAIN Script
  /\ \A p \in DOMAIN Script : Script[p].lines \in Seq(LineType)
  /\ Typed \subseteq LineType

ConsoleInit ==
  /\ commands = Symbol \ Late
  /\ value = [s \in {v \in Symbol : Effect[v] = "set"} |-> 0]
  /\ called = [line |-> Nothing, values |-> <<>>]
  /\ frames = <<>>
  /\ result = TRUE /\ line = Nothing /\ failed = FALSE

-----------------------------------------------------------------------------
hxconsole_is_end_of_line_(tokens) == tokens # <<>> => tokens[1].kind = "comment"

(* strtol and strtoul, wrapped: next_ moves on if a number is there, fits  *)
(* the type, and has no sign where none may be.                            *)
Strtol(token) ==
  [value |-> IF token.kind # "number" THEN 0
             ELSE IF token.value > 7 THEN 7 ELSE IF token.value < -8 THEN -8
             ELSE token.value,
   moved |-> token.kind = "number" /\ token.value \in Long]

Strtoul(token) ==
  IF token.kind = "number" /\ token.value >= 0
  THEN [value |-> IF token.value > 15 THEN 15 ELSE token.value,
        moved |-> token.value \in ULong]
  ELSE [value |-> 0, moved |-> FALSE]

(* static_cast to a type of fewer bits. *)
Cast(type, v) ==
  IF type = "bool" THEN IF v = 0 THEN 0 ELSE 1
  ELSE CHOOSE c \in TypeRange[type] :
         (c - v) % (CASE type \in {"i8", "u8"} -> 4 [] OTHER -> 16) = 0

(* Mutant of hxconsole_parse_arg_: any value is cast to the type. *)
ParseUnchecked(type, token) ==
  LET v == IF IsSigned(type) THEN Strtol(token) ELSE Strtoul(token)
  IN [value |-> Cast(type, v.value), moved |-> v.moved]

hxconsole_parse_arg_(type, token) ==
  LET v == IF IsSigned(type) THEN Strtol(token) ELSE Strtoul(token)
  IN [value |-> Cast(type, v.value),
      moved |-> v.moved /\ v.value \in TypeRange[type]]

(* call_: one argument after the other, and then the end of the line.      *)
Parses(types, tokens) ==
  /\ Len(tokens) >= Len(types)
  /\ \A i \in 1..Len(types) : hxconsole_parse_arg_(types[i], tokens[i]).moved
  /\ hxconsole_is_end_of_line_(SubSeq(tokens, Len(types) + 1, Len(tokens)))

Parsed(types, tokens) ==
  [i \in 1..Len(types) |-> hxconsole_parse_arg_(types[i], tokens[i]).value]

(* A text parameter takes all of the rest of the line, with its newline.   *)
NamesFile(tokens, newline) ==
  /\ Len(tokens) = 1 /\ ~newline
  /\ tokens[1].kind = "text" /\ tokens[1].value \in DOMAIN Script

-----------------------------------------------------------------------------
Finish(ok, stack) ==
  /\ frames' = stack
  /\ result' = ok
  /\ failed' = ((stack # <<>> /\ failed) \/ ~ok)

(* hxconsole_exec_filename, of a file that can be opened. *)
Start(path, stack) ==
  /\ frames' = Append(stack, [path |-> path, next |-> 1])
  /\ result' = TRUE
  /\ failed' = (stack # <<>> /\ failed)

Execute(s, l, newline, stack) ==
  LET tokens == l.tokens
      noArguments == hxconsole_is_end_of_line_(tokens)
      parses == Parses(Types[s], tokens)
      values == Parsed(Types[s], tokens)
      call == [line |-> l, values |-> values]
      same == UNCHANGED <<commands, value, called>>
  IN \/ /\ Effect[s] = "set"
        /\ parses => noArguments
        /\ Finish(noArguments, stack) /\ same
     \/ /\ Effect[s] = "set"
        /\ ~noArguments /\ parses
        /\ value' = [value EXCEPT ![s] = values[1]]
        /\ called' = call
        /\ Finish(TRUE, stack) /\ UNCHANGED commands
     \/ /\ Effect[s] = "call" /\ parses
        /\ called' = call
        /\ Finish(TRUE, stack) /\ UNCHANGED <<commands, value>>
     \/ /\ \/ Effect[s] = "fail"
           \/ Effect[s] \in {"call", "boot", "drop"} /\ ~parses
        /\ Finish(FALSE, stack) /\ same
     \/ /\ Effect[s] = "drop" /\ parses
        /\ commands' = commands \ {Dropped}
        /\ Finish(TRUE, stack) /\ UNCHANGED <<value, called>>
     \/ Effect[s] = "boot" /\ parses /\ Start(BootPath, stack) /\ same
     \/ /\ Effect[s] = "exec" /\ same
        /\ IF NamesFile(tokens, newline) THEN Start(tokens[1].value, stack)
           ELSE Finish(FALSE, stack)

(* A blank line succeeds, an unknown command fails. *)
hxconsole_exec_line(l, newline, stack) ==
  /\ line' = l
  /\ \/ /\ l.symbol = Blank \/ l.symbol \notin commands
        /\ Finish(l.symbol = Blank, stack)
        /\ UNCHANGED <<commands, value, called>>
     \/ /\ l.symbol \in commands
        /\ Execute(l.symbol, l, newline, stack)

Top == frames[Len(frames)]
Below == SubSeq(frames, 1, Len(frames) - 1)

(* Mutant of HasNext: a file is executed to its end whatever its lines return. *)
HasNextAlways == Top.next <= Len(Script[Top.path].lines)

(* hxconsole_exec_file goes on while lines are left and none failed. *)
HasNext == result /\ Top.next <= Len(Script[Top.path].lines)

NextLine ==
  LET script == Script[Top.path]
  IN /\ frames # <<>>
     /\ HasNext
     /\ hxconsole_exec_line(script.lines[Top.next],
                            Top.next < Len(script.lines) \/ script.newline,
                            Append(Below, [Top EXCEPT !.next = @ + 1]))

(* The result of the file is that of the line that executed it. *)
EndFile ==
  /\ frames # <<>>
  /\ ~HasNext
  /\ frames' = Below
  /\ UNCHANGED <<commands, value, called, result, line, failed>>

(* A line from outside of any file, which has no newline. *)
TypeLine(l) ==
  /\ frames = <<>>
  /\ hxconsole_exec_line(l, FALSE, <<>>)

(* A constructor registers; there is no name twice. *)
hxconsole_register_(s) ==
  /\ frames = <<>>
  /\ s \notin commands
  /\ commands' = commands \union {s}
  /\ line' = Nothing
  /\ UNCHANGED <<value, called, frames, result, failed>>

hxconsole_deregister(s) ==
  /\ frames = <<>>
  /\ commands' = commands \ {s}
  /\ line' = Nothing
  /\ UNCHANGED <<value, called, frames, result, failed>>

ConsoleNext ==
  \/ NextLine
  \/ EndFile
  \/ \E l \in Typed : TypeLine(l)
  \/ \E s \in Late : hxconsole_register_(s) \/ hxconsole_deregister(s)

-----------------------------------------------------------------------------
(* The values every variable may take. *)
ConsoleTypeOK ==
  /\ commands \subseteq Symbol
  /\ \A s \in DOMAIN value : value[s] \in TypeRange[Types[s][1]]
  /\ \A i \in 1..Len(frames) :
       /\ frames[i].path \in DOMAIN Script
       /\ frames[i].next \in 1..(Len(Script[frames[i].path].lines) + 1)
  /\ result \in BOOLEAN /\ failed \in BOOLEAN

(* A function or variable gets exactly the numbers of its line, each of    *)
(* which fits its type, and there are no others in front of a comment.     *)
ArgumentsExact ==
  LET tokens == called.line.tokens
      count == Len(called.values)
  IN called.line # Nothing =>
       /\ count = Len(Types[called.line.symbol])
       /\ \A i \in 1..count :
            /\ tokens[i] = [kind |-> "number", value |-> called.values[i]]
            /\ called.values[i] \in TypeRange[Types[called.line.symbol][i]]
       /\ Len(tokens) = count \/ tokens[count + 1].kind = "comment"

(* After a line failed, no other line runs in any of the files that are    *)
(* being executed; a file that ends without a failure has been read to the *)
(* end; and the line typed by the user fails if and only if one failed.    *)
FailureStep ==
  /\ failed /\ frames # <<>> => UNCHANGED <<commands, value, called, line>>
  /\ ~failed /\ Len(frames') < Len(frames) =>
       Top.next > Len(Script[Top.path].lines)
  /\ frames # <<>> /\ frames' = <<>> => (result' <=> ~failed')

(* The line "exec <filename>" executes the file, in files as elsewhere.    *)
ExecFindsFile ==
  /\ line.symbol \in commands
  /\ Effect[line.symbol] = "exec"
  /\ NamesFile(line.tokens, FALSE)
  => result

=============================================================================
