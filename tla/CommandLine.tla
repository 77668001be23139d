---------------------------- MODULE CommandLine -----------------------------
(***************************************************************************)
(* Windows gives a process one string, not a list of arguments.            *)
(* process/command_line.cpp writes the list so that the reader of the      *)
(* child finds the same list in it.  A text is a sequence of characters.   *)
(***************************************************************************)
EXTENDS Integers, SequencesExt

Quote == "\""
Backslash == "\\"
Space == " "

Repeat(char, n) == [i \in 1 .. n |-> char]

\* A vertical tab counts too; TLA+ has no character for it.
NeedsQuoting(arg) == arg = <<>> \/ \E c \in {Space, "\t", "\n", Quote} : Contains(arg, c)

\* Mutant of QuoteChar: the backslashes before a quote are written once.
QuoteCharOnce(state, char) ==
  IF char = Backslash THEN [state EXCEPT !.slashes = @ + 1]
  ELSE [out |-> state.out \o Repeat(Backslash, state.slashes)
                  \o (IF char = Quote THEN <<Backslash>> ELSE <<>>) \o <<char>>,
        slashes |-> 0]

\* Backslashes count double before a quote, and only there.
QuoteChar(state, char) ==
  IF char = Backslash THEN [state EXCEPT !.slashes = @ + 1]
  ELSE [out |-> state.out
                  \o (IF char = Quote THEN Repeat(Backslash, 2 * state.slashes + 1)
                      ELSE Repeat(Backslash, state.slashes)) \o <<char>>,
        slashes |-> 0]

\* What the loop has written, and the backslashes it holds back, after each character.
Quoting(arg) ==
  LET state[n \in 0 .. Len(arg)] ==
        IF n = 0 THEN [out |-> <<>>, slashes |-> 0] ELSE QuoteChar(state[n - 1], arg[n])
  IN state

QuoteArgument(arg) ==
  LET body == Quoting(arg)[Len(arg)]
  IN IF ~NeedsQuoting(arg) THEN arg
     ELSE <<Quote>> \o body.out \o Repeat(Backslash, 2 * body.slashes) \o <<Quote>>

\* The command line after each argument.
Lines(argv) ==
  LET line[n \in 1 .. Len(argv)] ==
        IF n = 1 THEN QuoteArgument(argv[n]) ELSE line[n - 1] \o <<Space>> \o QuoteArgument(argv[n])
  IN line

BuildCommandLine(argv) == Lines(argv)[Len(argv)]

-----------------------------------------------------------------------------
(* The reader in the child's C runtime.                                     *)

\* The reader between two arguments.
Between(args) == [args |-> args, arg |-> <<>>, slashes |-> 0, quoted |-> FALSE, started |-> FALSE]

ReadChar(state, char) ==
  LET kept == state.arg \o Repeat(Backslash, state.slashes)
  IN CASE char = Backslash -> [state EXCEPT !.slashes = @ + 1, !.started = TRUE]
       [] char = Quote ->
            LET half == state.arg \o Repeat(Backslash, state.slashes \div 2)
                literal == state.slashes % 2 = 1
            IN [state EXCEPT !.arg = IF literal THEN half \o <<Quote>> ELSE half,
                             !.quoted = IF literal THEN @ ELSE ~@,
                             !.slashes = 0, !.started = TRUE]
       [] char \in {Space, "\t"} /\ ~state.quoted ->
            Between(IF state.started THEN Append(state.args, kept) ELSE state.args)
       [] OTHER -> [state EXCEPT !.arg = Append(kept, char), !.slashes = 0, !.started = TRUE]

\* The reader after each character of a text.
Reading(start, text) ==
  LET state[n \in 0 .. Len(text)] ==
        IF n = 0 THEN start ELSE ReadChar(state[n - 1], text[n])
  IN state

ReadCommandLine(line) ==
  LET text == Append(line, Space)
  IN Reading(Between(<<>>), text)[Len(text)].args
=============================================================================
