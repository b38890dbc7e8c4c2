------------------------------ MODULE ImageArg ------------------------------
(***************************************************************************)
(* Which image a command line is about: the subcommand and findImageArg of *)
(* cli.cpp, and what the container runtime makes of the line it is given   *)
(* (external): buildArgv0Cmd joins the words, and a shell takes the result *)
(* apart again.                                                            *)
(*                                                                         *)
(* A command line is the nonempty words after the program's name.  The     *)
(* parser sees no more of a word than the sets below: whether it starts    *)
(* with '-', has a '=' in it, or is in the table of flagTakesValue.        *)
(***************************************************************************)
EXTENDS Integers, SequencesExt

CONSTANTS
  Flag,             \* the words that start with '-'
  Assigned,         \* the flags with a '=' in them
  TakesValue,       \* the flags in kFlags
  RunTakesValue,    \* the flags whose value is the runtime's next word in a "run",
  GlobalTakesValue, \*   and before the command
  Group,            \* the runtime's words before a command: container, image
  Parts             \* word -> the words the shell makes of it, unquoted

Subcommands == {"run", "build", "pull"}
NoImage == ""

ASSUME ImageArgAssumption == Flag \cap Subcommands = {}

\* main: the first word that is the name of a subcommand.
Subcommand(line) ==
  LET at == {i \in DOMAIN line : line[i] \in Subcommands}
  IN  IF at = {} THEN "" ELSE line[Min(at)]

\* findImageArg's inner loop, from word j on.
\* (Mutant: a flag's value is taken for the image.)
PositionalNaive(line) ==
  [j \in 1 .. Len(line) + 1 |->
     LET words == {k \in j .. Len(line) : line[k] \notin Flag}
     IN  IF words = {} THEN NoImage ELSE line[Min(words)]]

Positional(line) ==
  LET from[j \in 1 .. Len(line) + 1] ==
        IF j > Len(line) THEN NoImage
        ELSE IF line[j] \notin Flag THEN line[j]
        ELSE IF line[j] \in TakesValue \ Assigned /\ j < Len(line) THEN from[j + 2]
        ELSE from[j + 1]
  IN  from

\* Its outer loop: the first subcommand word that has an image after it.
FindImageArg(line) ==
  LET at == {i \in DOMAIN line : /\ line[i] \in Subcommands
                                 /\ Positional(line)[i + 1] # NoImage}
  IN  IF at = {} THEN NoImage ELSE Positional(line)[Min(at) + 1]

-----------------------------------------------------------------------------
\* The runtime's reading of a line (external).  The command is the first word that
\* is no flag, no flag's value and no group; Len(line) + 1 stands for none.
CommandAt(line) ==
  LET from[j \in 1 .. Len(line) + 1] ==
        IF j > Len(line) THEN j
        ELSE IF line[j] \in GlobalTakesValue \ Assigned /\ j < Len(line) THEN from[j + 2]
        ELSE IF line[j] \in Flag \cup Group THEN from[j + 1]
        ELSE j
  IN  from[1]

\* After a command at c, word k is the image if the words between are flags and
\* the values of flags.
IsImage(line, c, k) ==
  /\ line[k] \notin Flag
  /\ \E flags \in SUBSET (c + 1 .. k - 1) :
       /\ \A j \in flags : line[j] \in Flag
       /\ \A j \in c + 1 .. k :
            j \in flags <=> ~ \/ j = k
                              \/ j - 1 \in flags /\ line[j - 1] \in RunTakesValue \ Assigned
       /\ k - 1 \in flags => line[k - 1] \notin RunTakesValue \ Assigned

RuntimeImage(line) ==
  LET c  == CommandAt(line)
      at == {k \in DOMAIN line : c < k /\ IsImage(line, c, k)}
  IN  IF c \in DOMAIN line /\ line[c] \in {"run", "pull"} /\ at # {}
      THEN line[Min(at)] ELSE NoImage

\* buildArgv0Cmd puts blanks between the words and quotes none of them.
ShellLine(line) == FlattenSeq([k \in DOMAIN line |-> Parts[line[k]]])

\* Both sides agree on which flags take a value and on what the words are, and if
\* the shim finds a subcommand it is the runtime's command.
Agreed(line) ==
  /\ \A j \in DOMAIN line : /\ line[j] \in TakesValue <=> line[j] \in RunTakesValue
                            /\ Parts[line[j]] = <<line[j]>>
  /\ \A c \in DOMAIN line :
       /\ line[c] \in Subcommands
       /\ \A j \in 1 .. c - 1 : line[j] \notin Subcommands
       => c = CommandAt(line)
=============================================================================
