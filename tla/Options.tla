------------------------------- MODULE Options -------------------------------
(***************************************************************************)
(* The command line (main.c:275-645): options are read from left to right, *)
(* single letters also in groups, and some take the arguments behind them; *)
(* then combinations that make no sense are refused.                       *)
(*                                                                         *)
(* An argument is [dashes |-> 0, 1 or 2, text]: its leading dashes, and    *)
(* what is behind: a sequence of letters after one dash, else a name.      *)
(* Numbers and names are values of their own.  A configuration is the      *)
(* record of main's variables; `exit' is the status main ended with, or    *)
(* "no".                                                                   *)
(***************************************************************************)
EXTENDS Integers, Sequences, FiniteSets

CONSTANTS
    Unset,     \* a null pointer
    OnionNames, \* arguments of the length of a hostname
    Passphrase \* the environment variable PASSPHRASE

Defaults == [
    outfile |-> Unset, outfileoverwrite |-> FALSE, fout |-> TRUE,
    infile |-> Unset, onehostname |-> Unset, workdir |-> Unset,
    dirnameflag |-> FALSE, numthreads |-> 0, numneedgenerate |-> 0, numwords |-> 1,
    wantdedup |-> FALSE, quietflag |-> 0, verboseflag |-> FALSE,
    reportdelay |-> 0, realtimestats |-> TRUE,
    yamlinput |-> FALSE, yamloutput |-> FALSE, yamlraw |-> FALSE,
    deterministic |-> Unset, checkpointfile |-> Unset,
    pw_skipnear |-> FALSE, pw_warnnear |-> FALSE, use_cuda |-> FALSE,
    filters |-> <<>>, exit |-> "no"]

Exit(c, status) == [c EXCEPT !.exit = status]

\* Names behind two dashes.  checkpoint takes an argument and is below.
LongOption(c, name) ==
    CASE name \in {"help", "usage", "version"} -> Exit(c, "0")
      [] name = "rawyaml" -> [c EXCEPT !.yamlraw = TRUE]
      [] name = "cuda" -> [c EXCEPT !.use_cuda = TRUE]
      [] name = "skipnear" -> [c EXCEPT !.pw_skipnear = TRUE, !.pw_warnnear = FALSE]
      [] name = "warnnear" -> [c EXCEPT !.pw_warnnear = TRUE, !.pw_skipnear = FALSE]
      [] OTHER -> Exit(c, "1")

\* Mutant of Silent: -x also forgets a file named before.
SilentForgetsFile(c) == [c EXCEPT !.fout = FALSE, !.outfile = Unset]

\* -x: no names on stdout.  A file of -o or -O replaces stdout after the loop.
Silent(c) == [c EXCEPT !.fout = FALSE]

\* Letters that take no argument.  Z, z and B change nothing.
ShortOption(c, letter) ==
    CASE letter \in {"h", "V"} -> Exit(c, "0")
      [] letter = "D" -> [c EXCEPT !.wantdedup = TRUE]
      [] letter = "q" -> [c EXCEPT !.quietflag = @ + 1]
      [] letter = "x" -> Silent(c)
      [] letter = "v" -> [c EXCEPT !.verboseflag = TRUE]
      [] letter = "F" -> [c EXCEPT !.dirnameflag = TRUE]
      [] letter \in {"Z", "z", "B"} -> c
      [] letter = "s" -> [c EXCEPT !.reportdelay = 10000000]
      [] letter = "T" -> [c EXCEPT !.realtimestats = FALSE]
      [] letter = "y" -> [c EXCEPT !.yamloutput = TRUE]
      [] letter = "P" -> IF Passphrase = Unset THEN Exit(c, "1")
                         ELSE [c EXCEPT !.deterministic = Passphrase]
      [] OTHER -> Exit(c, "1")

\* Letters, and the name checkpoint, that take the argument v: for -f the lines
\* of the file, or Unset when it cannot be opened.
ArgOption(c, option, v) ==
    CASE option = "f" -> IF v = Unset THEN Exit(c, "1")
                         ELSE [c EXCEPT !.filters = Append(@, [lines |-> v])]
      [] option = "o" -> [c EXCEPT !.outfile = v, !.outfileoverwrite = FALSE]
      [] option = "O" -> [c EXCEPT !.outfile = v, !.outfileoverwrite = TRUE]
      [] option = "d" -> [c EXCEPT !.workdir = IF v = "" THEN Unset ELSE v]
      [] option \in {"t", "j"} -> [c EXCEPT !.numthreads = v]
      [] option = "n" -> [c EXCEPT !.numneedgenerate = v]
      [] option = "N" -> [c EXCEPT !.numwords = v]
      [] option = "S" -> [c EXCEPT !.reportdelay = v * 1000000]
      [] option = "p" -> [c EXCEPT !.deterministic = v]
      [] option = "checkpoint" -> [c EXCEPT !.checkpointfile = v]
TakesArgument == {"f", "o", "O", "d", "t", "j", "n", "N", "S", "p", "checkpoint"}

\* -Y takes a file and a hostname when there are arguments left, whatever
\* they look like; an empty one stands for none.
Given(arg) == IF arg.dashes = 0 /\ arg.text = "" THEN Unset ELSE arg.text
YamlInput(c, rest) ==
    LET d == [c EXCEPT !.yamlinput = TRUE,
                       !.infile = IF Len(rest) >= 1 THEN Given(rest[1]) ELSE @,
                       !.onehostname = IF Len(rest) >= 2 THEN Given(rest[2]) ELSE @]
    IN  IF Len(rest) >= 2 /\ d.onehostname \notin OnionNames \cup {Unset}
        THEN Exit(d, "1") ELSE d

\* A filter that begins with a dash is as good as an empty one: not accepted.
\* One turn of the loop: s has the configuration so far (c), the arguments not
\* read yet (rest), the letters left of a group (group), and ignoreargs.
TakeArgument(s, option) ==
    IF s.rest = <<>> THEN [s EXCEPT !.c = Exit(@, "1")]
    ELSE [s EXCEPT !.c = ArgOption(@, option, s.rest[1].text), !.rest = Tail(@)]

Letter(s, letter) ==
    IF letter \in TakesArgument THEN TakeArgument(s, letter)
    ELSE IF letter # "Y" THEN [s EXCEPT !.c = ShortOption(@, letter)]
    ELSE [s EXCEPT !.c = YamlInput(@, s.rest),
                   !.rest = IF Len(@) <= 2 THEN <<>> ELSE SubSeq(@, 3, Len(@))]

Turn(s) ==
    LET arg == s.rest[1]
        r == [s EXCEPT !.rest = Tail(@)]
    IN  IF s.c.exit # "no" THEN s
        ELSE IF s.group # <<>> THEN Letter([s EXCEPT !.group = Tail(@)], s.group[1])
        ELSE IF s.rest = <<>> THEN s
        ELSE IF s.ignoreargs \/ arg.dashes = 0
        THEN [r EXCEPT !.c.filters = Append(@, [text |-> IF arg.dashes = 0 THEN arg.text ELSE <<>>])]
        ELSE IF IF arg.dashes = 1 THEN arg.text = <<>> ELSE arg.text = ""
        THEN [r EXCEPT !.ignoreargs = TRUE]
        ELSE IF arg.dashes = 1 THEN [r EXCEPT !.group = arg.text]
        ELSE IF arg.text = "checkpoint" THEN TakeArgument(r, "checkpoint")
        ELSE [r EXCEPT !.c = LongOption(@, arg.text)]

\* Every turn takes an argument or a letter; a group has three at most.
Parse(argv) ==
    LET after[n \in 0 .. 4 * Len(argv)] ==
            IF n = 0 THEN [c |-> Defaults, rest |-> argv, group |-> <<>>, ignoreargs |-> FALSE]
            ELSE Turn(after[n - 1])
    IN  after[4 * Len(argv)].c

\* What main refuses once all options are known.
Refused(c) ==
    \/ c.yamlinput /\ c.yamloutput
    \/ c.yamlraw /\ ~c.yamlinput /\ ~c.yamloutput
    \/ c.use_cuda /\ (c.deterministic # Unset \/ c.numwords > 1)
    \/ c.checkpointfile # Unset /\ c.deterministic = Unset
    \/ c.outfile = Unset /\ ~c.fout /\ c.yamloutput

\* What the program goes on to do: "extract" keys from YAML, "search" for them
\* with threads or "device", if then there are filters to look for.
Mode(c) ==
    CASE c.exit # "no" -> "exit"
      [] c.exit = "no" /\ Refused(c) -> "exit"
      [] c.exit = "no" /\ ~Refused(c) ->
           IF c.yamlinput THEN "extract"
           ELSE IF c.use_cuda THEN "device" ELSE "search"

\* -t or the number of processors, and one thread when neither is known.
Threads(c, cpucount) ==
    IF c.numthreads > 0 THEN c.numthreads ELSE IF cpucount > 0 THEN cpucount ELSE 1
=============================================================================
