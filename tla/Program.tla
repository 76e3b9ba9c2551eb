------------------------------ MODULE Program ------------------------------
(***************************************************************************)
(* Runs of the program, one after the other, on one output file: what the  *)
(* command line asks for (Options), a search that writes records with -y   *)
(* (YamlFile) or reports statistics (Statistics), and the extraction of    *)
(* keys with -Y from the file of an earlier run or from one made by hand.  *)
(* A search first makes its filters (Filters), and then looks for them in  *)
(* every key.                                                              *)
(*                                                                         *)
(* The output of keys as directories is the subject of WorkerPool, the     *)
(* search on the device that of CudaWorker: here such a run just ends.     *)
(***************************************************************************)
EXTENDS Options, YamlFile, Statistics, Filters

CONSTANTS
    CommandLines, \* what is typed: sequences of options with their arguments; -Y
                  \* does not print the names it finds to OutFile
    Builds,       \* how the program was configured: kind of filter, binary search
    OutFile,      \* the name of the output file that is modelled
    DeviceFilters, \* 4096, the filters the device has room for
    MaxRuns       \* bound: runs of the program; after the first one they read or
                  \* write OutFile

\* What is typed is a finite list of options, each a finite list of arguments.
\* The letters behind one dash are a list as well; arguments that stand for
\* filters, and the lines of a file, are texts: sequences of characters.
IsList(s) == Len(s) \in Nat /\ s = [i \in 1 .. Len(s) |-> s[i]]
IsCommandLine(line) ==
    /\ IsList(line)
    /\ \A i \in DOMAIN line :
          /\ IsList(line[i])
          /\ \A j \in DOMAIN line[i] :
                /\ line[i][j].dashes \in 0 .. 2
                /\ line[i][j].dashes = 1 => IsList(line[i][j].text)
TextArguments == [text : Seq(SUBSET Int)] \cup [lines : Seq(Seq(SUBSET Int))]
ASSUME ProgramAssumption ==
    /\ \A line \in CommandLines :
          IsCommandLine(line) /\ Parse(FlattenSeq(line)).filters \in Seq(TextArguments)
    /\ DeviceFilters \in Nat
    /\ Builds \subseteq [kind : {"bin", "int", "omit"}, binsearch : BOOLEAN]

VARIABLES
    stage,   \* "shell", "search", "extract", "exit"
    c,       \* the configuration of this run
    typed,   \* its command line
    build,   \* the build that runs, and its table of filters
    table,
    runs

progVars == <<stage, c, typed, build, table, runs>>
vars == <<progVars, yamlVars, statVars>>

Init ==
    /\ stage = "shell" /\ c = Defaults /\ typed = <<>> /\ runs = 0
    /\ build = None /\ table = EmptyTable
    /\ YamlInit /\ StatInit

-----------------------------------------------------------------------------

\* The output: a file of -o or -O, else stdout unless -x was given.
Output(d) == IF d.outfile # Unset THEN <<d.outfile, d.outfileoverwrite>>
             ELSE IF d.fout THEN <<"stdout", FALSE>> ELSE <<"none", FALSE>>

\* fopen of the output, "a" or "w", before anything else is done.
OpenOutput(d) ==
    IF d.outfile = OutFile /\ d.outfileoverwrite /\ d.exit = "no" /\ ~Refused(d)
    THEN file' = <<>> /\ noNewline' = FALSE /\ written' = <<>> /\ cut' = 0
    ELSE UNCHANGED <<file, noNewline, written, cut>>

\* yamlin_parseandcreate begins.
StartReader(d) ==
    /\ rpc' = "read"
    /\ unread' = IF d.infile = OutFile THEN file' ELSE Hand
    /\ flags' = {} /\ skipthis' = FALSE
    /\ name' = NoKey /\ pub' = NoKey /\ sec' = NoKey
    /\ ret' = 0 /\ seen' = {} /\ made' = {} /\ failed' = FALSE

\* filters_add for each filter and loadfilterfile for each file, then
\* filters_prepare.
Prepared(b, d) ==
    LET after[n \in 0 .. Len(d.filters)] ==
            IF n = 0 THEN EmptyTable
            ELSE LET f == d.filters[n]
                 IN  IF "lines" \in DOMAIN f THEN loadfilterfile(b.kind, after[n - 1], f.lines)
                     ELSE filters_add(b.kind, after[n - 1], f.text)
    IN  filters_prepare(b.kind, after[Len(d.filters)], d.wantdedup)

\* main ends before it searches when no filter is left, unless it is to report
\* (filters_count), or when there are too many for the device (cuda_set_filters).
NotSearched(d, t) ==
    \/ t.vec = <<>> /\ d.reportdelay = 0
    \/ d.use_cuda /\ Len(t.vec) > DeviceFilters

\* A run that searches.  Different builds are looked at in the runs that neither
\* write records nor report.
JustSearches(d) == ~d.yamloutput /\ d.reportdelay = 0
StartSearch(d) ==
    /\ \E b \in Builds :
         /\ ~JustSearches(d) => b = CHOOSE first \in Builds : TRUE
         /\ build' = b /\ table' = Prepared(b, d)
    /\ stage' = IF NotSearched(d, table') THEN "exit" ELSE "search"
    /\ StatStart(d.realtimestats)
    /\ UNCHANGED inVars

Run(line) ==
    LET d == Parse(FlattenSeq(line))
    IN  /\ stage = "shell" /\ runs < MaxRuns
        /\ runs > 0 => OutFile \in {d.infile, d.outfile}
        /\ typed' = line /\ runs' = runs + 1 /\ c' = d
        /\ OpenOutput(d)
        /\ UNCHANGED <<wpc, wtime, wstamp, tmLock, tm, stampsWrong>>
        /\ CASE Mode(d) \in {"search", "device"} ->
                  StartSearch(d)
             [] Mode(d) = "extract" ->
                  stage' = "extract" /\ StartReader(d) /\ UNCHANGED <<build, table, statVars>>
             [] OTHER -> stage' = "exit" /\ UNCHANGED <<build, table, inVars, statVars>>

\* The workers write to the output if -y sends them there, and count for main
\* if it reports.
Searching == stage = "search" /\ ~c.use_cuda
Writer(w) ==
    /\ Searching /\ c.yamloutput /\ Output(c)[1] = OutFile
    /\ \/ Begin(w) \/ Gmtime(w) \/ Strftime(w)
       \/ \E key \in Keys : Write(w, key, c.yamlraw) \/ WriteCut(w, key, c.yamlraw)
    /\ UNCHANGED <<progVars, statVars>>

Report ==
    /\ Searching /\ c.reportdelay > 0
    /\ (\E w \in Counting, k \in Kinds : Count(w, k)) \/ Tick \/ Look
    /\ UNCHANGED <<progVars, yamlVars>>

\* The process ends.
Ends == stage' = "shell" /\ c' = Defaults /\ typed' = <<>>
        /\ build' = None /\ table' = EmptyTable /\ UNCHANGED runs

\* A search ends when its workers have come to their end, or is killed between
\* any two steps; the records in their hands are lost.
EndSearch ==
    /\ stage = "search"
    /\ Ends
    /\ wpc' = [w \in Writers |-> "idle"] /\ tmLock' = NoOne /\ tm' = NoKey
    /\ wtime' = [w \in Writers |-> NoKey] /\ wstamp' = wtime'
    /\ StatStart(TRUE)
    /\ UNCHANGED <<file, noNewline, written, cut, stampsWrong, inVars>>

\* A hostname that was not given is looked for in no record.
OneHostname == IF c.onehostname = Unset THEN NoKey ELSE c.onehostname

Extract ==
    /\ stage = "extract"
    /\ \/ ReadLine(c.yamlraw, OneHostname)
       \/ Create(OneHostname) \/ CreateFails
       \/ EndOfInput(OneHostname) \/ ReadError
    /\ UNCHANGED <<progVars, statVars>>

EndExtract ==
    /\ stage = "extract" /\ rpc = "ended"
    /\ Ends
    /\ rpc' = "off" /\ unread' = <<>> /\ flags' = {} /\ skipthis' = FALSE
    /\ name' = NoKey /\ pub' = NoKey /\ sec' = NoKey
    /\ ret' = 0 /\ seen' = {} /\ made' = {} /\ failed' = FALSE
    /\ UNCHANGED <<outVars, statVars>>

EndOther == stage = "exit" /\ Ends /\ UNCHANGED <<yamlVars, statVars>>

Next ==
    \/ \E line \in CommandLines : Run(line)
    \/ \E w \in Writers : Writer(w)
    \/ Report \/ EndSearch \/ Extract \/ EndExtract \/ EndOther

Spec == Init /\ [][Next]_vars

-----------------------------------------------------------------------------

\* An option with all the arguments it takes.  A group has three letters at most,
\* as in Parse, and `--' is not an option.
Takes(letter) == IF letter \in TakesArgument THEN 1 ELSE IF letter = "Y" THEN 2 ELSE 0
TakenBy(letters) ==
    LET n[i \in 0 .. Len(letters)] == IF i = 0 THEN 0 ELSE n[i - 1] + Takes(letters[i])
    IN  n[Len(letters)]
Complete(option) ==
    /\ Len(option) > 0
    /\ LET arg == option[1]
       IN  \/ arg.dashes = 0 /\ Len(option) = 1
           \/ /\ arg.dashes = 1 /\ Len(arg.text) \in 1 .. 3
              /\ Len(option) = 1 + TakenBy(arg.text)
           \/ /\ arg.dashes = 2 /\ arg.text # ""
              /\ Len(option) = IF arg.text = "checkpoint" THEN 2 ELSE 1

\* Options that exclude each other: the last one counts.  All files of -f do.
Alternatives == {{"o", "O"}, {"skipnear", "warnnear"}, {"p", "P"}, {"s", "S"}, {"t", "j"}}
Excludes(name1, name2) ==
    (name1 = name2 /\ name1 # "f") \/ \E a \in Alternatives : {name1, name2} \subseteq a
Names(option) ==
    CASE option[1].dashes = 0 -> {}
      [] option[1].dashes = 1 -> ToSet(option[1].text)
      [] option[1].dashes = 2 -> {option[1].text}
Independent(line) ==
    /\ \A i \in DOMAIN line : Complete(line[i])
    /\ \A i, j \in DOMAIN line :
           i # j => \A name1 \in Names(line[i]), name2 \in Names(line[j]) : ~Excludes(name1, name2)

\* What a configuration means.
Outcome(d) ==
    IF Mode(d) = "exit" THEN <<"exit">>
    ELSE <<Mode(d), Output(d), ToSet(d.filters),
           [d EXCEPT !.filters = <<>>, !.outfile = Unset, !.outfileoverwrite = FALSE,
                     !.fout = TRUE]>>

\* The order in which complete options are given means nothing, unless they are
\* alternatives of each other, one is given twice, or `--' ends the options
\* (main.c:311-526).
OrderIrrelevant ==
    Independent(typed) =>
        \A p \in SetToSeqs({<<i, typed[i]>> : i \in DOMAIN typed}) :
            Outcome(Parse(FlattenSeq([i \in DOMAIN p |-> p[i][2]]))) = Outcome(c)

AllKeys == SUBSET (0 .. PublicLen * ByteBits - 1)

\* The filters that were asked for and can be had.
Texts ==
    LET lines(f) == IF "lines" \in DOMAIN f THEN UNION {ToSet(Pieces(l)) : l \in ToSet(f.lines)}
                    ELSE {f.text}
    IN  {t \in UNION {{Unanchored(s) : s \in lines(c.filters[i])} : i \in DOMAIN c.filters} :
            /\ t # <<>> /\ base32_valid(t).ok
            /\ FromLen(Len(t)) <= IF build.kind = "bin" THEN PublicLen ELSE IntLen}
Wanted(pk) == \E t \in Texts : IsPrefix(t, base32_to(pk, PublicLen))
Found(pk) == DOFILTER(build.kind, build.binsearch, table, pk) # 0

\* The same for two words of a key, whatever byte is behind it.
WantedWords(pk) == \E s, t \in Texts : IsPrefix(s \o t, base32_to(pk, PublicLen))
FoundWords(pk, behind) == WordsMatch(build.kind, build.binsearch, table, pk, 2, behind)
WordsFit == \A s, t \in Texts : (Len(s) + Len(t)) * CharBits <= PublicLen * ByteBits

\* Filters of one length in bytes, none of which begins another.
SameLength == \A s, t \in Texts : FromLen(Len(s)) = FromLen(Len(t))
Nested == \E s, t \in Texts : s # t /\ IsPrefix(s, t)

\* Where the search and the removal of duplicates can be relied on.
Reliable ==
    /\ build.kind = "bin" /\ (build.binsearch \/ c.wantdedup) => SameLength
    /\ build.binsearch => build.kind = "omit" \/ c.wantdedup \/ ~Nested

\* ExtractedAll of YamlFile, for the options of this run.
KeysExtracted == stage = "extract" => ExtractedAll(c.yamlraw, OneHostname)

\* However the filters were sorted, expanded, freed of duplicates and searched,
\* a key is found exactly if its name begins with one of them, or with two of
\* them for -N 2; the device finds the same keys (filters_main.inc.h:66-330,
\* filters_worker.inc.h:32-158, worker.c:165-176, cuda_worker.cu:77-90).
KeysFound ==
    stage = "search" /\ JustSearches(c) =>
        \A pk \in AllKeys :
            /\ Found(pk) => Wanted(pk)
            /\ Reliable /\ Wanted(pk) => Found(pk)
            /\ filter_match(cuda_set_filters(build.kind, table), pk)
                 <=> FirstMatch(build.kind, table, pk) # 0
            /\ c.numwords = 2 /\ ~table.flattened /\ WordsFit =>
                 \A behind \in {{}, Ones(ByteBits)} :
                    /\ FoundWords(pk, behind) => WantedWords(pk)
                    /\ Reliable /\ ~Nested /\ WantedWords(pk) => FoundWords(pk, behind)

\* No key is missed, whatever the filters: OPTIMISATION.txt:75-93 recommends
\* BESORT and binary search for filters that are not of the same length.
NoneMissed ==
    stage = "search" /\ JustSearches(c) => \A pk \in AllKeys : Wanted(pk) => Found(pk)
=============================================================================
