------------------------------ MODULE YamlFile ------------------------------
(***************************************************************************)
(* Keys as YAML (yaml.c): workers append records to the output with        *)
(* yamlout_writekeys, and a later run with -Y makes key directories of the *)
(* records with yamlin_parseandcreate.                                     *)
(*                                                                         *)
(* A line is a field and a value.  A key stands for its hostname and for   *)
(* the base64 of both of its halves, with the prefixes or raw, so a record *)
(* is whole when its values agree; Malformed is a value of another length  *)
(* or alphabet.  Nothing checks what fwrite and fflush return: a full disk *)
(* cuts a record short, and the next one begins on the line of the cut.    *)
(***************************************************************************)
EXTENDS Naturals, Sequences, FiniteSets

CONSTANTS
    Writers,   \* threads that write
    Keys,
    Malformed, \* not a value of the field
    Hand,      \* an input that was made by hand
    Times,     \* seconds the clock may show
    NoOne, NoKey,
    MaxRecords, \* bound: records written whole to one file
    MaxCuts    \* bound: records of it that are cut

ASSUME YamlAssumption ==
    /\ {Malformed, NoKey} \cap (Keys \cup (Keys \X BOOLEAN)) = {}
    /\ NoOne \notin Writers
    /\ MaxRecords \in Nat /\ MaxCuts \in Nat

VARIABLES
    wpc, wtime, wstamp, \* each writer: next step, currtime, timebuf
    tmLock, tm,       \* tminfo_mutex, and the buffer gmtime returns
    file,             \* the output, in lines
    noNewline,        \* the last line has not ended
    written,          \* history: key and form of each record written
    cut,              \* history: records that were cut
    stampsWrong,      \* history: records whose time is not their writer's
    rpc,              \* the reader: "off", "read", "create", "ended"
    unread,           \* lines to come, or Hand for a file made by hand
    flags,            \* hashost, haspub and hassec that are set
    skipthis,
    name, pub, sec,   \* sname, pubbuf, secbuf
    ret,              \* what yamlin_parseandcreate returned
    seen,             \* history: values read since the last separator
    made,             \* history: directories made from the output of a run, as
                      \* <<name, public, secret>>
    failed            \* history: a directory or its files were not written

outVars == <<wpc, wtime, wstamp, tmLock, tm, file, noNewline, written, cut,
             stampsWrong>>
inVars == <<rpc, unread, flags, skipthis, name, pub, sec, ret, seen, made, failed>>
yamlVars == <<outVars, inVars>>

\* "---" ends a record, "-" is a part of that; "bad" is a line without colon,
\* "time" and "other" are fields the reader does not look at.
LineOf(field, value) == [field |-> field, value |-> value]
Record(key, raw) ==
    <<LineOf("---", NoKey), LineOf("hostname", key), LineOf("public", <<key, raw>>),
      LineOf("secret", <<key, raw>>), LineOf("time", NoKey)>>

YamlInit ==
    /\ wpc = [w \in Writers |-> "idle"]
    /\ wtime = [w \in Writers |-> NoKey] /\ wstamp = wtime
    /\ tmLock = NoOne /\ tm = NoKey
    /\ file = <<>> /\ noNewline = FALSE /\ written = <<>> /\ cut = 0
    /\ stampsWrong = 0
    /\ rpc = "off" /\ unread = <<>>
    /\ flags = {} /\ skipthis = FALSE
    /\ name = NoKey /\ pub = NoKey /\ sec = NoKey
    /\ ret = 0 /\ seen = {} /\ made = {} /\ failed = FALSE

-----------------------------------------------------------------------------
(* yamlout_writekeys *)

\* A worker has a key; which one matters when it is written.  It looks at the
\* clock, and waits for tminfo_mutex.
Begin(w) ==
    /\ wpc[w] = "idle"
    /\ \E t \in Times : wtime' = [wtime EXCEPT ![w] = t]
    /\ wpc' = [wpc EXCEPT ![w] = "lock"]
    /\ UNCHANGED <<wstamp, tmLock, tm, file, noNewline, written, cut, stampsWrong,
                   inVars>>

\* Mutant of Lock: nobody waits.
LockNoWait(w) == tmLock' = tmLock

Lock(w) == tmLock = NoOne /\ tmLock' = w

\* gmtime fills the buffer all threads share.
Gmtime(w) ==
    /\ wpc[w] = "lock"
    /\ Lock(w)
    /\ tm' = wtime[w]
    /\ wpc' = [wpc EXCEPT ![w] = "strftime"]
    /\ UNCHANGED <<wtime, wstamp, file, noNewline, written, cut, stampsWrong,
                   inVars>>

Strftime(w) ==
    /\ wpc[w] = "strftime"
    /\ wstamp' = [wstamp EXCEPT ![w] = tm]
    /\ tmLock' = NoOne
    /\ wpc' = [wpc EXCEPT ![w] = "write"]
    /\ UNCHANGED <<wtime, tm, file, noNewline, written, cut, stampsWrong,
                   inVars>>

\* The "---" of a record on a line that has not ended.
Joined(line) ==
    CASE line.field \in {"-", "---"} -> LineOf("---", NoKey)
      [] line.field \in {"hostname", "public", "secret"} -> LineOf(line.field, Malformed)
      [] OTHER -> line

\* The file after all or a part of a record.
Appended(lines) ==
    IF noNewline /\ lines # <<>>
    THEN SubSeq(file, 1, Len(file) - 1) \o <<Joined(file[Len(file)])>> \o Tail(lines)
    ELSE file \o lines

\* The writer has no more use for its buffers.
Done(w) ==
    /\ wpc' = [wpc EXCEPT ![w] = "idle"]
    /\ wtime' = [wtime EXCEPT ![w] = NoKey]
    /\ wstamp' = [wstamp EXCEPT ![w] = NoKey]
    /\ UNCHANGED <<tmLock, tm, inVars>>

Write(w, key, raw) ==
    /\ wpc[w] = "write"
    /\ Len(written) < MaxRecords
    /\ file' = Appended(Record(key, raw))
    /\ noNewline' = FALSE
    /\ written' = Append(written, [key |-> key, raw |-> raw])
    /\ stampsWrong' = stampsWrong + IF wstamp[w] = wtime[w] THEN 0 ELSE 1
    /\ Done(w)
    /\ UNCHANGED cut

\* What may be left of the line in which a record was cut: nothing, a part of
\* the field, of the value, or all but the newline.
Parts(line) ==
    CASE line.field = "---" -> {LineOf("-", NoKey), line}
      [] line.field = "time" -> {LineOf("bad", NoKey), line}
      [] OTHER -> {LineOf("bad", NoKey), LineOf(line.field, Malformed), line}

\* The disk is full: a part of the record is written, and the rest is lost.
WriteCut(w, key, raw) ==
    /\ wpc[w] = "write"
    /\ cut < MaxCuts
    /\ LET record == Record(key, raw)
       IN  \E n \in 0 .. Len(record) - 1 :
             \/ n > 0 /\ file' = Appended(SubSeq(record, 1, n)) /\ noNewline' = FALSE
             \/ \E part \in Parts(record[n + 1]) :
                    /\ file' = Appended(Append(SubSeq(record, 1, n), part))
                    /\ noNewline' = TRUE
             \/ n = 0 /\ UNCHANGED <<file, noNewline>>
    /\ cut' = cut + 1
    /\ Done(w)
    /\ UNCHANGED <<written, stampsWrong>>

-----------------------------------------------------------------------------
(* yamlin_parseandcreate *)

Return(status) == rpc' = "ended" /\ ret' = status

\* The next line: of a file made by hand it may be any.
ByHand(raw) ==
    [field : {"hostname"}, value : Keys \cup {Malformed}]
      \cup [field : {"public", "secret"}, value : (Keys \X {raw}) \cup {Malformed}]
      \cup [field : {"---", "bad", "other"}, value : {NoKey}]
NextLine(line, raw) ==
    IF unread = Hand THEN line \in ByHand(raw) /\ unread' = unread
    ELSE unread # <<>> /\ line = Head(unread) /\ unread' = Tail(unread)

\* Mutant of Reset: the flags of a record that was skipped stay.
ResetSkipped == flags' = IF skipthis THEN flags ELSE {}

\* Mutant of SkipEnds: what follows a skipped record is skipped as well.
SkipStays == skipthis' = skipthis

SkipEnds == skipthis' = FALSE

\* A separator begins a new record; what was read stays in the buffers.
Reset == flags' = {}

Separator(line) ==
    /\ line.field = "---"
    /\ seen' = {}
    /\ IF ~skipthis /\ flags # {}
       THEN Return(1) /\ UNCHANGED <<flags, skipthis>>
       ELSE Reset /\ SkipEnds /\ UNCHANGED <<rpc, ret>>
    /\ UNCHANGED <<name, pub, sec>>

\* A value for one of the three buffers; the third one makes a record.
Got(field) ==
    /\ flags' = flags \cup {field}
    /\ rpc' = IF flags' = {"hostname", "public", "secret"} THEN "create" ELSE rpc
    /\ UNCHANGED <<skipthis, ret>>

Hostname(line, onehostname) ==
    /\ line.field = "hostname"
    /\ IF line.value = Malformed
       THEN Return(1) /\ UNCHANGED <<flags, skipthis, name>>
       ELSE IF onehostname \in {NoKey, line.value}
       THEN Got("hostname") /\ name' = line.value
       ELSE skipthis' = TRUE /\ UNCHANGED <<rpc, ret, flags, name>>
    /\ UNCHANGED <<pub, sec>>

Half(line, raw) ==
    /\ line.field \in {"public", "secret"}
    /\ IF line.value = Malformed \/ (line.value # Malformed /\ line.value[2] # raw)
       THEN Return(1) /\ UNCHANGED <<flags, skipthis, pub, sec>>
       ELSE /\ Got(line.field)
            /\ pub' = IF line.field = "public" THEN line.value[1] ELSE pub
            /\ sec' = IF line.field = "secret" THEN line.value[1] ELSE sec
    /\ UNCHANGED name

ReadLine(raw, onehostname) ==
    /\ rpc = "read"
    /\ \E line \in ByHand(raw) \cup (IF unread \in {Hand, <<>>} THEN {} ELSE {Head(unread)}) :
         /\ NextLine(line, raw)
         /\ \/ Separator(line)
            \/ /\ line.field # "---" /\ skipthis
               /\ UNCHANGED <<rpc, flags, skipthis, name, pub, sec, ret, seen>>
            \/ /\ ~skipthis
               /\ seen' = IF line.value \in {NoKey, Malformed} THEN seen ELSE seen \cup {line}
               /\ \/ Hostname(line, onehostname)
                  \/ Half(line, raw)
                  \/ /\ line.field \in {"bad", "-"} /\ Return(1)
                     /\ UNCHANGED <<flags, skipthis, name, pub, sec>>
                  \/ /\ line.field \in {"time", "other"}
                     /\ UNCHANGED <<rpc, flags, skipthis, name, pub, sec, ret>>
    /\ UNCHANGED <<made, failed, outVars>>

\* createdir fails, or the directory is made and filled; whether the files
\* were written nobody looks.  Without a hostname to look for it goes on with
\* the next separator.
CreateFails ==
    /\ rpc = "create" /\ Return(1) /\ failed' = TRUE
    /\ UNCHANGED <<outVars, unread, flags, skipthis, name, pub, sec, seen, made>>

Create(onehostname) ==
    /\ rpc = "create"
    /\ \/ made' = (IF unread = Hand THEN {} ELSE made \cup {<<name, pub, sec>>}) /\ failed' = failed
       \/ made' = made /\ failed' = TRUE
    /\ IF onehostname # NoKey
       THEN Return(0) /\ skipthis' = skipthis
       ELSE rpc' = "read" /\ skipthis' = TRUE /\ ret' = ret
    /\ UNCHANGED <<outVars, unread, flags, name, pub, sec, seen>>

\* The end of the input; an incomplete record before it is nothing.
EndOfInput(onehostname) ==
    /\ rpc = "read" /\ unread \in {Hand, <<>>}
    /\ Return(IF onehostname # NoKey THEN 1 ELSE 0)
    /\ UNCHANGED <<outVars, unread, flags, skipthis, name, pub, sec, seen, made, failed>>

ReadError ==
    /\ rpc = "read" /\ Return(1) /\ failed' = TRUE
    /\ UNCHANGED <<outVars, unread, flags, skipthis, name, pub, sec, seen, made>>

-----------------------------------------------------------------------------

Written == {written[i].key : i \in DOMAIN written}
OneForm(raw) == \A i \in DOMAIN written : written[i].raw = raw

\* Whatever was cut, lost or put together by hand: a key directory is made of
\* values that stand between two separators, and from a file this program has
\* written, of the three values of one key (yaml.c:136-288).
RecordsWhole ==
    /\ rpc = "create" =>
         /\ LineOf("hostname", name) \in seen
         /\ \E raw \in BOOLEAN : {LineOf("public", <<pub, raw>>), LineOf("secret", <<sec, raw>>)} \subseteq seen
    /\ \A m \in made : m[1] = m[2] /\ m[2] = m[3]

\* Workers format their times with a buffer they share, yet a record says the
\* time at which its own writer looked at the clock (yaml.c:112-119).
StampsTrue == stampsWrong = 0

\* -Y gives back every key that was written, or the one it was asked for, and
\* reports success exactly then, as long as no record was cut, the form
\* (--rawyaml) is the same and the disk takes it (yaml.c:136-311).
ExtractedAll(raw, onehostname) ==
    rpc = "ended" /\ unread # Hand /\ cut = 0 /\ ~failed /\ OneForm(raw) =>
        IF onehostname = NoKey THEN ret = 0 /\ {m[1] : m \in made} = Written
        ELSE /\ ret = 0 <=> onehostname \in Written
             /\ {m[1] : m \in made} = {onehostname} \cap Written
=============================================================================
