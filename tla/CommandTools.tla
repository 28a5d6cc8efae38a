---------------------------- MODULE CommandTools ----------------------------
(***************************************************************************)
(* The Unix tools written again in Rust, those of rust/ and those of       *)
(* rustcli/: what each makes of its options, and what it prints, file by   *)
(* file.  A file is missing, is a directory, which can be opened but not   *)
(* read, is a text, or is a pipe: the one stdin, which the tools that know *)
(* the name call -, and /dev/stdin for tail, which does not.  It may be    *)
(* read in parts, and only once.  A number that is printed is that many    *)
(* "#".                                                                    *)
(***************************************************************************)
LOCAL INSTANCE Integers
LOCAL INSTANCE Sequences
LOCAL INSTANCE SequencesExt
LOCAL INSTANCE FiniteSets
LOCAL INSTANCE FiniteSetsExt
LOCAL INSTANCE Functions

CONSTANTS
  Texts,        \* [lines, newline]: newline, the last line ends with one
  LineOrder,    \* the lines that occur, in the order of strings
  DirEntries,   \* what is in a directory: [name, type, hidden, mode, text]
  ToolOptions,  \* for each tool, its options: [flags, value]
  MaxInputs     \* bound: files on the command line

Tools == DOMAIN ToolOptions

VARIABLES
  tool, opts, inputs,   \* the command line
  config,      \* what get_args made of the options
  nth,         \* inputs done
  out,         \* stdout
  outFile,     \* what uniq wrote to its output file
  ended        \* "args", "running", "ok", "error", "hangs"

toolVars == <<tool, opts, inputs, config, nth, out, outFile, ended>>

NoText == [lines |-> <<>>, newline |-> TRUE]
Inputs ==
  [kind : {"missing", "dir"}, text : {NoText}]
    \cup [kind : {"text", "pipe"}, text : Texts]

Usage == [usage |-> TRUE]

\* There is one stdin.  ls and find take - for the name of a file; what a second
\* reader of head would find is left out.
Pipes == {k \in DOMAIN inputs : inputs[k].kind = "pipe"}
OneStdin ==
  /\ \A j, k \in Pipes : inputs[j] = inputs[k]
  /\ tool \in {"rust/ls", "rust/find", "rustcli/find"} => Pipes = {}
  /\ tool \in {"rust/head", "rustcli/head"} => Cardinality(Pipes) <= 1

ToolInit ==
  /\ tool \in Tools /\ opts \in ToolOptions[tool]
  /\ inputs \in UNION {[1 .. n -> Inputs] : n \in 1 .. IF tool \in {"rust/uniq", "rustcli/uniq"} THEN 1
                                                     ELSE MaxInputs}
  /\ OneStdin
  /\ config = Usage /\ nth = 0 /\ out = <<>> /\ outFile = <<>> /\ ended = "args"

Num(n) == [k \in 1 .. n |-> "#"]
Flag(name) == name \in opts.flags
Both(a, b) == {a, b} \subseteq opts.flags

-----------------------------------------------------------------------------
(***************************************************************************)
(* Texts.                                                                  *)
(***************************************************************************)

\* read_line gives the newline with the line, lines() takes it away.
Raw(t) == [k \in DOMAIN t.lines |->
             t.lines[k] \o IF k < Len(t.lines) \/ t.newline THEN <<"\n">> ELSE <<>>]
Content(t) == FlattenSeq(Raw(t))

\* The character "w" has two bytes.
ToBytes(s) == FlattenSeq([k \in DOMAIN s |-> IF s[k] = "w" THEN <<"w1", "w2">> ELSE <<s[k]>>])

\* from_utf8_lossy: a part of a character becomes "?".
Lossy(b) ==
  FlattenSeq([k \in DOMAIN b |->
    IF b[k] = "w1" THEN IF k < Len(b) /\ b[k + 1] = "w2" THEN <<"w">> ELSE <<"?">>
    ELSE IF b[k] # "w2" THEN <<b[k]>>
    ELSE IF k > 1 /\ b[k - 1] = "w1" THEN <<>> ELSE <<"?">>])

Blank == {" ", "\n"}
trim_end(s) == SubSeq(s, 1, Max({0} \cup {k \in DOMAIN s : s[k] \notin Blank}))
trim(s) == Reverse(trim_end(Reverse(trim_end(s))))

\* What there is to read of an input: after the first reader nothing is left in
\* a pipe.
TextOf(k) == IF k \in Pipes /\ \E j \in Pipes : j < k THEN NoText ELSE inputs[k].text

-----------------------------------------------------------------------------
(***************************************************************************)
(* get_args: what clap refuses, and what becomes of the rest.  An option   *)
(* that the program asks for by another name than it declared is absent.   *)
(***************************************************************************)

rustCatArgs ==
  IF Both("number", "number_nonblank") THEN Usage
  ELSE [number |-> Flag("number"), nonblank |-> Flag("number_nonblank")]
rustcliCatArgs == rustCatArgs

WcConfig(fields) == [show |-> IF fields = {} THEN {"lines", "words", "bytes"} ELSE fields]
rustWcArgs == WcConfig(opts.flags)
rustcliWcArgs == IF Both("bytes", "chars") THEN Usage ELSE WcConfig(opts.flags)

\* parse_positive_int; the value belongs to --lines or to --bytes.
HeadConfig == IF opts.value = 0 \/ Both("lines", "bytes") THEN Usage
              ELSE [bytes |-> Flag("bytes"), n |-> opts.value]
rustHeadArgs == HeadConfig
rustcliHeadArgs == HeadConfig

\* parse_num: a number without sign counts from the end.
parse_num(v) == IF v.sign = "+" THEN v.n ELSE -v.n
TailArgs ==
  IF Both("lines", "bytes") THEN Usage
  ELSE [bytes |-> Flag("bytes"), plusZero |-> opts.value = [sign |-> "+", n |-> 0],
        n |-> parse_num(opts.value)]

\* Positions are <<n>> or <<n, m>>, from 1, anything else <<>>; a range must
\* have a second number above the first.
parse_index(n) == n - 1
parse_pos(v) == [k \in DOMAIN v |-> IF Len(v[k]) = 1 THEN parse_index(v[k][1]) .. parse_index(v[k][1])
                                    ELSE parse_index(v[k][1]) .. parse_index(v[k][2])]
LegalPos(v) == \A k \in DOMAIN v :
  v[k] # <<>> /\ v[k][1] > 0 /\ (Len(v[k]) = 2 => v[k][1] < v[k][2])
CutArgs ==
  IF Cardinality(opts.flags) # 1 \/ ~LegalPos(opts.value) THEN Usage
  ELSE [extract |-> CHOOSE x \in opts.flags : TRUE, pos |-> parse_pos(opts.value)]

GrepArgs == [pattern |-> opts.value, recursive |-> Flag("recursive"), count |-> Flag("count"),
             invert |-> Flag("invert")]

\* The names are read from the options, what they are matched with is external.
rustFindArgs == [types |-> opts.flags, names |-> opts.value]
rustcliFindArgs == [types |-> opts.flags, names |-> opts.value]

LsArgs == [long |-> Flag("long"), all |-> Flag("all")]

rustUniqArgs == [count |-> Flag("count"), out |-> opts.value]
rustcliUniqArgs == [count |-> Flag("count"), out |-> opts.value]

\* -1, -2 and -3 are declared as suppress_col1, suprress_col2 and suppress_col3,
\* and asked for as show_col1, show_col2 and show_col3.
CommArgs ==
  IF Len(inputs) # 2 THEN Usage ELSE
  [show |-> {1, 2, 3} \ {c \in 1 .. 3 : Flag(<<"show_col1", "show_col2", "show_col3">>[c])},
   insensitive |-> Flag("insensitive")]

EchoArgs == IF opts.value = <<>> THEN Usage ELSE [omit |-> Flag("omit_newline")]
rustEchoArgs == EchoArgs
rustcliEchoArgs == EchoArgs

GetArgs ==
  /\ ended = "args"
  /\ \/ tool = "rust/cat" /\ config' = rustCatArgs
     \/ tool = "rustcli/cat" /\ config' = rustcliCatArgs
     \/ tool = "rust/wc" /\ config' = rustWcArgs
     \/ tool = "rustcli/wc" /\ config' = rustcliWcArgs
     \/ tool = "rust/head" /\ config' = rustHeadArgs
     \/ tool = "rustcli/head" /\ config' = rustcliHeadArgs
     \/ tool = "rust/tail" /\ config' = TailArgs
     \/ tool = "rust/cut" /\ config' = CutArgs
     \/ tool = "rust/grep" /\ config' = GrepArgs
     \/ tool = "rust/find" /\ config' = rustFindArgs
     \/ tool = "rustcli/find" /\ config' = rustcliFindArgs
     \/ tool = "rust/ls" /\ config' = LsArgs
     \/ tool = "rust/uniq" /\ config' = rustUniqArgs
     \/ tool = "rustcli/uniq" /\ config' = rustcliUniqArgs
     \/ tool = "rust/comm" /\ config' = CommArgs
     \/ tool = "rust/echo" /\ config' = rustEchoArgs
     \/ tool = "rustcli/echo" /\ config' = rustcliEchoArgs
  /\ ended' = IF config' = Usage THEN "error" ELSE "running"
  /\ UNCHANGED <<tool, opts, inputs, nth, out, outFile>>

-----------------------------------------------------------------------------
(***************************************************************************)
(* run.                                                                    *)
(***************************************************************************)
Runs(t) == tool = t /\ ended = "running"
Constant == UNCHANGED <<tool, opts, inputs, config, outFile>>

\* The loop over the files: one that cannot be opened is reported and passed
\* over; what is done with one that cannot be read, dir says.
EachInput(t, Shows(_), dir) ==
  /\ Runs(t) /\ nth < Len(inputs)
  /\ LET f == inputs[nth + 1]
     IN  IF f.kind = "dir" /\ dir = "abort"
         THEN ended' = "error" /\ UNCHANGED <<nth, out>>
         ELSE /\ nth' = nth + 1 /\ UNCHANGED ended
              /\ out' = out \o IF f.kind \in {"missing", "dir"} THEN <<>> ELSE Shows(TextOf(nth + 1))
  /\ Constant

\* cat: the lines with their number, or those that are not blank with theirs.
Numbered(n, line) == Num(n) \o <<"\t">> \o line \o <<"\n">>
Nonblank(lines, forBlank) ==
  FoldLeft(LAMBDA acc, line :
             IF line = <<>> THEN [acc EXCEPT !.text = @ \o forBlank]
             ELSE [last |-> acc.last + 1, text |-> acc.text \o Numbered(acc.last + 1, line)],
           [last |-> 0, text |-> <<>>], lines).text
Cat(t, forBlank) ==
  IF config.number THEN FlattenSeq([k \in DOMAIN t.lines |-> Numbered(k, t.lines[k])])
  ELSE IF config.nonblank THEN Nonblank(t.lines, forBlank)
  ELSE FlattenSeq([k \in DOMAIN t.lines |-> t.lines[k] \o <<"\n">>])

rustCat == EachInput("rust/cat", LAMBDA t : Cat(t, <<"\n">>), "abort")
rustcliCat == EachInput("rustcli/cat", LAMBDA t : Cat(t, <<>>), "abort")

\* wc: count, and format_field for the fields that are shown.
Words(line) ==
  FoldLeft(LAMBDA acc, c : IF c \in Blank THEN [acc EXCEPT !.inWord = FALSE]
                           ELSE [inWord |-> TRUE, n |-> acc.n + IF acc.inWord THEN 0 ELSE 1],
           [inWord |-> FALSE, n |-> 0], line).n
count(t) ==
  FoldLeft(LAMBDA acc, line : [lines |-> acc.lines + 1, words |-> acc.words + Words(line),
                               bytes |-> acc.bytes + Len(ToBytes(line)),
                               chars |-> acc.chars + Len(line)],
           [lines |-> 0, words |-> 0, bytes |-> 0, chars |-> 0], Raw(t))
format_field(info, field) == IF field \in config.show THEN <<"|">> \o Num(info[field]) ELSE <<>>
Fields == <<"lines", "words", "bytes", "chars">>
WcLine(info) == FlattenSeq([k \in 1 .. 4 |-> format_field(info, Fields[k])]) \o <<"\n">>

rustWc == EachInput("rust/wc", LAMBDA t : WcLine(count(t)), "skip")
rustcliWc == EachInput("rustcli/wc", LAMBDA t : WcLine(count(t)), "skip")

\* The total of the rust version, of the files that could be read.
WcTotal ==
  LET infos == [k \in DOMAIN inputs |-> count(TextOf(k))]
  IN  WcLine([f \in {"lines", "words", "bytes", "chars"} |->
                FoldLeft(LAMBDA n, info : n + info[f], 0, infos)])

\* head: a header for each of several files, also for one that cannot be read.
\* --bytes makes one read, which a pipe may answer with less.
Header == IF Len(inputs) > 1 THEN (IF nth > 0 THEN <<"\n">> ELSE <<>>) \o <<"==>", "\n">> ELSE <<>>
HeadLines(lines) == FlattenSeq(SubSeq(lines, 1, Min({config.n, Len(lines)})))
Head_(t, Lines(_)) ==
  /\ Runs(t) /\ nth < Len(inputs)
  /\ LET f == inputs[nth + 1]
         bytes == ToBytes(Content(f.text))
         most == Min({config.n, Len(bytes)})
     IN  \/ f.kind = "missing" /\ nth' = nth + 1 /\ UNCHANGED <<out, ended>>
         \/ f.kind = "dir" /\ out' = out \o Header /\ ended' = "error" /\ UNCHANGED nth
         \/ /\ f.kind \in {"text", "pipe"}
            /\ nth' = nth + 1 /\ UNCHANGED ended
            /\ \/ ~config.bytes /\ out' = out \o Header \o Lines(f.text)
               \/ config.bytes /\ \E n \in (IF f.kind = "pipe" THEN Min({1, most}) ELSE most) .. most :
                    out' = out \o Header \o Lossy(SubSeq(bytes, 1, n))
  /\ Constant

rustHead == Head_("rust/head", LAMBDA t : HeadLines([k \in DOMAIN t.lines |-> t.lines[k] \o <<"\n">>]))
rustcliHead == Head_("rustcli/head", LAMBDA t : HeadLines(Raw(t)))

\* Mutant of get_start_index: the line the number names is left out.
get_start_indexLate(total) == IF config.n = 0 THEN total ELSE Max({0, IF config.n < 0 THEN total + config.n ELSE config.n})

\* tail: where to begin, from 0, and total for nothing.
get_start_index(total) ==
  IF config.plusZero THEN 0
  ELSE IF config.n = 0 \/ total = 0 \/ config.n > total THEN total
  ELSE Max({0, IF config.n < 0 THEN total + config.n ELSE config.n - 1})
print_lines(t) == LET all == Raw(t) IN FlattenSeq(SubSeq(all, get_start_index(Len(all)) + 1, Len(all)))
print_bytes(t) == LET all == ToBytes(Content(t))
                  IN  Lossy(SubSeq(all, get_start_index(Len(all)) + 1, Len(all)))

\* The file is opened and read to count, and opened again to print: of a pipe
\* the second reader finds nothing, and --bytes cannot seek in it.
TailSeekFails ==
  /\ inputs[nth + 1].kind = "pipe" /\ config.bytes
  /\ LET total == Len(ToBytes(Content(TextOf(nth + 1)))) IN get_start_index(total) < total
TailPrints(f) ==
  IF f.kind # "text" THEN <<>> ELSE IF config.bytes THEN print_bytes(f.text) ELSE print_lines(f.text)
Tail_ ==
  /\ Runs("rust/tail") /\ nth < Len(inputs)
  /\ IF inputs[nth + 1].kind = "dir" \/ TailSeekFails
     THEN ended' = "error" /\ UNCHANGED <<nth, out>>
     ELSE /\ nth' = nth + 1 /\ UNCHANGED ended
          /\ out' = out \o TailPrints(inputs[nth + 1])
  /\ Constant

\* cut: the positions in the order of the list, those beyond the line left out.
Selected(s, pos) ==
  FlattenSeq([k \in DOMAIN pos |-> LET within == {i + 1 : i \in pos[k]} \cap DOMAIN s
                                   IN  IF within = {} THEN <<>> ELSE SubSeq(s, Min(within), Max(within))])
extract_chars(line) == Selected(line, config.pos)
extract_bytes(line) == Lossy(Selected(ToBytes(line), config.pos))

\* The csv reader passes blank lines over; each record must have as many fields
\* as the first.  A field is a sequence of characters.
Split(line) == LET cuts == {0, Len(line) + 1} \cup {k \in DOMAIN line : line[k] = ","}
                   at == SetToSortSeq(cuts, LAMBDA x, y : x < y)
               IN  [k \in 1 .. Len(at) - 1 |-> SubSeq(line, at[k] + 1, at[k + 1] - 1)]
Records(t) == LET full == SelectSeq(t.lines, LAMBDA line : line # <<>>)
              IN  [k \in DOMAIN full |-> Split(full[k])]
Uneven(records) == SelectInSeq(records, LAMBDA r : Len(r) # Len(records[1]))
extract_fields(record) == Selected(record, config.pos)
WriteRecord(fields) ==
  LET joined == FlattenSeq([k \in DOMAIN fields |-> IF k = 1 THEN fields[k] ELSE <<",">> \o fields[k]])
  IN  (IF joined = <<>> THEN <<"\"\"">> ELSE joined) \o <<"\n">>

CutLines ==
  /\ Runs("rust/cut") /\ config.extract # "fields"
  /\ EachInput("rust/cut",
       LAMBDA t : FlattenSeq([k \in DOMAIN t.lines |->
         (IF config.extract = "chars" THEN extract_chars(t.lines[k]) ELSE extract_bytes(t.lines[k]))
           \o <<"\n">>]),
       "abort")

CutFields ==
  /\ Runs("rust/cut") /\ config.extract = "fields" /\ nth < Len(inputs)
  /\ LET records == Records(TextOf(nth + 1))
         bad == Uneven(records)
         good == IF bad = 0 THEN records ELSE SubSeq(records, 1, bad - 1)
     IN  /\ out' = out \o FlattenSeq([k \in DOMAIN good |-> WriteRecord(extract_fields(good[k]))])
         /\ IF bad # 0 \/ inputs[nth + 1].kind = "dir" THEN ended' = "error" /\ UNCHANGED nth
            ELSE nth' = nth + 1 /\ UNCHANGED ended
  /\ Constant

\* grep: find_files first, as the names of several entries are printed, errors
\* among them.
find_files(f) ==
  IF f.kind # "dir" THEN <<f>>
  ELSE IF ~config.recursive THEN <<[f EXCEPT !.kind = "missing"]>>
  ELSE LET regular == SelectSeq(DirEntries, LAMBDA e : e.type = "f")
       IN  [k \in DOMAIN regular |-> [kind |-> "text", text |-> regular[k].text]]
GrepEntries == FlattenSeq([k \in DOMAIN inputs |-> find_files([inputs[k] EXCEPT !.text = TextOf(k)])])
find_lines(t) == SelectSeq(Raw(t), LAMBDA line : (config.pattern \in Range(line)) # config.invert)
GrepPrint(val) == (IF Len(GrepEntries) > 1 THEN <<"name:">> ELSE <<>>) \o val
Grep ==
  /\ Runs("rust/grep") /\ nth = 0
  /\ LET found(e) == find_lines(e.text)
         shown(e) == IF e.kind = "missing" THEN <<>>
                     ELSE IF config.count THEN GrepPrint(Num(Len(found(e))) \o <<"\n">>)
                     ELSE FlattenSeq([k \in DOMAIN found(e) |-> GrepPrint(found(e)[k])])
     IN  out' = FlattenSeq([k \in DOMAIN GrepEntries |-> shown(GrepEntries[k])])
  /\ nth' = Len(inputs) /\ UNCHANGED ended /\ Constant

\* find: WalkDir gives the path itself, then what is in it.
Walk(f) ==
  IF f.kind = "missing" THEN <<>>
  ELSE IF f.kind = "dir" THEN <<[name |-> "path", type |-> "d"]>> \o
         [k \in DOMAIN DirEntries |-> [name |-> DirEntries[k].name, type |-> DirEntries[k].type]]
  ELSE <<[name |-> "path", type |-> "f"]>>
type_filter(e) == config.types = {} \/ e.type \in config.types
name_filter(e) == config.names = {} \/ e.name \in config.names
Find(t) ==
  /\ Runs(t) /\ nth < Len(inputs)
  /\ LET entries == SelectSeq(Walk(inputs[nth + 1]), LAMBDA e : type_filter(e) /\ name_filter(e))
     IN  out' = out \o FlattenSeq([k \in DOMAIN entries |-> <<entries[k].name, "\n">>])
                \o IF entries = <<>> THEN <<"\n">> ELSE <<>>
  /\ nth' = nth + 1 /\ UNCHANGED ended /\ Constant
rustFind == Find("rust/find")
rustcliFind == Find("rustcli/find")

\* ls: one triple of letters for each owner.
masks == [User |-> <<256, 128, 64>>, Group |-> <<32, 16, 8>>, Other |-> <<4, 2, 1>>]
mk_triple(mode, owner) ==
  [k \in 1 .. 3 |-> IF (mode \div masks[owner][k]) % 2 = 0 THEN "-" ELSE <<"r", "w", "x">>[k]]
format_mode(mode) == mk_triple(mode, "User") \o mk_triple(mode, "Group") \o mk_triple(mode, "Other")
format_output(e) == (IF e.type = "d" THEN <<"d">> ELSE <<"-">>) \o format_mode(e.mode) \o <<e.name, "\n">>
LsFiles(f) ==
  IF f.kind = "missing" THEN <<>>
  ELSE IF f.kind = "dir" THEN SelectSeq(DirEntries, LAMBDA e : ~e.hidden \/ config.all)
  ELSE <<[name |-> "path", type |-> "f", hidden |-> FALSE, mode |-> 420]>>
Ls ==
  /\ Runs("rust/ls") /\ nth < Len(inputs)
  /\ LET entries == LsFiles(inputs[nth + 1])
     IN  out' = out \o FlattenSeq([k \in DOMAIN entries |->
                  IF config.long THEN format_output(entries[k]) ELSE <<entries[k].name, "\n">>])
  /\ nth' = nth + 1 /\ UNCHANGED ended /\ Constant

\* uniq: the output file is created before the first line is read; a file named
\* - is not stdin.  The rust version prints the last group to stdout, with its
\* number.
UniqInput == IF config.out = "same file" /\ inputs[1].kind # "pipe" THEN <<>> ELSE Raw(inputs[1].text)
UniqPrint(n, line) == (IF config.count THEN Num(n) \o <<":">> ELSE <<>>) \o line
UniqLoop(Key(_)) ==
  FoldLeft(LAMBDA acc, line :
             IF Key(line) = Key(acc.previous) THEN [acc EXCEPT !.count = @ + 1]
             ELSE [previous |-> line, count |-> 1,
                   text |-> acc.text \o IF acc.count = 0 THEN <<>> ELSE UniqPrint(acc.count, acc.previous)],
           [previous |-> <<>>, count |-> 0, text |-> <<>>], UniqInput)
Uniq(t, Key(_), lastToStdout) ==
  /\ Runs(t) /\ nth = 0
  /\ IF inputs[1].kind \in {"missing", "dir"}
     THEN ended' = "error" /\ UNCHANGED <<nth, out, outFile>>
     ELSE /\ nth' = Len(inputs) /\ UNCHANGED ended
          /\ LET end == UniqLoop(Key)
                 last == IF end.count = 0 THEN <<>>
                         ELSE IF lastToStdout THEN Num(end.count) \o <<":">> \o end.previous
                         ELSE UniqPrint(end.count, end.previous)
             IN  IF config.out = "stdout" THEN out' = end.text \o last /\ UNCHANGED outFile
                 ELSE IF lastToStdout THEN outFile' = end.text /\ out' = last
                 ELSE outFile' = end.text \o last /\ UNCHANGED out
  /\ UNCHANGED <<tool, opts, inputs, config>>
rustUniq == Uniq("rust/uniq", trim_end, TRUE)
rustcliUniq == Uniq("rustcli/uniq", trim, FALSE)

\* comm: two files; a directory gives errors without end, which are filtered
\* away one after the other.
Position(line) == SelectInSeq(LineOrder, LAMBDA x : x = line)
Lower(line) == [k \in DOMAIN line |-> IF line[k] = "A" THEN "a" ELSE line[k]]
CommLines(k) ==
  LET lines == TextOf(k).lines
  IN  [i \in DOMAIN lines |-> IF config.insensitive THEN Lower(lines[i]) ELSE lines[i]]
CommPrint(col, val) ==
  IF col \notin config.show THEN <<>>
  ELSE (IF col = 3 THEN [k \in 1 .. Cardinality(config.show \cap {1, 2}) |-> "\t"] ELSE <<>>)
         \o val \o <<"\n">>
RECURSIVE Merge(_, _)
Merge(lines1, lines2) ==
  IF lines1 = <<>> /\ lines2 = <<>> THEN <<>>
  ELSE IF lines1 # <<>> /\ lines2 # <<>> /\ lines1[1] = lines2[1]
       THEN <<<<3, lines1[1]>>>> \o Merge(Tail(lines1), Tail(lines2))
  ELSE IF lines2 = <<>> \/ (lines1 # <<>> /\ Position(lines1[1]) < Position(lines2[1]))
       THEN <<<<1, lines1[1]>>>> \o Merge(Tail(lines1), lines2)
  ELSE <<<<2, lines2[1]>>>> \o Merge(lines1, Tail(lines2))
CommColumns == Merge(CommLines(1), CommLines(2))
Comm ==
  /\ Runs("rust/comm") /\ nth = 0 /\ Len(inputs) = 2
  /\ LET kinds == {inputs[1].kind, inputs[2].kind}
     IN  IF "missing" \in kinds THEN ended' = "error" /\ UNCHANGED <<nth, out>>
         ELSE IF "dir" \in kinds THEN ended' = "hangs" /\ UNCHANGED <<nth, out>>
         ELSE /\ nth' = 2 /\ UNCHANGED ended
              /\ out' = FlattenSeq([k \in DOMAIN CommColumns |-> CommPrint(CommColumns[k][1], CommColumns[k][2])])
  /\ Constant

\* echo: the words, and a newline.
Echo(t) ==
  /\ Runs(t) /\ nth = 0
  /\ out' = FlattenSeq([k \in DOMAIN opts.value |->
                          IF k = 1 THEN <<opts.value[k]>> ELSE <<" ", opts.value[k]>>])
            \o IF config.omit THEN <<>> ELSE <<"\n">>
  /\ nth' = Len(inputs) /\ UNCHANGED ended /\ Constant
rustEcho == Echo("rust/echo")
rustcliEcho == Echo("rustcli/echo")

\* run returns.
Ends ==
  /\ ended = "running" /\ nth = Len(inputs)
  /\ ended' = "ok"
  /\ out' = out \o IF tool = "rust/wc" /\ nth > 1 THEN WcTotal ELSE <<>>
  /\ UNCHANGED nth /\ Constant

ToolNext ==
  \/ GetArgs \/ Ends
  \/ rustCat \/ rustcliCat \/ rustWc \/ rustcliWc \/ rustHead \/ rustcliHead \/ Tail_
  \/ CutLines \/ CutFields \/ Grep \/ rustFind \/ rustcliFind \/ Ls
  \/ rustUniq \/ rustcliUniq \/ Comm \/ rustEcho \/ rustcliEcho

ToolSpec == ToolInit /\ [][ToolNext]_toolVars

-----------------------------------------------------------------------------
(***************************************************************************)
(* Properties.                                                             *)
(***************************************************************************)
Returned(tools) == tool \in tools /\ ended \in {"ok", "error"} /\ config # Usage
Read == SelectSeq([k \in 1 .. nth |-> [inputs[k] EXCEPT !.text = TextOf(k)]],
                  LAMBDA f : f.kind \in {"text", "pipe"})
Single(tools) == Returned(tools) /\ Len(inputs) = 1 /\ Len(Read) = 1
T == Read[1].text
Whole(t) == Content(t) \o IF Content(t) = <<>> \/ Last(Content(t)) = "\n" THEN <<>> ELSE <<"\n">>
Occurs(x) == Cardinality({k \in DOMAIN out : out[k] = x})

\* cat gives back what it is given; the numbers are 1, 2, 3 and so on.
CatPromise ==
  Returned({"rust/cat", "rustcli/cat"}) =>
    /\ SelectSeq(out, LAMBDA c : c \notin {"#", "\t"}) =
         FlattenSeq([k \in DOMAIN Read |->
           IF tool = "rustcli/cat" /\ config.nonblank
           THEN FlattenSeq(SelectSeq(Raw([Read[k].text EXCEPT !.newline = TRUE]), LAMBDA l : l # <<"\n">>))
           ELSE Whole(Read[k].text)])
    /\ Len(inputs) = 1 /\ (config.number \/ config.nonblank) =>
         2 * Occurs("#") = Occurs("\t") * (Occurs("\t") + 1)

\* wc counts; the total counts everything again.
WcPromise ==
  /\ Single({"rust/wc", "rustcli/wc"}) =>
       LET c == Content(T)
           n == [lines |-> Cardinality({k \in DOMAIN Whole(T) : Whole(T)[k] = "\n"}),
                 words |-> Cardinality({k \in DOMAIN c : c[k] \notin Blank /\ (k = 1 \/ c[k - 1] \in Blank)}),
                 bytes |-> Len(ToBytes(c)), chars |-> Len(c)]
       IN  out = FlattenSeq([k \in 1 .. 4 |-> IF Fields[k] \in config.show THEN <<"|">> \o Num(n[Fields[k]])
                                               ELSE <<>>]) \o <<"\n">>
  /\ Returned({"rust/wc"}) /\ ended = "ok" /\ Len(inputs) > 1 => Occurs("#") % 2 = 0

\* head gives the first lines, or bytes, of a text, and of a pipe no others;
\* tail the last, or those from a given one on, and of a pipe nothing.
HeadTailPromise ==
  /\ Single({"rust/head", "rustcli/head"}) =>
       IF config.bytes
       THEN LET b == ToBytes(Content(T))  most == Min({config.n, Len(b)})
            IN  \E n \in 0 .. most : out = Lossy(SubSeq(b, 1, n)) /\ (Read[1].kind = "text" => n = most)
       ELSE \/ IsPrefix(out, Whole(T)) /\ Occurs("\n") = Min({config.n, Len(T.lines)})
            \/ tool = "rustcli/head" /\ config.n >= Len(T.lines) /\ out = Content(T)
  /\ Single({"rust/tail"}) =>
       LET all == IF config.bytes THEN ToBytes(Content(T)) ELSE Raw(T)
           n == IF config.plusZero THEN Len(all)
                ELSE IF config.n > 0 THEN Max({0, Len(all) - config.n + 1})
                ELSE Min({Len(all), -config.n})
           suffix == SubSeq(all, Len(all) - n + 1, Len(all))
       IN  out = IF Read[1].kind = "pipe" THEN <<>>
                 ELSE IF config.bytes THEN Lossy(suffix) ELSE FlattenSeq(suffix)

\* cut with every position in the list cuts nothing away.
CutPromise ==
  Single({"rust/cut"}) /\ ended = "ok" /\ config.pos = <<0 .. 5>> =>
    out = IF config.extract # "fields" THEN Whole(T)
          ELSE FlattenSeq(SelectSeq(Raw([T EXCEPT !.newline = TRUE]), LAMBDA l : l # <<"\n">>))

\* uniq prints the first of equal neighbours, except that blank lines in front
\* of everything are counted but not printed.
UniqPromise ==
  Returned({"rust/uniq", "rustcli/uniq"}) /\ ended = "ok" /\ ~config.count
    /\ (config.out = "same file" => inputs[1].kind = "pipe") =>
    LET key(l) == IF tool = "rust/uniq" THEN trim_end(l) ELSE trim(l)
        raw == Raw(inputs[1].text)
        firsts == {k \in DOMAIN raw : key(raw[k]) # IF k = 1 THEN <<>> ELSE key(raw[k - 1])}
        lines == SetToSortSeq(firsts, LAMBDA x, y : x < y)
        written == SelectSeq(outFile \o out, LAMBDA c : c \notin {"#", ":"})
    IN  written = FlattenSeq([k \in DOMAIN lines |-> raw[lines[k]]])

\* comm of sorted files: as often as a line is in both, and the rest of either.
CommPromise ==
  Returned({"rust/comm"}) /\ ended = "ok" =>
    LET sorted(lines) == \A k \in 1 .. Len(lines) - 1 : Position(lines[k]) <= Position(lines[k + 1])
        in(k, line) == Cardinality({i \in DOMAIN CommLines(k) : CommLines(k)[i] = line})
        shown(col, line) == Cardinality({i \in DOMAIN CommColumns : CommColumns[i] = <<col, line>>})
    IN  sorted(CommLines(1)) /\ sorted(CommLines(2)) =>
          \A line \in Range(LineOrder) :
            /\ shown(3, line) = Min({in(1, line), in(2, line)})
            /\ \A k \in 1 .. 2 : shown(k, line) + shown(3, line) = in(k, line)

\* ls -l: the letters say the nine bits of the mode.
LsPromise ==
  \A mode \in {e.mode : e \in Range(DirEntries)} :
    mode % 512 = FoldLeft(LAMBDA n, c : 2 * n + IF c = "-" THEN 0 ELSE 1, 0, format_mode(mode))

\* A file that is missing does not keep a tool from the others; one that cannot
\* be read ends it, as tail --bytes ends at a pipe, and comm never ends.
FailPromise ==
  /\ ended = "error" /\ config # Usage =>
       \/ inputs[nth + 1].kind = "dir"
       \/ tool = "rust/cut" /\ Uneven(Records(TextOf(nth + 1))) # 0
       \/ tool = "rust/tail" /\ config.bytes /\ inputs[nth + 1].kind = "pipe"
       \/ tool \in {"rust/uniq", "rustcli/uniq", "rust/comm"} /\ \E k \in DOMAIN inputs : inputs[k].kind = "missing"
  /\ ended = "hangs" => tool = "rust/comm" /\ \E k \in DOMAIN inputs : inputs[k].kind = "dir"

ToolsPromise ==
  CatPromise /\ WcPromise /\ HeadTailPromise /\ CutPromise /\ UniqPromise /\ CommPromise
    /\ LsPromise /\ FailPromise
=============================================================================
