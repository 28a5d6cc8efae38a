----------------------------- MODULE MCPrograms -----------------------------
(***************************************************************************)
(* The programs other than drivers, checked in one run: the first state    *)
(* chooses which of them moves, the others keep one of their first states. *)
(***************************************************************************)
EXTENDS Programs, Bao, RbTree, CommandTools, Exercises
LOCAL INSTANCE TLC
SeqEx == INSTANCE SequencesExt

VARIABLE unit    \* the component that moves

-----------------------------------------------------------------------------
\* Values of the constants.

\* Patterns and paths of bao, with a wildcard of each sort.
MCComps == {<<"/">>, <<"/", "a">>, <<"/", "a", "/", "b">>, <<"/", ":", "x">>,
            <<"/", "*", "f">>, <<"/", ":", "x", "/", "b">>}
MCPrefixes == {<<"/">>, <<"/", "a">>, <<"/", ":", "x">>}
MCPaths == {<<"/">>, <<"/", "a">>, <<"/", "a", "/">>, <<"/", "a", "/", "b">>, <<"/", "/", "a", "/", "b">>}

MCMessageNumbers == [c \in TtcpClients |-> IF c = "a" THEN {-1, 0, 2} ELSE {0, 1}]
MCLengths == [c \in TtcpClients |-> IF c = "a" THEN {-1, 0, 1} ELSE {1}]

\* Texts with blank lines, lines that are equal but for case or blanks, a
\* character of two bytes, uneven records; with and without a last newline.
MCLineOrder == <<<<>>, <<" ", "a">>, <<",">>, <<"A">>, <<"a">>, <<"a", " ">>, <<"a", ",", "w">>, <<"b">>>>
Text(lines, newline) == [lines |-> lines, newline |-> newline]
MCTexts ==
  {Text(lines, TRUE) :
     lines \in {<<<<>>, <<"a">>, <<"a", " ">>>>, <<<<",">>, <<>>, <<"a", ",", "w">>>>,
                <<<<"A">>, <<"b">>>>, <<<<" ", "a">>, <<"a">>, <<"b">>>>, <<>>}}
    \cup {Text(lines, FALSE) :
     lines \in {<<<<>>, <<"a">>, <<"a", ",", "w">>>>, <<<<"a">>, <<"a">>, <<",">>>>}}

\* 493 is 0755, 448 is 0700, 511 is 0777.
MCDirEntries ==
  <<[name |-> "n1", type |-> "f", hidden |-> FALSE, mode |-> 493, text |-> Text(<<<<"a">>>>, FALSE)],
    [name |-> "n2", type |-> "d", hidden |-> TRUE,  mode |-> 448, text |-> Text(<<>>, FALSE)],
    [name |-> "n3", type |-> "l", hidden |-> FALSE, mode |-> 511, text |-> Text(<<>>, FALSE)]>>

Options(flags, values) == [flags : flags, value : values]
MCToolOptions ==
  LET cat  == Options(SUBSET {"number", "number_nonblank"}, {0})
      wc   == Options(SUBSET {"words", "bytes", "chars"}, {0})
      headOpts == Options(SUBSET {"lines", "bytes"}, {0, 2, 4})
      find == Options({{}, {"d"}, {"f", "l"}}, {{}, {"path"}, {"n1", "n2"}})
      uniq == Options(SUBSET {"count"}, {"stdout", "other file", "same file"})
      echo == Options(SUBSET {"omit_newline"}, {<<>>, <<"x">>, <<"x", "y">>})
  IN  [t \in {"rust/cat", "rustcli/cat"} |-> cat]
      @@ [t \in {"rust/wc", "rustcli/wc"} |-> wc]
      @@ [t \in {"rust/head", "rustcli/head"} |-> headOpts]
      @@ [t \in {"rust/find", "rustcli/find"} |-> find]
      @@ [t \in {"rust/uniq", "rustcli/uniq"} |-> uniq]
      @@ [t \in {"rust/echo", "rustcli/echo"} |-> echo]
      @@ ("rust/tail" :> Options(SUBSET {"lines", "bytes"}, [sign : {"+", "-"}, n : {0, 1, 3}]))
      @@ ("rust/cut" :> Options({{}, {"fields"}, {"chars"}, {"bytes"}, {"fields", "chars"}},
                                {<<<<1, 6>>>>, <<<<2>>, <<1>>>>, <<<<2, 2>>>>, <<<<0>>>>}))
      @@ ("rust/grep" :> Options(SUBSET {"recursive", "count", "invert"}, {"a", "b"}))
      @@ ("rust/ls" :> Options(SUBSET {"long", "all"}, {0}))
      @@ ("rust/comm" :> Options(SUBSET {"suppress_col1", "insensitive"}, {0}))

\* Arrays with and without equal numbers, of odd and even lengths.
MCArrays ==
  SeqEx!BoundedSeq(0 .. 2, 4) \cup {<<4, 3, 2, 1, 0>>, <<2, 0, 4, 1, 3>>, <<1, 1, 0, 1, 0>>, <<0, 5, 3, 4, 1, 2>>}
MCStrings == SeqEx!BoundedSeq({1, 2}, 3) \cup {<<1, 2, 1, 2, 1>>, <<2, 1, 3, 1, 3, 1>>}
\* 10 is a plus, 11 a minus, 12 a letter; 127 is the largest int.
MCNumerals == SeqEx!BoundedSeq({0, 1, 8, 10, 11, 12}, 4)
MCUpdates == SeqEx!BoundedSeq({<<i, n>> : i \in {1, 2, 3, 4, 6, 7, 8}, n \in {1, 3}}, 2)

\* Lists and arrays with equal numbers; trees with up to four nodes.
MCListValues == SeqEx!BoundedSeq(1 .. 3, 3)
MCInorders == {<<>>, <<1>>, <<1, 2>>, <<2, 1, 2>>, <<1, 2, 3>>, <<1, 2, 3, 4>>}

-----------------------------------------------------------------------------
\* The programs with many first states have one when they do not move.
YieRests ==
  /\ ready = <<>> /\ left = <<>> /\ sleeping = {} /\ sequence = 0 /\ now = 0
  /\ items = <<>> /\ waiting = <<>> /\ closed = FALSE
  /\ returned = {} /\ raised = FALSE /\ consumed = <<>>
ToolRests ==
  /\ tool = "rust/echo" /\ opts = [flags |-> {}, value |-> <<>>] /\ inputs = <<>>
  /\ config = Usage /\ nth = 0 /\ out = <<>> /\ outFile = <<>> /\ ended = "args"
TtcpRests ==
  /\ server = "go" /\ serverUp = TRUE
  /\ client = [c \in TtcpClients |-> [language |-> "go", number |-> 1, length |-> 0, at |-> "dial", sent |-> 0]]
  /\ toServer = [c \in TtcpClients |-> <<>>] /\ toClient = [c \in TtcpClients |-> <<>>]
  /\ session = [c \in TtcpClients |-> NoSession]

VecRests == vecKind = "y_vector" /\ cells = <<>> /\ finish = 0 /\ meant = <<>> /\ moved = {}

ProgramsInit ==
  /\ unit \in {"Yieldo", "ThreadsafeQueue", "Bao", "Ttcp", "RbTree", "CommandTools", "RustLists",
              "Vectors", "SearchTree", "Algorithms", "Exercises",
              "CppObjects", "Singletons"}
  /\ IF unit = "Yieldo" THEN YieInit ELSE YieRests
  /\ IF unit = "CommandTools" THEN ToolInit ELSE ToolRests
  /\ IF unit = "Ttcp" THEN TtcpInit ELSE TtcpRests
  /\ TsqInit /\ (unit # "ThreadsafeQueue" => program = "stack")
  /\ ListInit /\ (unit # "RustLists" => listKind = "first")
  /\ IF unit = "Vectors" THEN VecInit ELSE VecRests
  /\ CppInit /\ (unit # "CppObjects" => cppClass = "CQueue")
  /\ SinInit /\ (unit # "Singletons" => singleton = "Singleton1")
  /\ BaoInit /\ RbInit /\ BstInit /\ AlgInit

classVars == <<cppVars, sinVars>>
dataVars == <<vecVars, bstVars, algVars, classVars>>

ProgramsNext ==
  /\ UNCHANGED unit
  /\ \/ /\ unit = "Yieldo" /\ YieNext
        /\ UNCHANGED <<tsqVars, baoVars, ttcpVars, rbVars, toolVars, listVars, dataVars>>
     \/ /\ unit = "ThreadsafeQueue" /\ TsqNext
        /\ UNCHANGED <<yieVars, baoVars, ttcpVars, rbVars, toolVars, listVars, dataVars>>
     \/ /\ unit = "Bao" /\ BaoNext
        /\ UNCHANGED <<yieVars, tsqVars, ttcpVars, rbVars, toolVars, listVars, dataVars>>
     \/ /\ unit = "Ttcp" /\ TtcpNext
        /\ UNCHANGED <<yieVars, tsqVars, baoVars, rbVars, toolVars, listVars, dataVars>>
     \/ /\ unit = "RbTree" /\ RbNext
        /\ UNCHANGED <<yieVars, tsqVars, baoVars, ttcpVars, toolVars, listVars, dataVars>>
     \/ /\ unit = "CommandTools" /\ ToolNext
        /\ UNCHANGED <<yieVars, tsqVars, baoVars, ttcpVars, rbVars, listVars, dataVars>>
     \/ /\ unit = "RustLists" /\ ListNext
        /\ UNCHANGED <<yieVars, tsqVars, baoVars, ttcpVars, rbVars, toolVars, dataVars>>
     \/ /\ unit = "Vectors" /\ VecNext
        /\ UNCHANGED <<yieVars, tsqVars, baoVars, ttcpVars, rbVars, toolVars, listVars, bstVars, algVars, classVars>>
     \/ /\ unit = "SearchTree" /\ BstNext
        /\ UNCHANGED <<yieVars, tsqVars, baoVars, ttcpVars, rbVars, toolVars, listVars, vecVars, algVars, classVars>>
     \/ /\ \/ unit = "Algorithms" /\ AlgNext
           \/ unit = "Exercises" /\ ExerNext
        /\ UNCHANGED <<yieVars, tsqVars, baoVars, ttcpVars, rbVars, toolVars, listVars, vecVars, bstVars, classVars>>
     \/ /\ unit = "CppObjects" /\ CppNext
        /\ UNCHANGED <<yieVars, tsqVars, baoVars, ttcpVars, rbVars, toolVars, listVars, vecVars, bstVars, algVars, sinVars>>
     \/ /\ unit = "Singletons" /\ SinNext
        /\ UNCHANGED <<yieVars, tsqVars, baoVars, ttcpVars, rbVars, toolVars, listVars, vecVars, bstVars, algVars, cppVars>>

\* The fairness of the two components that state some.
ProgramsSpec ==
  /\ ProgramsInit
  /\ [][ProgramsNext]_<<unit, yieVars, tsqVars, baoVars, ttcpVars, rbVars, toolVars, listVars, dataVars>>
  /\ WF_yieVars(unit = "Yieldo" /\ Run)
  /\ \A c \in TtcpClients :
       /\ WF_ttcpVars(unit = "Ttcp" /\ ClientStep(c))
       /\ WF_ttcpVars(unit = "Ttcp" /\ ServerStep(c))

-----------------------------------------------------------------------------
\* A program of yieldo.py ends as it should, and a client of ttcp that lives is
\* served to its end.
ProgramsFinish ==
  /\ unit = "Yieldo" => YieldoFinishes
  /\ unit = "Ttcp" => TtcpEnds

\* The route found is one that matches, and the handlers of a request run.
BaoHandles == unit = "Bao" => BaoServes

\* What the command line tools print, and what the algorithms and the exercises
\* return.
OutputsAgree ==
  /\ unit = "CommandTools" => ToolsPromise
  /\ unit = "Algorithms" => AlgorithmsAgree
  /\ unit = "Exercises" => ExercisesAgree
=============================================================================
