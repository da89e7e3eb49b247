---------------------------- MODULE CommandLine -----------------------------
(***************************************************************************)
(* What mjc and mji make of their arguments: ezOptionParser::parse and the *)
(* accessors they use (src/src/mjc/ezOptionParser.hpp), and the first half *)
(* of the two main functions (mjc.cpp:20-102, mji.cpp:35-70).              *)
(*                                                                         *)
(* argv[1] is the program.  A word is a string taken as a whole; the value *)
(* of a word under atoi is a constant.                                     *)
(***************************************************************************)
EXTENDS Integers, Sequences, FiniteSets, FiniteSetsExt

CONSTANTS
    Word,     \* the words an argument can be
    Numeral   \* the words that start with a number, and that number

ASSUME NumeralAssumption == \A w \in DOMAIN Numeral : Numeral[w] \in Int

\* The option groups that each tool adds, in the order of their identifiers.
Groups(tool) == IF tool = "mjc" THEN {"help", "type", "level"} ELSE {"help"}

Flags == [help |-> {"-h", "--help"}, type |-> {"-t", "--output-type"}, level |-> {"-O"}]
ExpectArgs == [help |-> 0, type |-> 1, level |-> 1]
Defaults == [help |-> "", type |-> "obj", level |-> "2"]

\* optionGroupIds, as used: the group of a flag.
IsFlag(tool, w) == \E g \in Groups(tool) : w \in Flags[g]
GroupOf(tool, w) == CHOOSE g \in Groups(tool) : w \in Flags[g]

\* With the delimiter 0 nothing is split, and the empty word has no parts.
SplitDelim(w) == IF w = "" THEN << >> ELSE <<w>>

NoOptions == [isSet |-> {}, args |-> [g \in {"help", "type", "level"} |-> << >>],
              last |-> 0, expecting |-> "nothing"]

\* Mutant of ReadWord: the value of an option is read as an option if it can be.
ReadWordFlagsFirst(tool, o, w, i) ==
    IF IsFlag(tool, w)
    THEN LET g == GroupOf(tool, w)
         IN  IF ExpectArgs[g] = 0
             THEN [o EXCEPT !.isSet = @ \cup {g}, !.last = i]
             ELSE [o EXCEPT !.isSet = @ \cup {g}, !.expecting = g]
    ELSE IF o.expecting # "nothing"
    THEN [o EXCEPT !.args[o.expecting] = Append(@, SplitDelim(w)),
                   !.last = i, !.expecting = "nothing"]
    ELSE o

\* The i-th word in the loop over the options: a flag sets its group, and
\* takes the next word as its value whatever it is.
ReadWord(tool, o, w, i) ==
    IF o.expecting # "nothing"
    THEN [o EXCEPT !.args[o.expecting] = Append(@, SplitDelim(w)),
                   !.last = i, !.expecting = "nothing"]
    ELSE IF IsFlag(tool, w)
    THEN LET g == GroupOf(tool, w)
         IN  IF ExpectArgs[g] = 0
             THEN [o EXCEPT !.isSet = @ \cup {g}, !.last = i]
             ELSE [o EXCEPT !.isSet = @ \cup {g}, !.expecting = g]
    ELSE o

ReadOptions(tool, argv) ==
    LET upTo[i \in 0..Len(argv)] ==
            IF i = 0 THEN NoOptions ELSE ReadWord(tool, upTo[i - 1], argv[i], i)
    IN  upTo[Len(argv)]

\* The result of parse, as far as the tools look at it.  A value that is
\* missing at the end makes parse return at once.
Parse(tool, argv) ==
    LET o == ReadOptions(tool, argv)
    IN  [isSet |-> o.isSet,
         args |-> o.args,
         lastArgs |-> IF o.expecting # "nothing" THEN << >>
                      ELSE IF o.isSet = {} THEN Tail(argv)
                      ELSE SubSeq(argv, o.last + 1, Len(argv))]

GotExpected(p) ==
    \A g \in p.isSet :
        /\ ExpectArgs[g] # 0 => p.args[g] # << >>
        /\ \A j \in DOMAIN p.args[g] : Len(p.args[g][j]) = ExpectArgs[g]

\* OptionGroup::getString and getInt: the first occurrence counts.
GetString(p, g) == IF g \notin p.isSet THEN Defaults[g]
                   ELSE IF p.args[g] = << >> \/ p.args[g][1] = << >> THEN ""
                   ELSE p.args[g][1][1]
Atoi(w) == IF w \in DOMAIN Numeral THEN Numeral[w] ELSE 0
GetInt(p, g) == Atoi(GetString(p, g))

OutputType == {"ast", "llvm", "bc", "asm", "obj"}

Exit(status) == [does |-> "exit", status |-> status]

\* What main does before it looks at the type: the arguments are used if every
\* option has its value, help is not asked for and one word is left.
Usable(p) == GotExpected(p) /\ "help" \notin p.isSet /\ Len(p.lastArgs) = 1
Refuse(p) == Exit(IF GotExpected(p) /\ "help" \in p.isSet THEN "0" ELSE "1")

\* From the first line of main to the call of executeCodegen.
MjcMain(argv) ==
    LET p == Parse("mjc", argv)
        type == GetString(p, "type")
    IN  IF Usable(p) /\ type \in OutputType
        THEN [does |-> "run", input |-> p.lastArgs[1], type |-> type,
              level |-> GetInt(p, "level")]
        ELSE Refuse(p)

\* From the first line of main to the parser.
MjiMain(argv) ==
    LET p == Parse("mji", argv)
    IN  IF Usable(p)
        THEN [does |-> "run", input |-> p.lastArgs[1], type |-> "run", level |-> 0]
        ELSE Refuse(p)

Decide(argv) == IF argv[1] = "mjc" THEN MjcMain(argv) ELSE MjiMain(argv)

-----------------------------------------------------------------------------
(* A second reading of the same words, from their positions alone. *)

TakesValue(tool, w) == IsFlag(tool, w) /\ ExpectArgs[GroupOf(tool, w)] = 1

\* A word is a value exactly if the word before it takes one and is none.
Values(argv) ==
    LET value[i \in 1..Len(argv)] ==
            i > 1 /\ ~value[i - 1] /\ TakesValue(argv[1], argv[i - 1])
    IN  {i \in DOMAIN argv : value[i]}

\* The decision d is what the arguments say.  The tool runs if every option that takes
\* a value has one, help is not asked for, and one word is left after the last
\* option; it works on that word, with the values next to the first occurrences
\* of the options.  A value is never taken for an option nor an option for a
\* file, and help is given whenever it is asked for and no value is missing.
\* Words in front of the last option are not read at all (mjc.cpp:74 counts
\* those behind it), and a missing value goes unnoticed if the option has
\* occurred before (mjc -O 3 -h -O).
DecidesRight(argv, d) ==
    LET tool == argv[1]
        values == Values(argv)
        options == {i \in DOMAIN argv \ values : IsFlag(tool, argv[i])}
        at == [g \in Groups(tool) |-> {i \in options : argv[i] \in Flags[g]}]
        asked == [g \in Groups(tool) |-> IF at[g] = {} THEN Defaults[g]
                                         ELSE argv[Min(at[g]) + 1]]
        complete == \A i \in options : TakesValue(tool, argv[i]) =>
                       IF i < Len(argv) THEN argv[i + 1] # ""
                       ELSE \E j \in at[GroupOf(tool, argv[i])] : j < i
        operands == {i \in DOMAIN argv \ (options \cup values) :
                        i > 1 /\ \A j \in options : j < i}
        starts == /\ complete /\ at["help"] = {} /\ Cardinality(operands) = 1
                  /\ tool = "mjc" => asked["type"] \in OutputType
    IN  /\ d.does = "run" <=> starts
        /\ starts => /\ operands = {i \in DOMAIN argv : i = Len(argv)}
                     /\ d.input = argv[Len(argv)]
                     /\ tool = "mjc" => /\ d.type = asked["type"]
                                        /\ d.level = Atoi(asked["level"])
        /\ d = Exit("0") <=> complete /\ at["help"] # {}
=============================================================================
