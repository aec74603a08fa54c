------------------------------- MODULE CmdOpt -------------------------------
(***************************************************************************)
(* cmdOptParse of libdigi: one call with the table of options a program    *)
(* declares and its command line.  An entry with a letter or without one   *)
(* (-1) is an option, one with 0 a parameter that has to be there.  A text *)
(* is a model value; two constants say which number it is.                 *)
(* getopt_long reorders argv: options first, then the other words.  It is  *)
(* called with whole options: -ab in one word and abbreviated names are    *)
(* not among the command lines.                                            *)
(***************************************************************************)
EXTENDS Integers, Sequences, FiniteSets, FiniteSetsExt

CONSTANTS
    MaxEntries,     \* MAX_ENTRIES (32)
    EntryLists,     \* tables as declared, each ended by COT_NONE
    CommandLines,   \* sequences of [kind, char, name, arg, text], arg = "" for none
    NumberOf,       \* what atoi, or sscanf behind 0x, makes of a text
    NotHex          \* texts of more than two characters with 0x and no digit

VARIABLES
    pc, entries, argv,  \* argv: what getopt_long has not seen yet
    table,              \* cmdOptEntries
    n,                  \* nOptIndex of the last loop
    words,              \* argv[optind..], in the end
    values, present,    \* *vValuePtr and *pbPresent, by szLabelStr
    given               \* history: the options and words read so far

vars == <<pc, entries, argv, table, n, words, values, present, given>>

NULL == "NULL"
Unset == <<"unset">>
Set == <<"number", 1>>
Entry(type, char, label) == [type |-> type, cOptChar |-> char, szLabelStr |-> label]
None == Entry("NONE", 0, "")
Defaults == <<Entry("BOOL", -1, "version"), Entry("BOOL", 104, "help"),
              Entry("INT", 108, "log-level")>>
More == {"MORE", "MORE_OPT"}
LabelsIn(t) == {t[k].szLabelStr : k \in {j \in DOMAIN t : t[j].type \notin More \cup {"NONE"}}}

\* pbPresent is optional; whoever has one finds in it what this call saw
Init ==
    /\ pc = "copy" /\ entries \in EntryLists /\ argv \in CommandLines
    /\ table = Defaults /\ n = 1 /\ words = <<>> /\ given = <<>>
    /\ values = [l \in LabelsIn(Defaults \o entries) |-> Unset]
    /\ present = [l \in LabelsIn(entries) |-> TRUE]

(* The table is copied behind the default entries, as far as it fits.      *)
CopyEntry ==
    /\ pc = "copy"
    /\ LET e == entries[Len(table) - Len(Defaults) + 1]
       IN IF Len(table) = MaxEntries THEN pc' = "too_many" /\ UNCHANGED table
          ELSE /\ table' = Append(table, e)
               /\ pc' = IF e = None THEN "options" ELSE pc
    /\ UNCHANGED <<entries, argv, n, words, values, present, given>>

-----------------------------------------------------------------------------
(* axLongOptions and szOptLine.  A long option is told by a number below   *)
(* -1, which is the end of the options; C counts entries from 0.           *)
nSize == Len(table) - 1
HasArg(k) == table[k].type # "BOOL"
LongVal(k) == -2 - (k - 1)
IndexOf(cOptChar) == -2 - cOptChar + 1
LongOptions == {k \in 1 .. nSize : table[k].type \notin More}
ShortOptions == {k \in 1 .. nSize : table[k].cOptChar > 0}
SignedChar(x) == ((x + 128) % 256) - 128

BuildOptions_present_kept ==    \* mutant
    /\ pc = "options" /\ pc' = "getopt"
    /\ UNCHANGED <<entries, argv, table, n, words, values, present, given>>
BuildOptions ==
    /\ pc = "options" /\ pc' = "getopt"
    /\ present' = [l \in DOMAIN present |-> FALSE]
    /\ UNCHANGED <<entries, argv, table, n, words, values, given>>

(* What getopt_long returns for the first of argv: the first option of     *)
(* that name, unless its argument is missing or unwanted.                  *)
Question == 63
Named(o) ==
    IF o.kind = "long" THEN {k \in LongOptions : table[k].szLabelStr = o.name}
    ELSE {k \in ShortOptions : table[k].cOptChar = o.char}
getopt_long ==
    LET o == Head(argv)
        k == Min(Named(o))
        next == o.arg = "" /\ HasArg(k)
        char == IF o.kind = "long" THEN SignedChar(LongVal(k)) ELSE o.char
    IN IF \/ Named(o) = {}
          \/ next /\ Len(argv) = 1
          \/ o.arg # "" /\ ~HasArg(k)
       THEN [char |-> Question, optarg |-> NULL, used |-> 1]
       ELSE [char |-> char, used |-> IF next THEN 2 ELSE 1,
             optarg |-> CASE next -> argv[2].text
                          [] ~HasArg(k) -> NULL
                          [] OTHER -> o.arg]

(* A text that begins with 0x and goes on without a digit is no number and *)
(* leaves the variable as it was.                                          *)
Converted(type, old, text) ==
    CASE type = "BOOL" -> Set
      [] type = "STRING" -> <<"text", text>>
      [] type = "INT" /\ text \in NotHex -> old
      [] OTHER -> <<"number", NumberOf[text]>>

updateVar(S, text) ==
    LET of(l) == {k \in S : table[k].szLabelStr = l}
    IN /\ values' = [l \in DOMAIN values |->
              IF of(l) = {} THEN values[l]
              ELSE Converted(table[Min(of(l))].type, values[l], text)]
       /\ present' = [l \in DOMAIN present |-> present[l] \/ of(l) # {}]

(* getopt_long passes over a word, and stops at "--" or at the end.        *)
NextKind == IF argv = <<>> THEN "end" ELSE Head(argv).kind
PassWord ==
    /\ pc = "getopt" /\ NextKind = "word"
    /\ words' = Append(words, Head(argv).text)
    /\ given' = Append(given, Head(argv))
    /\ argv' = Tail(argv)
    /\ UNCHANGED <<pc, entries, table, n, values, present>>

EndOfOptions ==
    /\ pc = "getopt" /\ NextKind = "end"
    /\ LET rest == [k \in 1 .. Len(argv) - 1 |-> [argv[k + 1] EXCEPT !.kind = "word"]]
       IN /\ words' = words \o [k \in DOMAIN rest |-> rest[k].text]
          /\ given' = given \o rest
    /\ argv' = <<>> /\ pc' = "defaults"
    /\ UNCHANGED <<entries, table, n, values, present>>

(* Every entry of that letter is set: a program may have one of -h and -l. *)
Owners(char) ==
    IF char < 0 THEN {IndexOf(char)} ELSE {k \in 1 .. nSize : table[k].cOptChar = char}
ParseOption ==
    /\ pc = "getopt" /\ NextKind \in {"long", "short"}
    /\ LET r == getopt_long
       IN IF r.char = -1 \/ Owners(r.char) = {}
          THEN /\ pc' = IF r.char = -1 THEN "defaults" ELSE "usage"
               /\ UNCHANGED <<argv, values, present, given>>
          ELSE /\ updateVar(Owners(r.char), r.optarg)
               /\ argv' = SubSeq(argv, r.used + 1, Len(argv))
               /\ given' = Append(given, [Head(argv) EXCEPT !.arg = r.optarg])
               /\ UNCHANGED pc
    /\ UNCHANGED <<entries, table, n, words>>

-----------------------------------------------------------------------------
VersionOrHelp ==
    /\ pc = "defaults"
    /\ pc' = CASE values["version"] = Set -> "version"
               [] values["version"] # Set /\ values["help"] = Set -> "usage"
               [] OTHER -> "parameters"
    /\ UNCHANGED <<entries, argv, table, n, words, values, present, given>>

(* The parameters, in the order of the table; COT_MORE and COT_MORE_OPT    *)
(* leave the words from here on to the caller.                             *)
Required(t, k) == t[k].cOptChar = 0 /\ t[k] # None
SkipOption ==
    /\ n <= nSize /\ ~Required(table, n) /\ n' = n + 1
    /\ UNCHANGED <<pc, words, values, present>>
TakeWord ==
    /\ n <= nSize /\ Required(table, n) /\ table[n].type \notin More /\ words # <<>>
    /\ updateVar({n}, Head(words)) /\ words' = Tail(words)
    /\ n' = n + 1 /\ UNCHANGED pc
LeaveRest ==
    /\ n <= nSize /\ Required(table, n) /\ table[n].type \in More
    /\ table[n].type = "MORE_OPT" \/ words # <<>>
    /\ pc' = "returned" /\ UNCHANGED <<n, words, values, present>>
WrongNumber ==
    /\ IF n > nSize THEN words # <<>>
       ELSE words = <<>> /\ Required(table, n) /\ table[n].type # "MORE_OPT"
    /\ pc' = "usage" /\ UNCHANGED <<n, words, values, present>>
AllRead ==
    /\ n > nSize /\ words = <<>>
    /\ pc' = "returned" /\ UNCHANGED <<n, words, values, present>>
Parameter ==
    /\ pc = "parameters"
    /\ SkipOption \/ TakeWord \/ LeaveRest \/ WrongNumber \/ AllRead
    /\ UNCHANGED <<entries, argv, table, given>>

Over == pc \in {"returned", "usage", "version", "too_many"}
Terminated == Over /\ UNCHANGED vars

Next == CopyEntry \/ BuildOptions \/ PassWord \/ ParseOption \/ EndOfOptions
            \/ VersionOrHelp \/ Parameter \/ Terminated
Spec == Init /\ [][Next]_vars
-----------------------------------------------------------------------------
(* The arrays of MAX_ENTRIES hold the table with its end, and a program is *)
(* refused for its table only when they cannot.                            *)
TableFits ==
    /\ Len(table) <= MaxEntries
    /\ pc = "too_many" => Len(Defaults) + Len(entries) > MaxEntries

(* Each option has the value it was last given, by its letter or its       *)
(* label, and "present" says whether it was given in this call.            *)
Declared == Defaults \o entries
Gives(j, e) ==
    LET o == given[j]
    IN \/ o.kind = "long" /\ o.name = e.szLabelStr
       \/ o.kind = "short" /\ o.char = e.cOptChar
NoNumber(e, text) == e.type = "INT" /\ text \in NotHex
OptionsAreSet ==
    \A k \in DOMAIN Declared :
        LET e == Declared[k]
            all == {j \in DOMAIN given : Gives(j, e)}
            S == {j \in all : ~NoNumber(e, given[j].arg)}
        IN e # None /\ ~Required(Declared, k) =>
            /\ values[e.szLabelStr] = IF S = {} THEN Unset
                                      ELSE Converted(e.type, Unset, given[Max(S)].arg)
            /\ e.szLabelStr \in DOMAIN present => present[e.szLabelStr] = (all # {})

(* The i-th parameter is the i-th word, wherever options stand between; the *)
(* caller gets what is left, and some when the table ends with COT_MORE.   *)
WordsGiven == SelectSeq(given, LAMBDA o : o.kind = "word")
Parameters == {k \in DOMAIN Declared : Required(Declared, k) /\ Declared[k].type \notin More}
Types == {Declared[k].type : k \in DOMAIN Declared}
NumberOfWordsFits ==
    LET left == Len(WordsGiven) - Cardinality(Parameters)
    IN CASE "MORE" \in Types -> left > 0
         [] "MORE" \notin Types /\ "MORE_OPT" \in Types -> left >= 0
         [] OTHER -> left = 0
ParametersAreSet ==
    /\ NumberOfWordsFits
    /\ Len(words) = Len(WordsGiven) - Cardinality(Parameters)
    /\ \A k \in Parameters :
        LET text == WordsGiven[Cardinality({j \in Parameters : j <= k})].text
        IN \/ NoNumber(Declared[k], text)
           \/ values[Declared[k].szLabelStr] = Converted(Declared[k].type, Unset, text)

(* Version and help come first; otherwise the usage is shown only for an   *)
(* option that getopt_long refused and for the number of words.            *)
Asks(label) == \E j \in DOMAIN given, k \in DOMAIN Defaults :
                    Defaults[k].szLabelStr = label /\ Gives(j, Defaults[k])
Refused == argv # <<>> \/ Asks("help") \/ ~NumberOfWordsFits

AsDeclared ==
    /\ TableFits
    /\ pc = "returned" => OptionsAreSet /\ ParametersAreSet
    /\ pc = "version" => Asks("version")
    /\ pc = "usage" => Refused
    /\ pc \in {"parameters", "returned"} => ~Asks("version") /\ ~Asks("help")
=============================================================================
