----------------------------- MODULE MCFunctions -----------------------------
(***************************************************************************)
(* The functions that other programs call: env_funcs.c, and cmdOptParse    *)
(* and crc32 of libdigi.  Which of them is called is chosen at the start;  *)
(* the variables of the others stay as they are.                           *)
(***************************************************************************)
EXTENDS EnvFuncs

\* three names, one ending in another, values of no to two characters
SomeStrings == {<<"a", "=">>, <<"a", "=", "x">>, <<"a", "=", "a", "=">>,
                <<"b", "=", "y">>, <<"b", "=", "x", "x">>,
                <<"b", "a", "=">>, <<"b", "a", "=", "x">>}

CONSTANT MaxWords   \* bound: words on a command line

VARIABLES
    function,
    pc, entries, argv, table, n, words, values, present, given, \* CmdOpt
    uiCRC, data                                                 \* Crc32

opt_vars == <<pc, entries, argv, table, n, words, values, present, given>>
crc_vars == <<uiCRC, data>>
all_vars == <<function, vars, opt_vars, crc_vars>>

-----------------------------------------------------------------------------
(* Tables: options and COT_MORE, as in update_flash; a letter of the       *)
(* default entries and COT_MORE_OPT; parameters alone; just as many as fit *)
(* and one more.                                                           *)
E(type, char, label) == [type |-> type, cOptChar |-> char, szLabelStr |-> label]
End == E("NONE", 0, "")
Tables ==
    LET verify == E("BOOL", 118, "verify")
        dry == E("BOOL", -1, "dry-run")
        tmpdir == E("STRING", 116, "tmpdir")
        list == E("STRING", 108, "list")
        number == E("INT", 110, "number")
        first == E("INT", 0, "first")
        second == E("STRING", 0, "second")
    IN {<<verify, dry, tmpdir, E("MORE", 0, "files"), End>>,
        <<number, list, E("MORE_OPT", 0, "rest"), End>>,
        <<first, verify, second, End>>,
        <<verify, dry, tmpdir, list, number, End>>}
Option(kind, char, name, arg, text) ==
    [kind |-> kind, char |-> char, name |-> name, arg |-> arg, text |-> text]
Words ==
    {Option("word", 0, "", "", "7"), Option("word", 0, "", "", "0xg"),
     Option("short", 118, "", "", "-v"), Option("short", 116, "", "", "-t"),
     Option("short", 110, "", "7", "-n7"), Option("short", 108, "", "", "-l"),
     Option("short", 104, "", "", "-h"), Option("long", 0, "verify", "", "--verify"),
     Option("long", 0, "dry-run", "", "--dry-run"),
     Option("long", 0, "number", "0xg", "--number=0xg"),
     Option("long", 0, "first", "", "--first"),
     Option("long", 0, "version", "", "--version"), Option("end", 0, "", "", "--")}
Texts == {w.text : w \in Words} \cup {w.arg : w \in Words}

Opt == INSTANCE CmdOpt WITH
    MaxEntries <- 8, EntryLists <- Tables,
    CommandLines <- UNION {[1 .. k -> Words] : k \in 0 .. MaxWords},
    NumberOf <- [t \in Texts |-> IF t = "7" THEN 7 ELSE 0], NotHex <- {"0xg"}

\* up to four bytes, of no bit, one bit or many
Bytes == {{}, {0}, {7}, {1, 2, 5}}
Crc == INSTANCE Crc32 WITH
    Blocks <- UNION {[1 .. k -> Bytes] : k \in 0 .. 2}, MaxLen <- 4

-----------------------------------------------------------------------------
Off == "off"
env_off == buf = [i \in Cells |-> NUL] /\ ret = 1 /\ cut = FALSE
opt_off ==
    /\ pc = Off /\ entries = Off /\ argv = Off /\ table = Off /\ n = Off
    /\ words = Off /\ values = Off /\ present = Off /\ given = Off
crc_off == uiCRC = Off /\ data = Off

AnyInit ==
    \/ function = "env_funcs" /\ Init /\ opt_off /\ crc_off
    \/ function = "cmdOptParse" /\ Opt!Init /\ env_off /\ crc_off
    \/ function = "crc32" /\ Crc!Init /\ env_off /\ opt_off
AnyNext ==
    \/ function = "env_funcs" /\ Next /\ UNCHANGED <<function, opt_vars, crc_vars>>
    \/ function = "cmdOptParse" /\ Opt!Next /\ UNCHANGED <<function, vars, crc_vars>>
    \/ function = "crc32" /\ Crc!Next /\ UNCHANGED <<function, vars, opt_vars>>
AnySpec == AnyInit /\ [][AnyNext]_all_vars

-----------------------------------------------------------------------------
(***************************************************************************)
(* libdigi does for its callers what they rely on: the variables are what  *)
(* the command line says by the table they declared, within the arrays,    *)
(* and a checksum carried over blocks is the checksum of the whole.        *)
(***************************************************************************)
LibdigiAsPromised ==
    /\ function = "cmdOptParse" => Opt!AsDeclared
    /\ function = "crc32" => Crc!BlocksContinue
=============================================================================
