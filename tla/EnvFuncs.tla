------------------------------ MODULE EnvFuncs ------------------------------
(***************************************************************************)
(* env_funcs.c: the environment as bytes, <string>\0<string>\0\0, changed  *)
(* in place in a buffer of envlen bytes.  The two bytes behind the buffer  *)
(* belong to somebody else; a scan that gets further than that finds a NUL.*)
(***************************************************************************)
EXTENDS Integers, Sequences, FiniteSets, FiniteSetsExt

CONSTANTS
    EnvLen,     \* envlen
    VarStrings  \* arguments of add_var: sequences of characters with an "="

NUL == "NUL"
\* the characters of the arguments, and what is behind the buffer
Chars == {"?"} \cup UNION {{s[k] : k \in 1..Len(s)} : s \in VarStrings}

ASSUME ConstantsAssumption ==
    /\ EnvLen \in Nat /\ EnvLen >= 2
    /\ VarStrings \subseteq Seq(Chars) /\ NUL \notin Chars
    /\ \A s \in VarStrings : "=" \in {s[k] : k \in 1..Len(s)} /\ s[1] # "="

VARIABLES
    buf, ret,
    cut         \* history: something was added that there was no room for

vars == <<buf, ret, cut>>

NULL == -1
from == 0
till == EnvLen
Behind == {EnvLen, EnvLen + 1}
Cells == 0..(EnvLen + 1)
At(b, i) == IF i \in Cells THEN b[i] ELSE NUL

(* The string at i, as a sequence of characters.                           *)
EndOf(b, i) == Min({j \in i..(EnvLen + 2) : At(b, j) = NUL})
StringAt(b, i) == [k \in 1..(EndOf(b, i) - i) |-> b[i + k - 1]]

get_var_name(s) == SubSeq(s, 1, Min({k \in 1..Len(s) : s[k] = "="}) - 1)

get_next_env_string(b, i) ==
    LET e == Min({j \in i..Max({i, till}) : j >= till \/ At(b, j) = NUL})
    IN IF At(b, i) = NUL \/ (e = till /\ At(b, e) # NUL) THEN NULL ELSE e + 1

(* strstr(data, "name=") at the very beginning of the string.              *)
StartsWith_anywhere(s, name) ==     \* mutant: strstr without var_addr == data
    \E k \in 1..Len(s) :
       Len(s) >= k + Len(name) /\ SubSeq(s, k, k + Len(name)) = name \o <<"=">>
StartsWith(s, name) ==
    Len(s) > Len(name) /\ SubSeq(s, 1, Len(name) + 1) = name \o <<"=">>
get_var_addr(b, start, name) ==
    LET walk[i \in start..(EnvLen + 2)] ==
          IF i < till /\ StartsWith(StringAt(b, i), name) THEN i
          ELSE LET next == get_next_env_string(b, i)
               IN IF next = NULL \/ next > EnvLen + 2 THEN NULL ELSE walk[next]
    IN walk[start]

(* The second of the first two NULs in a row.                              *)
get_end_mark(b, start) ==
    LET ends == {p \in (start + 1)..till : At(b, p - 1) = NUL /\ At(b, p) = NUL}
    IN IF ends = {} THEN NULL ELSE Min(ends)

(***************************************************************************)
(* remove_var moves what follows the variable over it and zeroes the rest; *)
(* the result is the buffer and the return value.                          *)
(***************************************************************************)
Removed_not_zeroed(b, addr, var_end, env_end) ==    \* mutant
    [i \in Cells |-> IF i \in addr..(addr + env_end - var_end - 1) THEN b[i + var_end - addr] ELSE b[i]]
Removed(b, addr, var_end, env_end) ==
    [i \in Cells |->
        IF i \notin addr..env_end THEN b[i]
        ELSE IF i + var_end - addr <= env_end THEN b[i + var_end - addr] ELSE NUL]

remove_var(b, start, name) ==
    LET addr    == get_var_addr(b, start, name)
        env_end == get_end_mark(b, addr)
        var_end == get_next_env_string(b, addr)
    IN IF addr = NULL \/ env_end = NULL \/ var_end = NULL
       THEN [buf |-> b, ret |-> 0]
       ELSE [buf |-> Removed(b, addr, var_end, env_end), ret |-> 1]

(***************************************************************************)
(* add_var removes the old value, appends the string up to till and then   *)
(* writes the two NULs, wherever that is.                                  *)
(***************************************************************************)
Place(mark) == IF mark = from + 1 THEN mark - 1 ELSE mark
Appended_three_NULs(b, mark, s) ==   \* mutant: one NUL too many
    LET addr == Place(mark)
        n    == Min({Len(s), till - addr})
    IN [i \in Cells |-> IF i \in addr..(addr + n - 1) THEN s[i - addr + 1]
                        ELSE IF i \in (addr + n)..(addr + n + 2) THEN NUL ELSE b[i]]
Appended(b, mark, s) ==
    LET addr == Place(mark)
        n    == Min({Len(s), till - addr})
    IN [i \in Cells |-> IF i \in addr..(addr + n - 1) THEN s[i - addr + 1]
                        ELSE IF i \in {addr + n, addr + n + 1} THEN NUL ELSE b[i]]
WithoutOld(b, s) ==
    LET addr == get_var_addr(b, from, get_var_name(s))
    IN IF addr = NULL THEN [buf |-> b, ret |-> 1]
       ELSE remove_var(b, addr, get_var_name(s))
add_var(b, s) ==
    LET removed == WithoutOld(b, s)
        mark    == get_end_mark(removed.buf, from)
    IN IF removed.ret = 0 \/ mark = NULL
       THEN [buf |-> removed.buf, ret |-> 0]
       ELSE [buf |-> Appended(removed.buf, mark, s), ret |-> 1]

-----------------------------------------------------------------------------
(* The strings a reader of the environment finds (env_printenv --dump).    *)
StringsIn(b) ==
    LET starts[i \in 0..(EnvLen + 2)] ==
          IF At(b, i) = NUL THEN {}
          ELSE LET next == get_next_env_string(b, i)
               IN {i} \cup (IF next = NULL \/ next > EnvLen + 2 THEN {} ELSE starts[next])
    IN {StringAt(b, i) : i \in starts[0]}

(* Whether s and two NULs fit behind what is left without its old value:   *)
(* neither add_var nor its callers ask.                                    *)
Fits(mark, s) == mark # NULL /\ Place(mark) + Len(s) + 2 <= EnvLen
HasRoom(b, s) ==
    LET left == WithoutOld(b, s).buf IN Fits(get_end_mark(left, from), s)

Init ==
    /\ buf \in {[i \in Cells |-> IF i \in Behind THEN x[i] ELSE NUL] : x \in [Behind -> {NUL, "?"}]}
    /\ ret = 1 /\ cut = FALSE

Add(s) ==
    /\ buf' = add_var(buf, s).buf
    /\ ret' = add_var(buf, s).ret
    /\ cut' = (cut \/ ~HasRoom(buf, s))

Remove(name) ==
    /\ buf' = remove_var(buf, from, name).buf
    /\ ret' = remove_var(buf, from, name).ret
    /\ UNCHANGED cut

Names == {get_var_name(s) : s \in VarStrings}
Next == (\E s \in VarStrings : Add(s)) \/ (\E n \in Names : Remove(n))
Spec == Init /\ [][Next]_vars
-----------------------------------------------------------------------------
(***************************************************************************)
(* The type invariant, with the shape of the buffer: nothing but NULs      *)
(* behind the end mark ("just to have a clean environment"), so that what  *)
(* was removed leaves no trace - until something is added that there is no *)
(* room for; an end mark need not be left after that.                      *)
(***************************************************************************)
TypeOK ==
    /\ buf \in [Cells -> {NUL} \cup Chars] /\ ret \in {0, 1} /\ cut \in BOOLEAN
    /\ ~cut => \A i \in get_end_mark(buf, from)..(EnvLen - 1) : buf[i] = NUL

(***************************************************************************)
(* The two bytes behind the buffer change in no other step than the        *)
(* addition of a string that does not fit: not by what is removed, not by  *)
(* what just fits, and not by anything done with a buffer that has lost    *)
(* its end mark.  That one step does overwrite them (add_var stops the     *)
(* string at till and then writes two NULs).                               *)
(***************************************************************************)
StaysInBuffer ==
    [][(\E i \in Behind : buf'[i] # buf[i]) =>
          \E s \in VarStrings : Add(s) /\ ~HasRoom(buf, s)]_vars

(***************************************************************************)
(* The bytes implement a set of variables: adding replaces, removing       *)
(* leaves the others alone, and failure leaves everything alone, as long   *)
(* as nothing was added that there is no room for.                         *)
(***************************************************************************)
Store == INSTANCE EnvStore WITH
    Strings <- VarStrings, Name <- get_var_name,
    env <- StringsIn(buf), ret <- ret, lost <- cut
StoreSpec == Store!Spec

(***************************************************************************)
(* "Return: 1 on success, 0 otherwise" (add_var): when it returns 1 the    *)
(* string is in the environment.                                           *)
(***************************************************************************)
AddedIsThere ==
    [][\A s \in VarStrings : Add(s) /\ ret' = 1 => s \in StringsIn(buf')]_vars
=============================================================================
