------------------------------ MODULE EnvStore ------------------------------
(***************************************************************************)
(* What env_funcs.c promises its caller: a set of "name=value" strings, at *)
(* most one for each name; a call that reports failure changes nothing.    *)
(* It promises this until a string is added that there is no room for, and *)
(* nothing from then on.                                                   *)
(***************************************************************************)
CONSTANTS Strings,  \* the strings that may be added
          Name(_)   \* the variable's name in a string

VARIABLES env,      \* the strings of the environment
          ret,      \* what the last call returned
          lost      \* history: a string was added without room

Init == env = {} /\ ret = 1 /\ lost = FALSE

Without(n) == {s \in env : Name(s) # n}

Add(s) == env' = Without(Name(s)) \cup {s} /\ ret' = 1
Remove(n) == (\E s \in env : Name(s) = n) /\ env' = Without(n) /\ ret' = 1
Fail == ret' = 0 /\ UNCHANGED env

Next ==
    \/ lost' = TRUE
    \/ /\ ~lost /\ lost' = FALSE
       /\ Fail \/ \E s \in Strings : Add(s) \/ Remove(Name(s))
Spec == Init /\ [][Next]_<<env, ret, lost>>
=============================================================================
