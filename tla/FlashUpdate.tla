---------------------------- MODULE FlashUpdate ----------------------------
(***************************************************************************)
(* What update_flash promises whoever starts it, without saying how: the   *)
(* partitions named on the command line are left alone until everything    *)
(* has been checked; from then on each is old, torn or new; and success is *)
(* reported only when all of them are new.  A failed update may be         *)
(* repeated.                                                               *)
(***************************************************************************)
CONSTANT Targets    \* the partitions to update

VARIABLES contents, \* "old", "torn" or "new", for every target
          status    \* of the current invocation

Init ==
    /\ contents = [p \in Targets |-> "old"]
    /\ status = "checking"

(* All checks have passed.                                                 *)
Begin ==
    /\ status = "checking"
    /\ status' = "updating"
    /\ UNCHANGED contents

(* A partition that is being rewritten is neither old nor new.             *)
Tear(p) ==
    /\ status = "updating"
    /\ contents' = [contents EXCEPT ![p] = "torn"]
    /\ UNCHANGED status

Complete(p) ==
    /\ status = "updating"
    /\ contents' = [contents EXCEPT ![p] = "new"]
    /\ UNCHANGED status

(* Success is reported, possibly with the last partition's completion.     *)
Succeed ==
    /\ status = "updating"
    /\ status' = "succeeded"
    /\ \E p \in Targets : contents' \in {contents, [contents EXCEPT ![p] = "new"]}
    /\ \A p \in Targets : contents'[p] = "new"

(* An error, a kill or a power failure; while updating it may also spoil   *)
(* or restore the partition being worked on.                               *)
Abort ==
    /\ status \in {"checking", "updating"}
    /\ status' = "failed"
    /\ \/ UNCHANGED contents
       \/ /\ status = "updating"
          /\ \E p \in Targets, c \in {"torn", "new"} :
                contents' = [contents EXCEPT ![p] = c]

(* The next invocation may name other files: what was new need not be what *)
(* is wanted now, and what was torn may be.                                *)
Repeat ==
    /\ status = "failed"
    /\ status' = "checking"
    /\ contents' \in [Targets -> {"old", "torn", "new"}]
    /\ \A p \in Targets : contents'[p] = "old" <=> contents[p] = "old"

Next ==
    \/ Begin \/ Succeed \/ Abort \/ Repeat
    \/ \E p \in Targets : Tear(p) \/ Complete(p)

Spec == Init /\ [][Next]_<<contents, status>>
=============================================================================
