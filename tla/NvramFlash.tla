----------------------------- MODULE NvramFlash -----------------------------
(***************************************************************************)
(* nvram_priv_linux.c: how the NVRAM library reaches the flash partition.  *)
(* The library itself is external: it opens the partition, asks which      *)
(* blocks are bad and reads, erases and writes the others, in any order.   *)
(* Every access to the device may fail, and a write may store something    *)
(* else than it was given.                                                 *)
(***************************************************************************)
EXTENDS Integers, FiniteSets

CONSTANTS
    Blocks,         \* erase blocks of the partition
    bbMaxRetries,
    MaxErrors       \* bound: failing or corrupting accesses

ASSUME ConstantsAssumption == bbMaxRetries \in Nat \ {0} /\ MaxErrors \in Nat

VARIABLES
    flash, bad,         \* the device: content and bad block table
    locked,             \* blocks that are write protected
    g_markBadBlocks,    \* -b
    mode,               \* l_iFdMtd: "closed", "reading" or "writing"
    pc, b, i,           \* the call under way, its block, its loop counter
    misses,             \* history: accesses to b that failed in a row
    errors

vars == <<flash, bad, locked, g_markBadBlocks, mode, pc, b, i, misses, errors>>
device == <<flash, bad, locked>>

Init ==
    /\ flash = [x \in Blocks |-> "old"] /\ bad \in SUBSET Blocks /\ locked \in {{}, Blocks}
    /\ g_markBadBlocks \in BOOLEAN
    /\ mode = "closed" /\ pc = "returned" /\ b \in Blocks
    /\ i = 0 /\ misses = 0 /\ errors = 0

Call == pc \in {"returned", "failed"}
Error == errors < MaxErrors /\ errors' = errors + 1
Return(l) == pc' = l /\ UNCHANGED <<b, i, misses>>

-----------------------------------------------------------------------------
NvPrivOSFlashOpen ==
    /\ Call /\ mode = "closed"
    /\ \/ mode' \in {"reading", "writing"} /\ Return("returned") /\ UNCHANGED errors
       \/ Error /\ Return("failed") /\ UNCHANGED mode
    /\ UNCHANGED <<device, g_markBadBlocks>>

NvPrivOSFlashClose ==
    /\ Call /\ mode # "closed"
    /\ mode' = "closed" /\ Return("returned")
    /\ UNCHANGED <<device, g_markBadBlocks, errors>>

(* MEMLOCK and MEMUNLOCK; a device that has neither is no error.           *)
NvPrivOSFlashProtect ==
    /\ Call /\ mode = "writing"
    /\ \/ /\ \E x \in Blocks : locked' \in {locked \cup {x}, locked \ {x}}
          /\ Return("returned") /\ UNCHANGED errors
       \/ Error /\ Return("failed") /\ UNCHANGED locked
    /\ UNCHANGED <<flash, bad, g_markBadBlocks, mode>>

(* "we are not called for bad sectors": the library asks FlashInfo first.  *)
Usable(x) == x \notin bad

NvPrivOSFlashErase ==
    /\ Call /\ mode = "writing"
    /\ \E x \in Blocks :
         /\ Usable(x) /\ x \notin locked
         /\ \/ flash' = [flash EXCEPT ![x] = "erased"] /\ Return("returned") /\ UNCHANGED errors
            \/ Error /\ Return("failed") /\ UNCHANGED flash
    /\ UNCHANGED <<bad, locked, g_markBadBlocks, mode>>

(***************************************************************************)
(* The loops of FlashRead and FlashWrite: without -b the first failure is  *)
(* returned, with -b the access is tried again, bbMaxRetries times in all, *)
(* and then the block is marked bad.                                       *)
(***************************************************************************)
MarkBadBlock ==
    /\ pc' = "failed" /\ i' = i + 1
    /\ \/ bad' = bad \cup {b}
       \/ UNCHANGED bad         \* the ioctl fails

TryAgain_once_more(l) ==        \* mutant: <= in the loop condition
    /\ Error /\ misses' = misses + 1
    /\ IF i + 1 <= bbMaxRetries THEN i' = i + 1 /\ pc' = l /\ UNCHANGED bad ELSE MarkBadBlock
    /\ UNCHANGED b
TryAgain(l) ==
    /\ Error /\ misses' = misses + 1
    /\ IF i + 1 < bbMaxRetries THEN i' = i + 1 /\ pc' = l /\ UNCHANGED bad ELSE MarkBadBlock
    /\ UNCHANGED b

GiveUp == Error /\ pc' = "failed" /\ UNCHANGED <<bad, b, i, misses>>

Start(l, S) ==
    /\ Call
    /\ \E x \in S : Usable(x) /\ b' = x
    /\ pc' = l /\ i' = 0 /\ misses' = 0
    /\ UNCHANGED <<device, g_markBadBlocks, mode, errors>>

NvPrivOSFlashRead == mode # "closed" /\ Start("read", Blocks)
ReadStep ==
    /\ pc = "read"
    /\ \/ Return("returned") /\ UNCHANGED <<bad, errors>>
       \/ g_markBadBlocks /\ TryAgain("read")
       \/ ~g_markBadBlocks /\ GiveUp
    /\ UNCHANGED <<flash, locked, g_markBadBlocks, mode>>

NvPrivOSFlashWrite == mode = "writing" /\ Start("write", Blocks \ locked)

(* pwrite: all of it, all of it but not what was meant, or not all. With   *)
(* -b the block is then read back, unless malloc finds no memory for it.   *)
WriteStep_counts_on ==          \* mutant: the inner loop does not start at 0
    /\ pc = "write"
    /\ \/ /\ \/ flash' = [flash EXCEPT ![b] = "new"] /\ UNCHANGED errors
             \/ flash' = [flash EXCEPT ![b] = "broken"] /\ Error
          /\ IF g_markBadBlocks THEN pc' = "verify" /\ misses' = 0 /\ UNCHANGED <<b, i>>
                                ELSE Return("returned")
          /\ UNCHANGED bad
       \/ g_markBadBlocks /\ flash' = [flash EXCEPT ![b] = "new"] /\ GiveUp
       \/ /\ flash' \in {flash, [flash EXCEPT ![b] = "broken"]}
          /\ (g_markBadBlocks /\ TryAgain("write")) \/ (~g_markBadBlocks /\ GiveUp)
    /\ UNCHANGED <<locked, g_markBadBlocks, mode>>
WriteStep ==
    /\ pc = "write"
    /\ \/ /\ \/ flash' = [flash EXCEPT ![b] = "new"] /\ UNCHANGED errors
             \/ flash' = [flash EXCEPT ![b] = "broken"] /\ Error
          /\ IF g_markBadBlocks THEN pc' = "verify" /\ i' = 0 /\ misses' = 0 /\ UNCHANGED b
                                ELSE Return("returned")
          /\ UNCHANGED bad
       \/ g_markBadBlocks /\ flash' = [flash EXCEPT ![b] = "new"] /\ GiveUp
       \/ /\ flash' \in {flash, [flash EXCEPT ![b] = "broken"]}
          /\ (g_markBadBlocks /\ TryAgain("write")) \/ (~g_markBadBlocks /\ GiveUp)
    /\ UNCHANGED <<locked, g_markBadBlocks, mode>>

(* A mismatch is read again, never written again.                          *)
Mismatch_forever ==     \* mutant: reads again without counting
    /\ flash[b] # "new"
    /\ misses' = 1 /\ UNCHANGED <<errors, b, i, pc, bad>>
Mismatch ==
    /\ flash[b] # "new"
    /\ misses' = misses + 1 /\ UNCHANGED <<errors, b>>
    /\ IF i + 1 < bbMaxRetries THEN i' = i + 1 /\ UNCHANGED <<pc, bad>> ELSE MarkBadBlock

VerifyStep_any_data ==          \* mutant: the result of memcmp is not used
    /\ pc = "verify"
    /\ \/ Return("returned") /\ UNCHANGED <<bad, errors>>
       \/ TryAgain("verify")
    /\ UNCHANGED <<flash, locked, g_markBadBlocks, mode>>
VerifyStep ==
    /\ pc = "verify"
    /\ \/ flash[b] = "new" /\ Return("returned") /\ UNCHANGED <<bad, errors>>
       \/ Mismatch
       \/ TryAgain("verify")
    /\ UNCHANGED <<flash, locked, g_markBadBlocks, mode>>

Steps == ReadStep \/ WriteStep \/ VerifyStep
Next ==
    \/ NvPrivOSFlashOpen \/ NvPrivOSFlashClose \/ NvPrivOSFlashProtect
    \/ NvPrivOSFlashErase \/ NvPrivOSFlashRead \/ NvPrivOSFlashWrite
    \/ Steps

Spec == Init /\ [][Next]_vars
(* A call runs until it returns.                                           *)
FairSpec == Spec /\ WF_vars(Steps)
-----------------------------------------------------------------------------
(* The type invariant.                                                     *)
TypeOK ==
    /\ flash \in [Blocks -> {"old", "erased", "new", "broken"}]
    /\ bad \subseteq Blocks /\ locked \subseteq Blocks /\ g_markBadBlocks \in BOOLEAN
    /\ mode \in {"closed", "reading", "writing"}
    /\ pc \in {"returned", "failed", "read", "write", "verify"}
    /\ b \in Blocks /\ i \in 0..bbMaxRetries /\ misses \in Nat /\ errors \in 0..MaxErrors

(***************************************************************************)
(* "A block is marked as bad as a consequence of consecutive read/write    *)
(* errors": only with -b, only the block accessed, and only when           *)
(* bbMaxRetries accesses in a row have failed; retries of the write and of *)
(* its verification, which share their counter, are not added up.          *)
(***************************************************************************)
MarkedAfterRetries ==
    [][bad' # bad => /\ g_markBadBlocks /\ bad' = bad \cup {b}
                     /\ misses' = bbMaxRetries /\ pc' = "failed"]_vars

(***************************************************************************)
(* With -b a write that returns success has left the data on the block,    *)
(* even if the first writes failed or were corrupted.                      *)
(***************************************************************************)
WrittenIsThere ==
    [][g_markBadBlocks /\ pc \in {"write", "verify"} /\ pc' = "returned"
       => flash'[b] = "new"]_vars

(* Every call returns: no mix of errors keeps the nested loops going.      *)
EveryCallReturns == pc \in {"read", "write", "verify"} ~> Call
=============================================================================
