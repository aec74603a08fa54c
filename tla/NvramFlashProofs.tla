-------------------------- MODULE NvramFlashProofs --------------------------
(***************************************************************************)
(* NvramFlash proved for every number of blocks, retries and errors.  The  *)
(* argument is one inductive invariant: while a call runs, the number of   *)
(* accesses that failed in a row is the loop counter, whichever of the two *)
(* nested loops counts, and only -b gets as far as the inner one.          *)
(***************************************************************************)
EXTENDS NvramFlash, TLAPS

Running == pc \in {"read", "write", "verify"}

CountersAgree == Running => misses = i /\ i < bbMaxRetries
VerifiesWithB == pc = "verify" => g_markBadBlocks

IInv == TypeOK /\ CountersAgree /\ VerifiesWithB
-----------------------------------------------------------------------------
(* A call starts from a state without one, with both counters at 0.        *)
LEMMA StartKeeps ==
    ASSUME IInv, NEW l \in {"read", "write"}, NEW S \in SUBSET Blocks, Start(l, S)
    PROVE  IInv'
BY ConstantsAssumption
   DEF IInv, TypeOK, CountersAgree, VerifiesWithB, Running, Start, device

(* A failed access under -b counts in both counters, or ends the call.     *)
LEMMA TryAgainKeeps ==
    ASSUME IInv, Running, NEW l \in {"read", "write", "verify"}, l = pc,
           g_markBadBlocks, TryAgain(l),
           flash' \in [Blocks -> {"old", "erased", "new", "broken"}],
           UNCHANGED <<locked, g_markBadBlocks, mode>>
    PROVE  IInv'
BY ConstantsAssumption
   DEF IInv, TypeOK, CountersAgree, VerifiesWithB, Running, TryAgain, Error, MarkBadBlock

LEMMA GiveUpKeeps ==
    ASSUME IInv, GiveUp,
           flash' \in [Blocks -> {"old", "erased", "new", "broken"}],
           UNCHANGED <<locked, g_markBadBlocks, mode>>
    PROVE  IInv'
BY ConstantsAssumption
   DEF IInv, TypeOK, CountersAgree, VerifiesWithB, Running, GiveUp, Error

(* Every step of a loop keeps the invariant.                               *)
LEMMA StepsKeep == ASSUME IInv, Steps PROVE IInv'
<1>1. ASSUME ReadStep PROVE IInv'
  <2>1. flash' \in [Blocks -> {"old", "erased", "new", "broken"}]
    BY <1>1 DEF ReadStep, IInv, TypeOK
  <2>2. CASE Return("returned") /\ UNCHANGED <<bad, errors>>
    BY <1>1, <2>2 DEF ReadStep, Return, IInv, TypeOK, CountersAgree, VerifiesWithB, Running
  <2>3. CASE g_markBadBlocks /\ TryAgain("read")
    BY <1>1, <2>1, <2>3, TryAgainKeeps DEF ReadStep, Running
  <2>4. CASE ~g_markBadBlocks /\ GiveUp
    BY <1>1, <2>1, <2>4, GiveUpKeeps DEF ReadStep
  <2> QED  BY <1>1, <2>2, <2>3, <2>4 DEF ReadStep
<1>2. ASSUME WriteStep PROVE IInv'
  <2>1. flash' \in [Blocks -> {"old", "erased", "new", "broken"}]
    BY <1>2 DEF WriteStep, IInv, TypeOK
  <2>2. CASE /\ (UNCHANGED errors \/ Error)
             /\ IF g_markBadBlocks
                THEN pc' = "verify" /\ i' = 0 /\ misses' = 0 /\ UNCHANGED b
                ELSE Return("returned")
             /\ UNCHANGED bad
    BY <1>2, <2>1, <2>2, ConstantsAssumption
       DEF WriteStep, Error, Return, IInv, TypeOK, CountersAgree, VerifiesWithB, Running
  <2>3. CASE GiveUp
    BY <1>2, <2>1, <2>3, GiveUpKeeps DEF WriteStep
  <2>4. CASE g_markBadBlocks /\ TryAgain("write")
    BY <1>2, <2>1, <2>4, TryAgainKeeps DEF WriteStep, Running
  <2> QED  BY <1>2, <2>2, <2>3, <2>4 DEF WriteStep
<1>3. ASSUME VerifyStep PROVE IInv'
  <2>1. flash' \in [Blocks -> {"old", "erased", "new", "broken"}]
    BY <1>3 DEF VerifyStep, IInv, TypeOK
  <2>2. CASE Return("returned") /\ UNCHANGED <<bad, errors>>
    BY <1>3, <2>2 DEF VerifyStep, Return, IInv, TypeOK, CountersAgree, VerifiesWithB, Running
  <2>3. CASE Mismatch
    BY <1>3, <2>3, ConstantsAssumption
       DEF VerifyStep, Mismatch, MarkBadBlock, IInv, TypeOK, CountersAgree, VerifiesWithB, Running
  <2>4. CASE TryAgain("verify")
    BY <1>3, <2>1, <2>4, TryAgainKeeps DEF VerifyStep, Running, IInv, VerifiesWithB
  <2> QED  BY <1>3, <2>2, <2>3, <2>4 DEF VerifyStep
<1> QED  BY <1>1, <1>2, <1>3 DEF Steps
-----------------------------------------------------------------------------
(* The invariant of every behaviour.                                       *)
LEMMA Invariance == Spec => []IInv
<1>1. Init => IInv
  BY ConstantsAssumption DEF Init, IInv, TypeOK, CountersAgree, VerifiesWithB, Running
<1>2. ASSUME IInv, [Next]_vars PROVE IInv'
  <2>1. ASSUME NvPrivOSFlashOpen \/ NvPrivOSFlashClose \/ NvPrivOSFlashProtect PROVE IInv'
    BY <1>2, <2>1, ConstantsAssumption
       DEF NvPrivOSFlashOpen, NvPrivOSFlashClose, NvPrivOSFlashProtect, Call,
       Error, Return, device, IInv, TypeOK, CountersAgree, VerifiesWithB, Running
  <2>2. ASSUME NvPrivOSFlashErase PROVE IInv'
    BY <1>2, <2>2, ConstantsAssumption
       DEF NvPrivOSFlashErase, Call,
       Error, Return, IInv, TypeOK, CountersAgree, VerifiesWithB, Running
  <2>3. ASSUME NvPrivOSFlashRead PROVE IInv'
    BY <1>2, <2>3, StartKeeps DEF NvPrivOSFlashRead
  <2>4. ASSUME NvPrivOSFlashWrite PROVE IInv'
    BY <1>2, <2>4, StartKeeps DEF NvPrivOSFlashWrite
  <2>5. ASSUME Steps PROVE IInv'
    BY <1>2, <2>5, StepsKeep
  <2>6. CASE UNCHANGED vars
    BY <1>2, <2>6 DEF vars, device, IInv, TypeOK, CountersAgree, VerifiesWithB, Running
  <2> QED  BY <1>2, <2>1, <2>2, <2>3, <2>4, <2>5, <2>6 DEF Next
<1> QED  BY <1>1, <1>2, PTL DEF Spec

(***************************************************************************)
(* The types, whatever the partition and the number of retries: the loop   *)
(* counter never passes bbMaxRetries.                                      *)
(***************************************************************************)
THEOREM TypeCorrect == Spec => []TypeOK
<1>1. IInv => TypeOK  BY DEF IInv
<1> QED  BY <1>1, Invariance, PTL

(***************************************************************************)
(* A block is marked bad only with -b, only the block accessed, and only   *)
(* after exactly bbMaxRetries failures in a row of one loop.               *)
(***************************************************************************)
THEOREM MarkedOnlyAfterRetries == Spec => MarkedAfterRetries
<1> DEFINE Marked == bad' # bad => /\ g_markBadBlocks /\ bad' = bad \cup {b}
                                   /\ misses' = bbMaxRetries /\ pc' = "failed"
<1>1. ASSUME IInv, [Next]_vars PROVE [Marked]_vars
  <2> SUFFICES ASSUME bad' # bad PROVE Marked  OBVIOUS
  <2>1. Steps /\ ~GiveUp /\ ~UNCHANGED bad
    BY <1>1 DEF Next, vars, device, NvPrivOSFlashOpen, NvPrivOSFlashClose,
       NvPrivOSFlashProtect, NvPrivOSFlashErase, NvPrivOSFlashRead,
       NvPrivOSFlashWrite, Start, GiveUp
  <2>2. ASSUME NEW l, l = pc, TryAgain(l), Running PROVE
               /\ bad' = bad \cup {b} /\ misses' = bbMaxRetries /\ pc' = "failed"
    BY <1>1, <2>1, <2>2, ConstantsAssumption
       DEF TryAgain, MarkBadBlock, IInv, CountersAgree, TypeOK
  <2>3. CASE ReadStep  BY <2>1, <2>2, <2>3 DEF ReadStep, Running
  <2>4. CASE WriteStep  BY <2>1, <2>2, <2>4 DEF WriteStep, Running
  <2>5. CASE VerifyStep
    <3>1. g_markBadBlocks  BY <1>1, <2>5 DEF VerifyStep, IInv, VerifiesWithB
    <3>2. CASE TryAgain("verify")  BY <2>2, <2>5, <3>1, <3>2 DEF VerifyStep, Running
    <3>3. CASE Mismatch
      BY <1>1, <2>1, <2>5, <3>1, <3>3, ConstantsAssumption
         DEF VerifyStep, Mismatch, MarkBadBlock, IInv, CountersAgree, TypeOK, Running
    <3> QED  BY <2>1, <2>5, <3>2, <3>3 DEF VerifyStep
  <2> QED  BY <2>1, <2>3, <2>4, <2>5 DEF Steps
<1> QED  BY <1>1, Invariance, PTL DEF Spec, MarkedAfterRetries

(***************************************************************************)
(* With -b a write returns success only when the block holds the data,     *)
(* however many of the writes before failed or stored something else.      *)
(***************************************************************************)
THEOREM ReturnedIsWritten == Spec => WrittenIsThere
<1>1. ASSUME IInv, [Next]_vars PROVE
        [g_markBadBlocks /\ pc \in {"write", "verify"} /\ pc' = "returned"
         => flash'[b] = "new"]_vars
  <2> SUFFICES ASSUME g_markBadBlocks, pc \in {"write", "verify"}, pc' = "returned"
               PROVE  flash'[b] = "new"
    OBVIOUS
  <2>1. WriteStep \/ VerifyStep
    BY <1>1 DEF Next, vars, Steps, ReadStep, NvPrivOSFlashOpen, NvPrivOSFlashClose,
       NvPrivOSFlashProtect, NvPrivOSFlashErase, NvPrivOSFlashRead,
       NvPrivOSFlashWrite, Start, Call
  <2>2. CASE WriteStep  BY <2>2 DEF WriteStep, GiveUp, TryAgain, MarkBadBlock
  <2>3. CASE VerifyStep
    BY <2>3 DEF VerifyStep, Return, Mismatch, TryAgain, MarkBadBlock
  <2> QED  BY <2>1, <2>2, <2>3
<1> QED  BY <1>1, Invariance, PTL DEF Spec, WrittenIsThere
=============================================================================
