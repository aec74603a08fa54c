------------------------ MODULE MtdPartUpdateProofs ------------------------
(***************************************************************************)
(* Proofs about MtdPartUpdate, for every geometry, image, option set and   *)
(* bound.                                                                  *)
(***************************************************************************)
EXTENDS MtdPartUpdate, WellFoundedInduction, SequenceTheorems, FiniteSetTheorems, TLAPS

-----------------------------------------------------------------------------
(* A set of natural numbers that is not empty has a least element.         *)
LEMMA NatMin ==
  ASSUME NEW T \in SUBSET Nat, T # {}
  PROVE  \E x \in T : \A y \in T : x <= y
<1> DEFINE R == OpToRel(<, Nat)
<1>1. IsWellFoundedOn(R, Nat)
  BY NatLessThanWellFounded
<1>2. \A x, y \in Nat : <<y, x>> \in R <=> y < x
  BY DEF OpToRel
<1> HIDE DEF R
<1>3. PICK x \in T : \A y \in T : ~(<<y, x>> \in R)
  BY <1>1, WFMin
<1>4. ASSUME NEW y \in T PROVE x <= y
  <2>1. x \in Nat /\ y \in Nat /\ ~(<<y, x>> \in R)
    BY <1>3
  <2>2. ~(y < x)
    BY <1>2, <2>1
  <2> QED
    BY <2>1, <2>2
<1> QED
  BY <1>4

(* The numbers of a set that is closed under adding one are all numbers.   *)
LEMMA NatAll ==
  ASSUME NEW P \in SUBSET Nat, 0 \in P, \A n \in P : n + 1 \in P
  PROVE  P = Nat
<1> DEFINE T == Nat \ P
<1>1. CASE T # {}
  <2>1. PICK x \in T : \A y \in T : x <= y
    BY <1>1, NatMin
  <2>2. x # 0 /\ x - 1 \in Nat /\ ~(x <= x - 1)
    BY <2>1
  <2>3. x - 1 \in P
    BY <2>1, <2>2
  <2>4. (x - 1) + 1 = x
    BY <2>1
  <2> QED
    BY <2>1, <2>3, <2>4
<1>2. CASE T = {}
  BY <1>2
<1> QED
  BY <1>1, <1>2

-----------------------------------------------------------------------------
(* Lemmas about the operators of the model.                                *)

LEMMA Positive == EraseSize \in Nat \ {0} /\ LastPage \in Nat \ {0}
  BY GeometryAssumption DEF EraseSize, LastPage

(* The block of a page of the partition is a block of the partition.       *)
LEMMA BlkType == \A p \in Pages : Blk(p) \in Blocks
  BY GeometryAssumption, Z3 DEF Pages, Blk, Blocks

(* A piece read from a file: its length and its units.                     *)
LEMMA ChunkType ==
  ASSUME NEW s \in Seq(Unit), NEW n \in Nat, n < Len(s)
  PROVE  /\ Chunk(s, n) \in Seq(Unit)
         /\ Len(Chunk(s, n)) = Least(PageSize, Len(s) - n)
         /\ Len(Chunk(s, n)) \in 1..PageSize
         /\ \A k \in 1..Len(Chunk(s, n)) : Chunk(s, n)[k] \in Unit
<1> DEFINE m == Least(n + PageSize, Len(s))
<1>1. n + 1 \in 1..(Len(s) + 1) /\ m \in n..Len(s) /\ m >= n + 1
  BY GeometryAssumption, LenProperties DEF Least
<1>2. /\ SubSeq(s, n + 1, m) \in Seq(Unit)
      /\ Len(SubSeq(s, n + 1, m)) = m - n
  BY <1>1, SubSeqProperties, LenProperties
<1>3. m - n = Least(PageSize, Len(s) - n)
  BY GeometryAssumption, LenProperties DEF Least
<1> QED
  BY <1>1, <1>2, <1>3, GeometryAssumption, LenProperties, ElementOfSeq DEF Chunk, Least

LEMMA FillType ==
  ASSUME NEW c \in Seq(Unit)
  PROVE  Fill(c) \in Page
  BY ElementOfSeq, LenProperties DEF Fill, Page, Unit

LEMMA ProgramType ==
  ASSUME NEW o \in Page, NEW n \in Page
  PROVE  ProgramPage(o, n) \in Page
  BY DEF ProgramPage, ProgramUnit, Page, Unit

LEMMA ConstantPages == ErasedPage \in Page /\ BrokenPage \in Page
  BY DEF ErasedPage, BrokenPage, Page, Unit

LEMMA EraseType ==
  ASSUME NEW f \in [Pages -> Page], NEW b \in Blocks
  PROVE  EraseMarked(EraseBlock(f, b), b) \in [Pages -> Page]
<1> DEFINE e == EraseBlock(f, b)
<1>1. e \in [Pages -> Page]
  BY ConstantPages DEF EraseBlock
<1>2. CASE partWriteCleanMarker /\ ~IsNAND
  <2>1. b \in Pages
    BY <1>2, GeometryAssumption DEF Pages, Blocks
  <2>2. e[b] \in Page
    BY <1>1, <2>1
  <2> DEFINE q == [e[b] EXCEPT ![1] = ProgramUnit(e[b][1], xCleanMarker)]
  <2>3. q \in Page
    BY <2>2, GeometryAssumption DEF Page, Unit, ProgramUnit, xCleanMarker
  <2>4. EraseMarked(e, b) = [e EXCEPT ![b] = q]
    BY <1>2 DEF EraseMarked
  <2> QED
    BY <1>1, <2>1, <2>3, <2>4
<1>3. CASE ~(partWriteCleanMarker /\ ~IsNAND)
  BY <1>1, <1>3 DEF EraseMarked
<1> QED
  BY <1>2, <1>3

-----------------------------------------------------------------------------
(***************************************************************************)
(* Every offset, counter and page of the model keeps its type.             *)
(***************************************************************************)
LEMMA InitType == Init => TypeOK
<1> SUFFICES ASSUME Init PROVE TypeOK
  OBVIOUS
<1>1. HardwareType
  BY InputAssumption DEF Init, HardwareType, Page, Unit
<1>2. FileType
  <2>1. expected \in Images \cup {<<>>}
    BY DEF Init
  <2> QED
    BY <2>1, InputAssumption, EmptySeq DEF Init, FileType
<1>3. FlagType
  BY InputAssumption, Zenon DEF Init, FlagType, PcSet
<1>4. CounterType
  BY GeometryAssumption, Positive DEF Init, CounterType
<1> QED
  BY <1>1, <1>2, <1>3, <1>4 DEF TypeOK

(* What a page about to be programmed, and what is to be written, are.     *)
LEMMA WriteOperands ==
  ASSUME TypeOK, CanWrite
  PROVE  /\ off \in Pages /\ Blk(off) \in Blocks /\ flash[off] \in Page
         /\ Chunk(src, total) \in Seq(Unit)
         /\ Len(Chunk(src, total)) \in 1..PageSize
         /\ total + Len(Chunk(src, total)) <= Len(src)
         /\ Fill(Chunk(src, total)) \in Page
         /\ ProgramPage(flash[off], Fill(Chunk(src, total))) \in Page
<1>1. off \in Pages
  BY GeometryAssumption DEF CanWrite, TypeOK, CounterType, Pages, LastPage
<1>2. total \in Nat /\ total < Len(src) /\ src \in Seq(Unit)
  BY DEF CanWrite, TypeOK, CounterType, FileType
<1>3. flash[off] \in Page
  BY <1>1 DEF TypeOK, HardwareType
<1>4. Len(Chunk(src, total)) <= Len(src) - total
  BY <1>2, ChunkType, LenProperties, GeometryAssumption DEF Least
<1> QED
  BY <1>1, <1>2, <1>3, <1>4, BlkType, ChunkType, FillType, ProgramType, LenProperties

LEMMA HardwareStep == TypeOK /\ [Next]_vars => HardwareType'
<1> SUFFICES ASSUME TypeOK, [Next]_vars PROVE HardwareType'
  OBVIOUS
<1>1. CASE UNCHANGED hw
  BY <1>1 DEF TypeOK, HardwareType, hw
<1>2. CASE MtdPartErase
  <2>1. CASE EraseGoodBlock /\ start < NBlocks
    <3>1. start \in Blocks
      BY <2>1, GeometryAssumption DEF TypeOK, CounterType, Blocks
    <3>2. flash' \in [Pages -> Page] /\ oob' \in [Blocks -> Unit]
      BY <2>1, <3>1, EraseType DEF EraseGoodBlock, TypeOK, HardwareType, Unit, xCleanMarker
    <3> QED
      BY <1>2, <3>2 DEF MtdPartErase, TypeOK, HardwareType
  <2>2. CASE UNCHANGED <<flash, oob>>
    BY <1>2, <2>2 DEF MtdPartErase, TypeOK, HardwareType
  <2> QED
    BY <1>2, <2>1, <2>2 DEF MtdPartErase, EraseSkipBad
<1>3. CASE MtdPartEraseError
  <2>1. flash' \in [Pages -> Page] /\ oob' \in [Blocks -> Unit]
    BY <1>3, ConstantPages DEF MtdPartEraseError, TypeOK, HardwareType, Unit
  <2> QED
    BY <1>3, <2>1 DEF MtdPartEraseError, TypeOK, HardwareType
<1>4. CASE WritePage
  BY <1>4, WriteOperands DEF WritePage, TypeOK, HardwareType
<1>5. CASE WritePageSilent
  BY <1>5, WriteOperands, ConstantPages DEF WritePageSilent, TypeOK, HardwareType
<1>6. CASE WritePageError
  <2>1. CanWrite /\ FailedAttempt
    BY <1>6 DEF WritePageError
  <2>2. flash' \in [Pages -> Page]
    BY <2>1, WriteOperands, ConstantPages DEF FailedAttempt, TypeOK, HardwareType
  <2>3. bad' \subseteq Blocks
    BY <1>6, <2>1, WriteOperands DEF WritePageError, MtdMarkBadBlock, TypeOK, HardwareType
  <2> QED
    BY <1>6, <2>2, <2>3 DEF WritePageError, TypeOK, HardwareType
<1>7. CASE VerifyReadError
  <2>1. Blk(off) \in Blocks
    BY <1>7, BlkType, GeometryAssumption DEF VerifyReadError, TypeOK, CounterType, Pages, LastPage
  <2>2. bad' \subseteq Blocks
    BY <1>7, <2>1 DEF VerifyReadError, MtdMarkBadBlock, TypeOK, HardwareType
  <2> QED
    BY <1>7, <2>2 DEF VerifyReadError, TypeOK, HardwareType
<1>8. CASE Crash
  <2>1. CASE TornErase
    <3>1. flash' \in [Pages -> Page] /\ oob' \in [Blocks -> Unit]
      BY <2>1, ConstantPages DEF TornErase, TypeOK, HardwareType, Unit
    <3> QED
      BY <1>8, <3>1 DEF Crash, TypeOK, HardwareType
  <2>2. CASE TornWrite
    BY <1>8, <2>2, WriteOperands, ConstantPages DEF Crash, TornWrite, TypeOK, HardwareType
  <2>3. CASE UNCHANGED <<flash, oob>>
    BY <1>8, <2>3 DEF Crash, TypeOK, HardwareType
  <2> QED
    BY <1>8, <2>1, <2>2, <2>3 DEF Crash
<1> QED
  BY <1>1, <1>2, <1>3, <1>4, <1>5, <1>6, <1>7, <1>8
  DEF Next, Step, MtdPartInit, MtdPartVerifyFile, WriteSkipBad, MtdPartWriteEnd, VerifyPage,
      VerifyEnd, MtdPartCheckCRC32, Rerun, ReplaceFile, Terminated, vars, hw

LEMMA FileStep == TypeOK /\ [Next]_vars => FileType'
<1> SUFFICES ASSUME TypeOK, [Next]_vars PROVE FileType'
  OBVIOUS
<1>1. CASE UNCHANGED <<file, src, uiCRC32, expected>>
  BY <1>1 DEF TypeOK, FileType
<1>2. CASE MtdPartInit
  BY <1>2 DEF MtdPartInit, OpenLoop, loop, TypeOK, FileType
<1>3. CASE MtdPartVerifyFile
  BY <1>3 DEF MtdPartVerifyFile, OpenLoop, loop, crcs, TypeOK, FileType
<1>4. CASE MtdPartErase
  BY <1>4 DEF MtdPartErase, EraseGoodBlock, EraseSkipBad, OpenLoop, loop, crcs, TypeOK, FileType
<1>5. CASE MtdPartWriteEnd
  <2>1. SubSeq(src, 1, total) \in Seq(Unit)
    BY <1>5, SubSeqProperties, LenProperties DEF MtdPartWriteEnd, TypeOK, FileType, CounterType
  <2> QED
    BY <1>5, <2>1 DEF MtdPartWriteEnd, OpenLoop, loop, crcs, TypeOK, FileType
<1>6. CASE ReplaceFile
  BY <1>6, InputAssumption DEF ReplaceFile, loop, crcs, TypeOK, FileType
<1> QED
  BY <1>1, <1>2, <1>3, <1>4, <1>5, <1>6
  DEF Next, Step, MtdPartEraseError, WriteSkipBad, WritePage, WritePageSilent, WritePageError,
      VerifyPage, VerifyReadError, VerifyResult, VerifyEnd, NextPage, MtdPartCheckCRC32, Crash,
      Rerun, Terminated, vars, loop, crcs

LEMMA FlagStep == TypeOK /\ [Next]_vars => FlagType'
<1> SUFFICES ASSUME TypeOK, [Next]_vars PROVE FlagType'
  OBVIOUS
<1>1. opt' = opt /\ opt' \in [BoolOptions -> BOOLEAN]
  BY Zenon DEF TypeOK, FlagType, Next, Step, MtdPartInit, MtdPartVerifyFile, MtdPartErase,
     MtdPartEraseError, WriteSkipBad, WritePage, WritePageSilent, WritePageError,
     MtdPartWriteEnd, VerifyPage, VerifyReadError, VerifyEnd, MtdPartCheckCRC32, Crash,
     Rerun, ReplaceFile, Terminated, vars
<1>2. pc' \in PcSet
  BY DEF TypeOK, FlagType, PcSet, Next, Step, MtdPartInit, MtdPartVerifyFile, MtdPartErase,
     MtdPartEraseError, WriteSkipBad, WritePage, WritePageSilent, WritePageError,
     MtdPartWriteEnd, VerifyPage, VerifyReadError, VerifyEnd, MtdPartCheckCRC32, Crash,
     Rerun, ReplaceFile, Terminated, vars, OpenLoop, Fail, VerifyResult, AfterWrite,
     EraseGoodBlock, EraseSkipBad
<1>3. cChecksumSet' \in BOOLEAN /\ cChecksumCalculated' \in BOOLEAN
  BY <1>1, Zenon DEF TypeOK, FlagType, BoolOptions, Next, Step, MtdPartInit, MtdPartVerifyFile, MtdPartErase,
     MtdPartEraseError, WriteSkipBad, WritePage, WritePageSilent, WritePageError,
     MtdPartWriteEnd, VerifyPage, VerifyReadError, VerifyEnd, MtdPartCheckCRC32, Crash,
     Rerun, ReplaceFile, Terminated, vars, crcs
<1>4. verified' \in BOOLEAN /\ silent' \in BOOLEAN
  BY Zenon DEF TypeOK, FlagType, Next, Step, MtdPartInit, MtdPartVerifyFile, MtdPartErase,
     MtdPartEraseError, WriteSkipBad, WritePage, WritePageSilent, WritePageError,
     MtdPartWriteEnd, VerifyPage, VerifyReadError, VerifyEnd, VerifyResult, MtdPartCheckCRC32,
     Crash, Rerun, ReplaceFile, Terminated, vars, bounds
<1> QED
  BY <1>1, <1>2, <1>3, <1>4 DEF FlagType

LEMMA CounterStep == TypeOK /\ [Next]_vars => CounterType'
<1> SUFFICES ASSUME TypeOK, [Next]_vars PROVE CounterType'
  OBVIOUS
<1> USE GeometryAssumption, Positive DEF bounds, sizes, loop
<1>1. CASE MtdPartInit
  <2>1. Cardinality(bad) \in 0..NBlocks
    <3>1. bad \in SUBSET Blocks /\ IsFiniteSet(Blocks) /\ Cardinality(Blocks) = NBlocks
      BY FS_Interval DEF TypeOK, HardwareType, Blocks
    <3> QED
      BY <3>1, FS_Subset, FS_CardinalityType
  <2>2. iSize' \in Nat /\ iFileSize' \in Nat
    BY <1>1, <2>1, LenProperties DEF MtdPartInit, TypeOK, FileType
  <2>3. \/ UNCHANGED loop /\ pc' = "refused"
        \/ start' = 0 /\ off' = 0 /\ total' = 0 /\ i' = 0 /\ src' = file
    BY <1>1 DEF MtdPartInit, OpenLoop
  <2>4. UNCHANGED bounds
    BY <1>1 DEF MtdPartInit
  <2>5. CASE UNCHANGED loop /\ pc' = "refused"
    BY <2>2, <2>4, <2>5 DEF TypeOK, CounterType
  <2>6. CASE start' = 0 /\ off' = 0 /\ total' = 0 /\ i' = 0 /\ src' = file
    BY <2>2, <2>4, <2>6, LenProperties DEF TypeOK, CounterType, FileType
  <2> QED
    BY <2>3, <2>5, <2>6
<1>2. CASE MtdPartVerifyFile
  <2>1. \/ UNCHANGED loop /\ pc' = "failed"
        \/ start' = 0 /\ off' = 0 /\ total' = 0 /\ i' = 0 /\ pc' = "erase"
    BY <1>2 DEF MtdPartVerifyFile, OpenLoop, Fail
  <2> QED
    BY <1>2, <2>1 DEF MtdPartVerifyFile, TypeOK, CounterType
<1>3. CASE MtdPartErase
  <2>1. CASE start < NBlocks /\ (EraseGoodBlock \/ EraseSkipBad)
    BY <1>3, <2>1 DEF MtdPartErase, EraseGoodBlock, EraseSkipBad, TypeOK, CounterType
  <2>2. CASE Fail /\ UNCHANGED loop
    BY <1>3, <2>2 DEF MtdPartErase, Fail, TypeOK, CounterType
  <2>3. CASE OpenLoop("write", file)
    BY <1>3, <2>3, LenProperties DEF MtdPartErase, OpenLoop, TypeOK, CounterType, FileType
  <2> QED
    BY <1>3, <2>1, <2>2, <2>3 DEF MtdPartErase
<1>4. CASE MtdPartEraseError
  BY <1>4 DEF MtdPartEraseError, Fail, TypeOK, CounterType
<1>5. CASE WriteSkipBad
  BY <1>5, LenProperties DEF WriteSkipBad, NextPage, TypeOK, CounterType, FileType
<1>6. CASE WritePage
  BY <1>6, WriteOperands DEF WritePage, CanWrite, NextPage, TypeOK, CounterType
<1>7. CASE WritePageSilent
  <2>1. faults' \in Nat
    BY <1>7 DEF WritePageSilent, TypeOK, CounterType
  <2> QED
    BY <1>7, <2>1, WriteOperands DEF WritePageSilent, CanWrite, NextPage, TypeOK, CounterType
<1>8. CASE WritePageError
  <2>1. faults' \in Nat
    <3>1. faults' = faults \/ faults' = faults + 1
      BY <1>8, Zenon DEF WritePageError, FailedAttempt
    <3> QED
      BY <3>1 DEF TypeOK, CounterType
  <2> QED
    <3>1. UNCHANGED <<sizes, runs, crashes, replaced, src, start, off, total>>
      BY <1>8 DEF WritePageError
    <3>2. i' \in 0..(MaxRetries - 1) /\ (pc' = pc \/ pc' = "failed")
      BY <1>8 DEF WritePageError, TryAgain, Fail, TypeOK, CounterType
    <3> QED
      BY <2>1, <3>1, <3>2 DEF TypeOK, CounterType
<1>9. CASE MtdPartWriteEnd
  <2>1. \/ UNCHANGED loop /\ pc' = "failed"
        \/ start' = 0 /\ off' = 0 /\ total' = 0 /\ i' = 0 /\ src' = file
    BY <1>9 DEF MtdPartWriteEnd, OpenLoop, Fail
  <2> QED
    BY <1>9, <2>1, LenProperties DEF MtdPartWriteEnd, TypeOK, CounterType, FileType
<1>10. CASE VerifyPage
  <2>1. ASSUME total < Len(src)
        PROVE  Len(Chunk(src, total)) \in Nat /\ total + Len(Chunk(src, total)) <= Len(src)
    BY <2>1, ChunkType, LenProperties DEF TypeOK, CounterType, FileType, Least
  <2> QED
    BY SMTT(30), <1>10, <2>1, LenProperties DEF VerifyPage, VerifyResult, NextPage, TypeOK, CounterType, FileType
<1>11. CASE VerifyReadError
  BY <1>11 DEF VerifyReadError, TryAgain, Fail, TypeOK, CounterType
<1>12. CASE VerifyEnd
  BY <1>12 DEF VerifyEnd, VerifyResult, TypeOK, CounterType
<1>13. CASE MtdPartCheckCRC32
  BY <1>13 DEF MtdPartCheckCRC32, Fail, TypeOK, CounterType
<1>14. CASE Crash \/ Rerun \/ ReplaceFile
  <2>1. CASE Crash
    BY <2>1 DEF Crash, TypeOK, CounterType
  <2>2. CASE Rerun
    BY <2>2 DEF Rerun, TypeOK, CounterType
  <2>3. CASE ReplaceFile
    BY <2>3 DEF ReplaceFile, TypeOK, CounterType
  <2> QED
    BY <1>14, <2>1, <2>2, <2>3
<1>15. CASE Terminated \/ UNCHANGED vars
  BY <1>15 DEF Terminated, vars, TypeOK, CounterType
<1> QED
  BY <1>1, <1>2, <1>3, <1>4, <1>5, <1>6, <1>7, <1>8, <1>9, <1>10, <1>11, <1>12, <1>13,
     <1>14, <1>15 DEF Next, Step

(***************************************************************************)
(* Type correctness: no loop of update_flash leaves the partition, the     *)
(* open file or its retry limit, on any geometry.                          *)
(***************************************************************************)
THEOREM TypeCorrect == Spec => []TypeOK
<1>1. Init => TypeOK
  BY InitType
<1>2. TypeOK /\ [Next]_vars => TypeOK'
  BY HardwareStep, FileStep, FlagStep, CounterStep DEF TypeOK
<1> QED
  BY <1>1, <1>2, PTL DEF Spec

-----------------------------------------------------------------------------
(* Lemmas about the order of the good pages.                               *)

LEMMA RankType ==
  ASSUME NEW p \in Nat
  PROVE  IsFiniteSet(GoodBefore(p)) /\ Rank(p) \in Nat /\ PageSize * Rank(p) \in Nat
<1>1. IsFiniteSet(0..(p - 1)) /\ GoodBefore(p) \in SUBSET (0..(p - 1))
  BY FS_Interval DEF GoodBefore
<1>2. IsFiniteSet(GoodBefore(p)) /\ Rank(p) \in Nat
  BY <1>1, FS_Subset, FS_CardinalityType DEF Rank
<1>3. \A r \in Nat : PageSize * r \in Nat
  BY GeometryAssumption
<1> QED
  BY <1>2, <1>3

LEMMA RankZero == Rank(0) = 0
<1>1. GoodBefore(0) = {}
  BY DEF GoodBefore
<1> QED
  BY <1>1, FS_EmptySet DEF Rank

(* Passing a good page counts one, passing a bad one nothing.              *)
LEMMA RankNext ==
  ASSUME NEW p \in Nat
  PROVE  /\ Blk(p) \notin bad => Rank(p + 1) = Rank(p) + 1
         /\ Blk(p) \in bad => Rank(p + 1) = Rank(p)
<1>1. ASSUME Blk(p) \notin bad PROVE Rank(p + 1) = Rank(p) + 1
  <2>1. GoodBefore(p + 1) = GoodBefore(p) \cup {p} /\ p \notin GoodBefore(p)
    BY <1>1 DEF GoodBefore
  <2> QED
    BY <2>1, RankType, FS_AddElement DEF Rank
<1>2. ASSUME Blk(p) \in bad PROVE Rank(p + 1) = Rank(p)
  <2>1. GoodBefore(p + 1) = GoodBefore(p)
    BY <1>2 DEF GoodBefore
  <2> QED
    BY <2>1 DEF Rank
<1> QED
  BY <1>1, <1>2

LEMMA RankMonotonic ==
  ASSUME NEW p \in Nat, NEW q \in Nat, p <= q
  PROVE  PageSize * Rank(p) <= PageSize * Rank(q)
<1>1. GoodBefore(p) \in SUBSET GoodBefore(q)
  BY DEF GoodBefore
<1>2. Rank(p) <= Rank(q)
  BY <1>1, RankType, FS_Subset DEF Rank
<1>3. Rank(p) \in Nat /\ Rank(q) \in Nat
  BY RankType
<1> QED
  BY <1>2, <1>3, GeometryAssumption

-----------------------------------------------------------------------------
(***************************************************************************)
(* The loop invariant of MtdPartVerify: the units compared so far are the  *)
(* ones of the good pages passed, and each of those pages matches.         *)
(***************************************************************************)
VerifiedSoFar ==
    /\ \/ total = PageSize * Rank(off)
       \/ total = Len(src) /\ total <= PageSize * Rank(off)
    /\ \A p \in GoodBefore(off) :
          PageSize * Rank(p) < total =>
              PageMatches(flash[p], Chunk(src, PageSize * Rank(p)))

VerifyInv ==
    /\ pc = "verify" => VerifiedSoFar
    /\ verified => pc = "done" /\ FlashHolds(src, iFileSize)

(* A loop of MtdPartVerify that starts has compared nothing.               *)
LEMMA VerifyStarts ==
  ASSUME off' = 0, total' = 0
  PROVE  VerifiedSoFar'
<1>1. (Rank(0))' = 0
  <2>1. (GoodBefore(0))' = {}
    BY DEF GoodBefore
  <2> QED
    BY <2>1, FS_EmptySet DEF Rank
<1>2. (GoodBefore(0))' = {}
  BY DEF GoodBefore
<1> QED
  BY <1>1, <1>2, GeometryAssumption DEF VerifiedSoFar, Rank, GoodBefore

(* When the loop ends, with its two sizes equal, the flash holds the file. *)
LEMMA VerifyEnds ==
  ASSUME TypeOK, VerifiedSoFar,
         off >= LastPage \/ total >= Len(src),
         total <= Len(src)
  PROVE  FlashHolds(src, total)
<1>1. off \in Nat /\ off <= LastPage /\ LastPage \in Nat /\ total \in Nat /\ Len(src) \in Nat
  BY Positive, LenProperties DEF TypeOK, CounterType, FileType
<1>2. total <= PageSize * Rank(off)
  BY <1>1, RankType, GeometryAssumption DEF VerifiedSoFar
<1>3. total <= PageSize * Rank(LastPage)
  <2>1. PageSize * Rank(off) <= PageSize * Rank(LastPage)
    BY <1>1, RankMonotonic
  <2>2. PageSize * Rank(off) \in Nat /\ PageSize * Rank(LastPage) \in Nat
    BY <1>1, RankType
  <2> QED
    BY <1>1, <1>2, <2>1, <2>2
<1>4. ASSUME NEW p \in GoodPages, PageSize * Rank(p) < total
      PROVE  PageMatches(flash[p], Chunk(src, PageSize * Rank(p)))
  <2>1. p \in Nat
    BY DEF GoodPages, Pages
  <2>2. PageSize * Rank(p) \in Nat /\ PageSize * Rank(off) \in Nat
    BY <1>1, <2>1, RankType
  <2>3. ~(off <= p)
    BY <1>1, <1>2, <1>4, <2>1, <2>2, RankMonotonic
  <2>4. p \in GoodBefore(off)
    BY <1>1, <2>1, <2>3 DEF GoodBefore, GoodPages
  <2> QED
    BY <1>4, <2>4 DEF VerifiedSoFar
<1> QED
  BY <1>3, <1>4 DEF FlashHolds

LEMMA VerifyPageStep ==
  ASSUME TypeOK, VerifyInv, VerifyPage
  PROVE  VerifyInv'
<1> USE DEF hw, sizes
<1>1. /\ VerifiedSoFar /\ ~verified /\ off \in Pages /\ off \in Nat /\ total \in Nat
      /\ src \in Seq(Unit) /\ Len(src) \in Nat
  BY GeometryAssumption, LenProperties
  DEF VerifyInv, VerifyPage, TypeOK, CounterType, FileType, Pages, LastPage
<1>2. \A p \in Nat : Rank(p)' = Rank(p) /\ GoodBefore(p)' = GoodBefore(p)
  BY DEF VerifyPage, Rank, GoodBefore
<1>3. \A page, c : PageMatches(page, c)' <=> PageMatches(page, c)
  BY DEF VerifyPage, PageMatches, cIsJFFS2
<1>4. CASE Blk(off) \in bad /\ NextPage(0) /\ UNCHANGED <<pc, verified>>
  <2>1. total' = total /\ off' = off + 1 /\ src' = src /\ flash' = flash
    BY <1>1, <1>4 DEF NextPage, VerifyPage
  <2>2. Rank(off + 1) = Rank(off) /\ GoodBefore(off + 1) = GoodBefore(off)
    BY <1>1, <1>4, RankNext DEF GoodBefore
  <2>3. VerifiedSoFar'
    <3>1. Rank(off)' = Rank(off) /\ GoodBefore(off)' = GoodBefore(off)
      BY <2>1, <2>2 DEF Rank, GoodBefore, VerifyPage
    <3>2. \A p \in GoodBefore(off) : p \in Nat
      BY <1>1 DEF GoodBefore
    <3> QED
      BY <1>1, <1>2, <1>3, <2>1, <3>1, <3>2 DEF VerifiedSoFar
  <2> QED
    BY <1>1, <1>4, <2>3 DEF VerifyInv
<1>5. CASE /\ Blk(off) \notin bad /\ total < Len(src)
           /\ PageMatches(flash[off], Chunk(src, total))
           /\ NextPage(Len(Chunk(src, total)))
           /\ UNCHANGED <<pc, verified>>
  <2>1. /\ total' = total + Len(Chunk(src, total)) /\ off' = off + 1
        /\ src' = src /\ flash' = flash
    BY <1>5 DEF NextPage, VerifyPage
  <2>2. Rank(off + 1) = Rank(off) + 1 /\ GoodBefore(off + 1) = GoodBefore(off) \cup {off}
    BY <1>1, <1>5, RankNext DEF GoodBefore
  <2>3. total = PageSize * Rank(off)
    BY <1>1, <1>5 DEF VerifiedSoFar
  <2>4. PageSize * Rank(off + 1) = total + PageSize
    <3>1. \A r \in Nat : PageSize * (r + 1) = PageSize * r + PageSize
      BY GeometryAssumption
    <3> QED
      BY <1>1, <2>2, <2>3, <3>1, RankType
  <2>5. \/ total' = PageSize * Rank(off + 1)
        \/ total' = Len(src) /\ total' <= PageSize * Rank(off + 1)
    BY SMTT(30), <1>1, <1>5, <2>1, <2>4, ChunkType, GeometryAssumption DEF Least
  <2>6. ASSUME NEW p \in GoodBefore(off + 1)
        PROVE  PageMatches(flash[p], Chunk(src, PageSize * Rank(p)))
    <3>1. CASE p = off
      BY <1>5, <2>3, <3>1
    <3>2. CASE p # off
      <4>1. p \in GoodBefore(off) /\ p \in Nat /\ p + 1 <= off /\ Blk(p) \notin bad
        BY <1>1, <2>2, <2>6, <3>2 DEF GoodBefore
      <4>2. PageSize * Rank(p + 1) <= PageSize * Rank(off)
        BY <1>1, <4>1, RankMonotonic
      <4>3. Rank(p) \in Nat /\ Rank(p + 1) = Rank(p) + 1
        BY <4>1, RankType, RankNext
      <4>4. PageSize * Rank(p) < total
        BY SMTT(30), <2>3, <4>2, <4>3, GeometryAssumption
      <4> QED
        BY <1>1, <4>1, <4>4 DEF VerifiedSoFar
    <3> QED
      BY <3>1, <3>2
  <2>7. VerifiedSoFar'
    <3>1. Rank(off)' = Rank(off + 1) /\ GoodBefore(off)' = GoodBefore(off + 1)
      BY <2>1 DEF Rank, GoodBefore, VerifyPage
    <3>2. \A p \in GoodBefore(off + 1) : p \in Nat
      BY <1>1 DEF GoodBefore
    <3> QED
      BY <1>2, <1>3, <2>1, <2>5, <2>6, <3>1, <3>2 DEF VerifiedSoFar
  <2> QED
    BY <1>1, <1>5, <2>7 DEF VerifyInv
<1>6. CASE VerifyResult(FALSE)
  BY <1>6 DEF VerifyResult, VerifyInv
<1> QED
  BY <1>4, <1>5, <1>6 DEF VerifyPage, MtdPartIsBadBlock

LEMMA VerifyEndStep ==
  ASSUME TypeOK, VerifyInv, VerifyEnd
  PROVE  VerifyInv'
<1>1. VerifiedSoFar /\ (off >= LastPage \/ total >= Len(src)) /\ total <= Len(src)
  BY DEF VerifyInv, VerifyEnd, TypeOK, CounterType
<1>2. FlashHolds(src, total)
  BY <1>1, VerifyEnds
<1>3. CASE iFileSize = total
  <2>1. FlashHolds(src, iFileSize)
    BY <1>2, <1>3
  <2>2. FlashHolds(src, iFileSize)'
    BY <2>1 DEF VerifyEnd, VerifyResult, FlashHolds, GoodPages, Rank, GoodBefore, PageMatches,
       cIsJFFS2, hw, sizes, loop
  <2>3. pc' = "done"
    BY <1>3 DEF VerifyEnd, VerifyResult
  <2> QED
    BY <2>2, <2>3 DEF VerifyInv
<1>4. CASE iFileSize # total
  BY <1>4 DEF VerifyEnd, VerifyResult, VerifyInv
<1> QED
  BY <1>3, <1>4

(* A step that leaves the flash and the loop of MtdPartVerify alone.       *)
LEMMA VerifyInvUnchanged ==
  ASSUME VerifyInv, UNCHANGED <<flash, bad, opt, src, off, total, iFileSize, verified>>, pc' = pc
  PROVE  VerifyInv'
<1>1. VerifiedSoFar' <=> VerifiedSoFar
  BY DEF VerifiedSoFar, Rank, GoodBefore, PageMatches, cIsJFFS2
<1>2. FlashHolds(src, iFileSize)' <=> FlashHolds(src, iFileSize)
  BY DEF FlashHolds, GoodPages, Rank, GoodBefore, PageMatches, cIsJFFS2
<1> QED
  BY <1>1, <1>2 DEF VerifyInv

LEMMA VerifyStep == TypeOK /\ VerifyInv /\ [Next]_vars => VerifyInv'
<1> SUFFICES ASSUME TypeOK, VerifyInv, [Next]_vars PROVE VerifyInv'
  OBVIOUS
<1>1. ASSUME ~verified', pc' = "verify" => off' = 0 /\ total' = 0
      PROVE  VerifyInv'
  BY <1>1, VerifyStarts DEF VerifyInv
<1>2. ASSUME pc # "done" PROVE ~verified
  BY <1>2 DEF VerifyInv
<1>3. CASE MtdPartInit
  BY <1>1, <1>3 DEF MtdPartInit, OpenLoop
<1>4. CASE MtdPartVerifyFile \/ MtdPartErase \/ MtdPartEraseError
  BY <1>1, <1>2, <1>4 DEF MtdPartVerifyFile, MtdPartErase, EraseGoodBlock, EraseSkipBad,
     MtdPartEraseError, OpenLoop, Fail
<1>5. CASE WriteSkipBad \/ WritePage \/ WritePageSilent \/ WritePageError
  BY <1>1, <1>2, <1>5 DEF WriteSkipBad, WritePage, WritePageSilent, WritePageError, CanWrite, Fail
<1>6. CASE MtdPartWriteEnd
  BY <1>1, <1>2, <1>6 DEF MtdPartWriteEnd, OpenLoop, Fail
<1>7. CASE VerifyPage
  BY <1>7, VerifyPageStep
<1>8. CASE VerifyEnd
  BY <1>8, VerifyEndStep
<1>9. CASE VerifyReadError
  <2>1. CASE pc' = "failed"
    BY <1>1, <1>2, <1>9, <2>1 DEF VerifyReadError
  <2>2. CASE UNCHANGED <<bad, pc, src, start, off, total>>
    BY <1>9, <2>2, VerifyInvUnchanged DEF VerifyReadError, sizes
  <2> QED
    BY <1>9, <2>1, <2>2 DEF VerifyReadError, Fail
<1>10. CASE MtdPartCheckCRC32 \/ Crash \/ Rerun
  BY <1>1, <1>2, <1>10 DEF MtdPartCheckCRC32, Crash, Rerun, Running, Fail
<1>11. CASE ReplaceFile \/ Terminated \/ UNCHANGED vars
  BY <1>11, VerifyInvUnchanged DEF ReplaceFile, Terminated, vars, hw, sizes, loop
<1> QED
  BY <1>3, <1>4, <1>5, <1>6, <1>7, <1>8, <1>9, <1>10, <1>11 DEF Next, Step

(***************************************************************************)
(* MtdPartVerify is right: when it returns 1, the good pages of the        *)
(* partition hold, in order, the file it compared with, whatever happened  *)
(* before and on every geometry.                                           *)
(***************************************************************************)
THEOREM VerifyCorrect == Spec => []VerifiedMeansFlashed
<1>1. Init => VerifyInv
  BY DEF Init, VerifyInv
<1>2. TypeOK /\ VerifyInv /\ [Next]_vars => VerifyInv'
  BY VerifyStep
<1>3. VerifyInv => VerifiedMeansFlashed
  BY DEF VerifyInv, VerifiedMeansFlashed
<1> QED
  BY <1>1, <1>2, <1>3, TypeCorrect, PTL DEF Spec

-----------------------------------------------------------------------------
(* Pages and blocks: the loops of the program walk the good blocks and the *)
(* good pages in the same order.                                           *)

(* Blocks are runs of PagesPerBlock pages.                                 *)
LEMMA BlkOfNext ==
  ASSUME NEW p \in Nat
  PROVE  /\ Blk(p) \in Nat /\ PagesPerBlock * Blk(p) \in Nat
         /\ PagesPerBlock * Blk(p) <= p /\ p < PagesPerBlock * Blk(p) + PagesPerBlock
         /\ \/ Blk(p + 1) = Blk(p)
            \/ /\ Blk(p + 1) = Blk(p) + 1
               /\ p + 1 = PagesPerBlock * Blk(p) + PagesPerBlock
               /\ p + 1 = PagesPerBlock * Blk(p + 1)
  BY GeometryAssumption, Z3 DEF Blk

LEMMA BlkMonotonic ==
  ASSUME NEW p \in Nat, NEW q \in Nat, p <= q
  PROVE  Blk(p) <= Blk(q)
  BY GeometryAssumption, Z3 DEF Blk

LEMMA BlockRankType ==
  ASSUME NEW b \in Nat
  PROVE  IsFiniteSet(0..(b - 1) \ bad) /\ BlockRank(b) \in Nat
<1>1. IsFiniteSet(0..(b - 1)) /\ (0..(b - 1) \ bad) \in SUBSET (0..(b - 1))
  BY FS_Interval
<1>2. IsFiniteSet(0..(b - 1) \ bad)
  BY <1>1, FS_Subset
<1> QED
  BY <1>2, FS_CardinalityType DEF BlockRank

LEMMA BlockRankNext ==
  ASSUME NEW b \in Nat
  PROVE  /\ b \notin bad => BlockRank(b + 1) = BlockRank(b) + 1
         /\ b \in bad => BlockRank(b + 1) = BlockRank(b)
<1> DEFINE S(n) == 0..(n - 1) \ bad
<1>1. IsFiniteSet(S(b)) /\ BlockRank(b) \in Nat
  BY BlockRankType
<1>2. ASSUME b \notin bad PROVE BlockRank(b + 1) = BlockRank(b) + 1
  <2>1. S(b + 1) = S(b) \cup {b} /\ b \notin S(b)
    BY <1>2
  <2> QED
    BY <1>1, <2>1, FS_AddElement DEF BlockRank
<1>3. ASSUME b \in bad PROVE BlockRank(b + 1) = BlockRank(b)
  <2>1. S(b + 1) = S(b)
    BY <1>3
  <2> QED
    BY <2>1 DEF BlockRank
<1> QED
  BY <1>1, <1>2, <1>3

LEMMA BlockRankZero == BlockRank(0) = 0
<1>1. 0..(0 - 1) \ bad = {}
  OBVIOUS
<1> QED
  BY <1>1, FS_EmptySet DEF BlockRank

(* Good blocks have increasing places.                                     *)
LEMMA BlockRankLess ==
  ASSUME NEW b \in Nat, NEW c \in Nat, b \notin bad, BlockRank(b) < BlockRank(c)
  PROVE  b < c
<1>1. CASE c <= b
  <2>1. (0..(c - 1) \ bad) \in SUBSET (0..(b - 1) \ bad)
    BY <1>1
  <2>2. IsFiniteSet(0..(b - 1) \ bad) /\ BlockRank(b) \in Nat /\ BlockRank(c) \in Nat
    BY BlockRankType
  <2>3. BlockRank(c) <= BlockRank(b)
    BY <2>1, <2>2, FS_Subset DEF BlockRank
  <2> QED
    BY <2>2, <2>3
<1> QED
  BY <1>1

(* The place of a page, from the place of its block.                       *)
LEMMA RankOfPage ==
  \A p \in Nat : Rank(p) = PagesPerBlock * BlockRank(Blk(p))
                             + (IF Blk(p) \in bad THEN 0 ELSE p - PagesPerBlock * Blk(p))
<1> DEFINE f(p) == PagesPerBlock * BlockRank(Blk(p))
                     + (IF Blk(p) \in bad THEN 0 ELSE p - PagesPerBlock * Blk(p))
           P == {p \in Nat : Rank(p) = f(p)}
<1>1. 0 \in P
  <2>1. Blk(0) = 0
    BY GeometryAssumption, Z3 DEF Blk
  <2> QED
    BY <2>1, RankZero, BlockRankZero, GeometryAssumption
<1>2. ASSUME NEW p \in P PROVE p + 1 \in P
  <2>1. /\ p \in Nat /\ Rank(p) = f(p) /\ Blk(p) \in Nat /\ BlockRank(Blk(p)) \in Nat
        /\ PagesPerBlock * BlockRank(Blk(p)) \in Nat /\ PagesPerBlock * Blk(p) \in Nat
        /\ Rank(p) \in Nat
    <3>1. p \in Nat /\ Rank(p) = f(p)
      OBVIOUS
    <3>2. Blk(p) \in Nat /\ BlockRank(Blk(p)) \in Nat /\ PagesPerBlock * Blk(p) \in Nat
      BY <3>1, BlkOfNext, BlockRankType
    <3>3. \A r \in Nat : PagesPerBlock * r \in Nat
      BY GeometryAssumption
    <3> QED
      BY <3>1, <3>2, <3>3, RankType
  <2>2. /\ Blk(p) \notin bad => Rank(p + 1) = Rank(p) + 1
        /\ Blk(p) \in bad => Rank(p + 1) = Rank(p)
    BY <2>1, RankNext
  <2>3. CASE Blk(p + 1) = Blk(p)
    BY <2>1, <2>2, <2>3
  <2>4. CASE /\ Blk(p + 1) = Blk(p) + 1
             /\ p + 1 = PagesPerBlock * Blk(p) + PagesPerBlock
             /\ p + 1 = PagesPerBlock * Blk(p + 1)
    <3>1. f(p + 1) = PagesPerBlock * BlockRank(Blk(p) + 1)
      <4>1. BlockRank(Blk(p) + 1) \in Nat
        <5>1. \A b \in Nat : BlockRank(b) \in Nat
          BY BlockRankType
        <5>2. Blk(p) + 1 \in Nat
          BY <2>1
        <5> QED
          BY <5>1, <5>2
      <4>2. PagesPerBlock * BlockRank(Blk(p) + 1) \in Nat
        <5>1. \A r \in Nat : PagesPerBlock * r \in Nat
          BY GeometryAssumption
        <5> QED
          BY <4>1, <5>1
      <4>3. (p + 1) - PagesPerBlock * Blk(p + 1) = 0
        BY <2>1, <2>4
      <4>4. f(p + 1) = PagesPerBlock * BlockRank(Blk(p + 1)) + 0
        BY <4>3
      <4> QED
        BY <2>4, <4>2, <4>4
    <3>2. \A r \in Nat : PagesPerBlock * (r + 1) = PagesPerBlock * r + PagesPerBlock
      BY GeometryAssumption
    <3>3. CASE Blk(p) \in bad
      <4>1. f(p + 1) = PagesPerBlock * BlockRank(Blk(p))
        BY <2>1, <3>1, <3>3, BlockRankNext
      <4>2. Rank(p + 1) = PagesPerBlock * BlockRank(Blk(p))
        BY <2>1, <2>2, <3>3
      <4> QED
        BY <2>1, <4>1, <4>2
    <3>4. CASE Blk(p) \notin bad
      <4>1. f(p + 1) = PagesPerBlock * BlockRank(Blk(p)) + PagesPerBlock
        BY <2>1, <3>1, <3>2, <3>4, BlockRankNext
      <4>2. Rank(p + 1) = PagesPerBlock * BlockRank(Blk(p)) + (p - PagesPerBlock * Blk(p)) + 1
        BY <2>1, <2>2, <3>4
      <4> QED
        BY <2>1, <2>4, <4>1, <4>2, GeometryAssumption
    <3> QED
      BY <3>3, <3>4
  <2> QED
    BY <2>1, <2>3, <2>4, BlkOfNext
<1>3. P = Nat
  <2> HIDE DEF P
  <2>1. P \in SUBSET Nat
    BY DEF P
  <2> QED
    BY <1>1, <1>2, <2>1, NatAll
<1> QED
  BY <1>3

(* What the erase loop counts for a block is no more than what the write   *)
(* loop counts for a page of it.                                           *)
LEMMA BlockBeforePage ==
  ASSUME NEW p \in Nat
  PROVE  /\ BlockRank(Blk(p)) \in Nat /\ EraseSize * BlockRank(Blk(p)) \in Nat
         /\ Blk(p) \notin bad => EraseSize * BlockRank(Blk(p)) <= PageSize * Rank(p)
<1>1. Blk(p) \in Nat /\ BlockRank(Blk(p)) \in Nat /\ Rank(p) \in Nat
  BY BlkOfNext, BlockRankType, RankType
<1>2. \A r \in Nat : /\ EraseSize * r = PageSize * (PagesPerBlock * r)
                     /\ PagesPerBlock * r \in Nat /\ PageSize * (PagesPerBlock * r) \in Nat
  BY GeometryAssumption, Z3 DEF EraseSize
<1>3. \A r, q \in Nat : r <= q => PageSize * r <= PageSize * q
  BY GeometryAssumption, Z3
<1>4. Blk(p) \notin bad => PagesPerBlock * BlockRank(Blk(p)) <= Rank(p)
  <2>1. Blk(p) \notin bad => Rank(p) = PagesPerBlock * BlockRank(Blk(p)) + (p - PagesPerBlock * Blk(p))
    BY RankOfPage
  <2>2. PagesPerBlock * Blk(p) \in Nat /\ PagesPerBlock * Blk(p) <= p
    BY BlkOfNext
  <2> QED
    BY <1>1, <1>2, <2>1, <2>2
<1> QED
  BY <1>1, <1>2, <1>3, <1>4

-----------------------------------------------------------------------------
(***************************************************************************)
(* The inductive invariant behind SuccessMeansFlashed: what every phase of *)
(* an update leaves to the next one.                                       *)
(***************************************************************************)
AfterInit == {"verifyFile", "erase", "write", "verify", "checkCRC", "done"}

(* The loops work on the file that was measured, and checked.              *)
FileInv ==
    /\ file \in Images
    /\ pc \in {"verifyFile", "erase", "write", "checkCRC"} => ~opt.cVerifyOnly
    /\ pc = "checkCRC" => ~opt.cVerify /\ opt.cHasChecksum
    /\ pc = "verify" => opt.cVerify \/ opt.cVerifyOnly
    /\ pc \in AfterInit =>
         /\ iFileSize <= iSize
         /\ replaced = 0 => iFileSize = Len(file) /\ src = file
    /\ replaced = 0 /\ pc \in {"erase", "write", "verify", "checkCRC", "done"} =>
         /\ cIsJFFS2 /\ ~opt.cVerifyOnly => JFFS2BlocksOK(file)
         /\ cChecksumCalculated => uiCRC32 = file
         /\ pc = "checkCRC" => uiCRC32 = file

(* What MtdPartErase leaves of a page.                                     *)
FreshPage ==
    IF partWriteCleanMarker /\ ~IsNAND THEN [ErasedPage EXCEPT ![1] = CM] ELSE ErasedPage

(* MtdPartErase counts the good blocks it has passed and erased.           *)
EraseInv ==
    pc = "erase" =>
      /\ total = EraseSize * BlockRank(start)
      /\ ~opt.cDryRun =>
           \A p \in GoodPages : Blk(p) < start => flash[p] = FreshPage

(* A page that was written holds its piece of the file, or is damaged      *)
(* where the file has data.                                                *)
PageWritten(p) ==
    LET c == Chunk(src, PageSize * Rank(p))
    IN  flash[p] = Fill(c) \/ (Damaged /\ \E k \in 1..Len(c) : flash[p][k] # c[k])

(* MtdPartWrite has written the good pages before off and finds the others *)
(* that the file needs as MtdPartErase left them.                          *)
WriteInv ==
    pc = "write" =>
      /\ \/ total = PageSize * Rank(off)
         \/ total = Len(src) /\ total <= PageSize * Rank(off)
      /\ i > 0 => opt.cMarkBadBlocks
      /\ replaced = 0 /\ ~opt.cDryRun =>
           /\ \A p \in GoodPages :
                (p > off \/ (p = off /\ i = 0)) /\ EraseSize * BlockRank(Blk(p)) < EraseLimit
                => flash[p] = FreshPage
           /\ \A p \in GoodBefore(off) : PageSize * Rank(p) < total => PageWritten(p)

(* After the write loop the whole file is written, and what was asked to   *)
(* be checked has been checked.                                            *)
Updated == ~opt.cVerifyOnly /\ ~opt.cDryRun /\ replaced = 0
DoneInv ==
    Updated =>
      /\ pc \in {"verify", "checkCRC", "done"} =>
           /\ iFileSize <= PageSize * Rank(LastPage)
           /\ \A p \in GoodPages : PageSize * Rank(p) < iFileSize => PageWritten(p)
      /\ pc = "done" => (IF opt.cVerify THEN verified
                         ELSE opt.cHasChecksum => FlashMatches(file))

-----------------------------------------------------------------------------
(* No step changes the options or the geometry of the command.             *)
LEMMA OptStays ==
  ASSUME [Next]_vars
  PROVE  opt' = opt
  BY Zenon DEF Next, Step, MtdPartInit, MtdPartVerifyFile, MtdPartErase,
     MtdPartEraseError, WriteSkipBad, WritePage, WritePageSilent, WritePageError,
     MtdPartWriteEnd, VerifyPage, VerifyReadError, VerifyEnd, MtdPartCheckCRC32, Crash,
     Rerun, ReplaceFile, Terminated, vars

(* With the same options, the same derived settings and contents.          *)
LEMMA SameOptions ==
  ASSUME opt' = opt
  PROVE  /\ cIsJFFS2' <=> cIsJFFS2
         /\ partEraseAll' <=> partEraseAll
         /\ partWriteCleanMarker' <=> partWriteCleanMarker
         /\ FreshPage' = FreshPage
         /\ \A c : Fill(c)' = Fill(c)
         /\ \A page, c : PageMatches(page, c)' <=> PageMatches(page, c)
         /\ MarkerOverData' <=> MarkerOverData
<1>1. /\ cIsJFFS2' <=> cIsJFFS2
      /\ partEraseAll' <=> partEraseAll
      /\ partWriteCleanMarker' <=> partWriteCleanMarker
  BY DEF cIsJFFS2, cleanMarkerOption, jffs2Update, partEraseAll, partWriteCleanMarker
<1> QED
  BY <1>1 DEF FreshPage, ErasedPage, Fill, PageMatches, MarkerOverData

(* With the same bad blocks, the same order of the good pages.             *)
LEMMA SameOrder ==
  ASSUME bad' = bad
  PROVE  /\ GoodPages' = GoodPages
         /\ \A p : GoodBefore(p)' = GoodBefore(p) /\ Rank(p)' = Rank(p)
         /\ \A b : BlockRank(b)' = BlockRank(b)
  BY DEF GoodPages, GoodBefore, Rank, BlockRank

LEMMA FileInvStep == TypeOK /\ FileInv /\ [Next]_vars => FileInv'
<1> SUFFICES ASSUME TypeOK, FileInv, [Next]_vars PROVE FileInv'
  OBVIOUS
<1> USE DEF loop, sizes, crcs, bounds
<1>1. opt' = opt /\ (cIsJFFS2' <=> cIsJFFS2)
  BY OptStays, SameOptions
<1>2. replaced \in Nat /\ file \in Seq(Unit) /\ src \in Seq(Unit)
  BY DEF TypeOK, CounterType, FileType
<1>3. CASE MtdPartInit
  <2>1. CASE pc' = "refused"
    BY <1>3, <2>1 DEF FileInv, AfterInit, MtdPartInit
  <2>2. CASE /\ iFileSize' <= iSize'
             /\ OpenLoop(CASE opt.cVerifyOnly -> "verify"
                        [] ~opt.cVerifyOnly /\ (opt.cHasChecksum \/ ~opt.cNoImageTypeCheck) -> "verifyFile"
                        [] OTHER -> "erase", file)
    <3>1. /\ src' = file /\ file' = file /\ iFileSize' = Len(file) /\ ~cChecksumCalculated'
          /\ file' \in Images
      BY <1>3, <2>2 DEF OpenLoop, MtdPartInit, FileInv
    <3>2. \/ opt.cVerifyOnly /\ pc' = "verify"
          \/ ~opt.cVerifyOnly /\ pc' = "verifyFile"
          \/ ~opt.cVerifyOnly /\ pc' = "erase" /\ ~cIsJFFS2
      BY <2>2, Zenon DEF OpenLoop, cIsJFFS2
    <3> QED
      BY <1>1, <2>2, <3>1, <3>2 DEF FileInv, AfterInit
  <2> QED
    BY <1>3, <2>1, <2>2 DEF MtdPartInit
<1>4. CASE MtdPartVerifyFile
  <2>1. CASE Fail
    BY <1>4, <2>1 DEF FileInv, AfterInit, MtdPartVerifyFile, Fail
  <2>2. CASE OpenLoop("erase", file) /\ (cIsJFFS2 => JFFS2BlocksOK(file))
    <3>1. pc' = "erase" /\ src' = file /\ file' = file
      BY <1>4, <2>2 DEF MtdPartVerifyFile, OpenLoop
    <3>2. uiCRC32' = file
      BY <1>4, <2>2, <3>1 DEF MtdPartVerifyFile, Fail
    <3>3. JFFS2BlocksOK(file)' <=> JFFS2BlocksOK(file)
      BY <3>1 DEF JFFS2BlocksOK, BlockStarts, OffsetsTested
    <3> QED
      BY <1>1, <1>4, <2>2, <3>1, <3>2, <3>3 DEF FileInv, AfterInit, MtdPartVerifyFile
  <2> QED
    BY <1>4, <2>1, <2>2 DEF MtdPartVerifyFile
<1>5. CASE MtdPartErase
  BY <1>1, <1>5 DEF FileInv, AfterInit, MtdPartErase, OpenLoop, Fail, EraseGoodBlock, EraseSkipBad, JFFS2BlocksOK, BlockStarts, OffsetsTested
<1>6. CASE WriteSkipBad \/ WritePage \/ WritePageSilent \/ WritePageError \/ MtdPartEraseError
  BY <1>1, <1>6 DEF FileInv, AfterInit, WriteSkipBad, WritePage, WritePageSilent, WritePageError,
     MtdPartEraseError, CanWrite, NextPage, Fail, JFFS2BlocksOK, BlockStarts, OffsetsTested
<1>7. CASE MtdPartWriteEnd
  <2>1. CASE Fail
    BY <1>7, <2>1 DEF FileInv, AfterInit, MtdPartWriteEnd, Fail
  <2>2. CASE iFileSize = total /\ OpenLoop(AfterWrite, file)
    <3>1. replaced = 0 => SubSeq(src, 1, total) = file
      BY <1>2, <1>7, <2>2, SubSeqFull DEF FileInv, AfterInit, MtdPartWriteEnd
    <3>2. replaced = 0 => uiCRC32' = file
      BY <1>7, <2>2, <3>1 DEF FileInv, MtdPartWriteEnd
    <3>3. (pc' = "verify" /\ opt.cVerify) \/ pc' = "done" \/ (pc' = "checkCRC" /\ ~opt.cVerify /\ opt.cHasChecksum)
      BY <2>2 DEF OpenLoop, AfterWrite
    <3> QED
      BY <1>1, <1>7, <2>2, <3>2, <3>3 DEF FileInv, AfterInit, MtdPartWriteEnd, OpenLoop, JFFS2BlocksOK, BlockStarts, OffsetsTested
  <2> QED
    BY <1>7, <2>1, <2>2 DEF MtdPartWriteEnd
<1>8. CASE VerifyPage \/ VerifyReadError \/ VerifyEnd
  BY <1>1, <1>8 DEF FileInv, AfterInit, VerifyPage, VerifyReadError, VerifyEnd, VerifyResult, NextPage, Fail, JFFS2BlocksOK, BlockStarts, OffsetsTested
<1>9. CASE MtdPartCheckCRC32 \/ Crash \/ Rerun
  BY <1>1, <1>9 DEF FileInv, AfterInit, MtdPartCheckCRC32, Crash, Rerun, Fail, JFFS2BlocksOK, BlockStarts, OffsetsTested
<1>10. CASE ReplaceFile
  BY <1>1, <1>2, <1>10 DEF FileInv, AfterInit, ReplaceFile
<1>11. CASE Terminated \/ UNCHANGED vars
  BY <1>1, <1>11 DEF FileInv, AfterInit, Terminated, vars, JFFS2BlocksOK, BlockStarts, OffsetsTested
<1> QED
  BY <1>3, <1>4, <1>5, <1>6, <1>7, <1>8, <1>9, <1>10, <1>11 DEF Next, Step

-----------------------------------------------------------------------------
(* On NOR a page is a block.                                               *)
LEMMA NorPages ==
  ASSUME ~IsNAND
  PROVE  /\ PagesPerBlock = 1 /\ EraseSize = PageSize /\ Pages = Blocks
         /\ \A p \in Nat : Blk(p) = p
<1>1. PagesPerBlock = 1
  BY GeometryAssumption
<1>2. \A p \in Nat : p \div 1 = p
  BY Z3
<1> QED
  BY <1>1, <1>2, GeometryAssumption DEF EraseSize, Pages, Blocks, Blk

(* Erasing a block, and marking it, leaves all its pages fresh.            *)
LEMMA ErasedFresh ==
  ASSUME NEW f \in [Pages -> Page], NEW b \in Blocks, NEW p \in Pages
  PROVE  EraseMarked(EraseBlock(f, b), b)[p] = IF Blk(p) = b THEN FreshPage ELSE f[p]
<1> DEFINE e == EraseBlock(f, b)
<1>1. e \in [Pages -> Page] /\ e[p] = IF Blk(p) = b THEN ErasedPage ELSE f[p]
  BY ConstantPages DEF EraseBlock
<1>2. CASE partWriteCleanMarker /\ ~IsNAND
  <2>1. b \in Pages /\ Blk(p) = p /\ Blk(b) = b
    BY <1>2, NorPages DEF Blocks
  <2>2. ProgramUnit(FF, xCleanMarker) = CM
    BY <1>2 DEF ProgramUnit, xCleanMarker
  <2>3. e[b] = ErasedPage
    BY <2>1, ConstantPages DEF EraseBlock
  <2>4. ErasedPage[1] = FF /\ ErasedPage = [k \in 1..PageSize |-> FF]
    BY GeometryAssumption DEF ErasedPage
  <2>5. EraseMarked(e, b) = [e EXCEPT ![b][1] = ProgramUnit(e[b][1], xCleanMarker)]
    BY <1>2 DEF EraseMarked
  <2>6. EraseMarked(e, b) = [e EXCEPT ![b] = FreshPage]
    <3>1. FreshPage = [e[b] EXCEPT ![1] = ProgramUnit(e[b][1], xCleanMarker)]
      BY <1>2, <2>2, <2>3, <2>4 DEF FreshPage
    <3> QED
      BY <2>5, <3>1
  <2> HIDE DEF e
  <2>7. EraseMarked(e, b)[p] = IF p = b THEN FreshPage ELSE e[p]
    <3>1. \A v : [e EXCEPT ![b] = v][p] = IF p = b THEN v ELSE e[p]
      BY <1>1, <2>1
    <3> QED
      BY <2>6, <3>1
  <2>8. (p = b) <=> (Blk(p) = b)
    BY <2>1
  <2>9. Blk(p) # b => e[p] = f[p]
    BY <1>1
  <2> QED
    BY <2>7, <2>8, <2>9 DEF e
<1>3. CASE ~(partWriteCleanMarker /\ ~IsNAND)
  BY <1>1, <1>3 DEF EraseMarked, FreshPage
<1> QED
  BY <1>2, <1>3

LEMMA EraseInvStep == TypeOK /\ EraseInv /\ [Next]_vars => EraseInv'
<1> SUFFICES ASSUME TypeOK, EraseInv, [Next]_vars, pc' = "erase" PROVE EraseInv'
  BY DEF EraseInv
<1> USE DEF hw, loop, sizes, crcs, bounds
<1>1. opt' = opt /\ FreshPage' = FreshPage
  BY OptStays, SameOptions
(* The loop starts: no block is passed yet.                                *)
<1>2. ASSUME start' = 0, total' = 0, bad' = bad
      PROVE  EraseInv'
  <2>1. BlockRank(start)' = 0
    <3>1. BlockRank(0)' = 0
      BY <1>2, SameOrder, BlockRankZero
    <3> QED
      BY <1>2, <3>1 DEF BlockRank
  <2>2. \A p \in Pages : ~(Blk(p) < 0)
    BY BlkType DEF Blocks
  <2> QED
    BY <1>2, <2>1, <2>2, Positive DEF EraseInv, GoodPages
<1>3. ASSUME pc = "erase", UNCHANGED <<flash, bad, start, total>>
      PROVE  EraseInv'
  <2>1. GoodPages' = GoodPages /\ BlockRank(start)' = BlockRank(start)
    BY <1>3 DEF GoodPages, BlockRank
  <2> QED
    BY <1>1, <1>3, <2>1 DEF EraseInv
<1>4. CASE MtdPartInit
  BY <1>2, <1>4 DEF MtdPartInit, OpenLoop
<1>5. CASE MtdPartVerifyFile
  BY <1>2, <1>5 DEF MtdPartVerifyFile, OpenLoop, Fail
<1>6. CASE MtdPartErase
  <2>1. start < NBlocks /\ (\/ start \notin bad /\ EraseGoodBlock
                            \/ start \in bad /\ EraseSkipBad)
    BY <1>6 DEF MtdPartErase, MtdPartIsBadBlock, OpenLoop, Fail
  <2>2. /\ pc = "erase" /\ total = EraseSize * BlockRank(start) /\ start' = start + 1 /\ bad' = bad
        /\ start \in Nat /\ start \in Blocks
    BY <1>6, <2>1, GeometryAssumption
    DEF MtdPartErase, EraseGoodBlock, EraseSkipBad, EraseInv, TypeOK, CounterType, Blocks
  <2>3. BlockRank(start)' = BlockRank(start + 1) /\ GoodPages' = GoodPages
    BY <2>2 DEF BlockRank, GoodPages
  <2>4. BlockRank(start) \in Nat
    BY <2>2, BlockRankType
  <2>5. \A p \in GoodPages : p \in Pages /\ Blk(p) \in Nat /\ Blk(p) \notin bad
    BY BlkType DEF GoodPages, Blocks
  <2>6. CASE start \notin bad /\ EraseGoodBlock
    <3>1. total' = EraseSize * BlockRank(start)'
      <4>1. EraseSize * (BlockRank(start) + 1) = EraseSize * BlockRank(start) + EraseSize
        BY <2>4, Positive
      <4> QED
        BY <2>2, <2>3, <2>6, <4>1, BlockRankNext DEF EraseGoodBlock
    <3>2. ASSUME ~opt.cDryRun, NEW p \in GoodPages, Blk(p) < start + 1
          PROVE  flash'[p] = FreshPage
      <4>1. flash'[p] = IF Blk(p) = start THEN FreshPage ELSE flash[p]
        BY <2>2, <2>5, <2>6, <3>2, ErasedFresh DEF EraseGoodBlock, TypeOK, HardwareType
      <4>2. Blk(p) # start => Blk(p) < start
        BY <2>2, <2>5, <3>2
      <4> QED
        BY <2>2, <3>2, <4>1, <4>2 DEF EraseInv
    <3> QED
      BY <1>1, <2>2, <2>3, <3>1, <3>2 DEF EraseInv
  <2>7. CASE start \in bad /\ EraseSkipBad
    <3>1. total' = EraseSize * BlockRank(start)' /\ flash' = flash
      BY <2>2, <2>3, <2>7, BlockRankNext DEF EraseSkipBad
    <3>2. ASSUME NEW p \in GoodPages, Blk(p) < start + 1 PROVE Blk(p) < start
      BY <2>2, <2>5, <2>7, <3>2
    <3> QED
      BY <1>1, <2>2, <2>3, <3>1, <3>2 DEF EraseInv
  <2> QED
    BY <2>1, <2>6, <2>7
<1>7. CASE MtdPartEraseError \/ WriteSkipBad \/ WritePage \/ WritePageSilent \/ WritePageError
  BY <1>7 DEF MtdPartEraseError, WriteSkipBad, WritePage, WritePageSilent, WritePageError, CanWrite, Fail
<1>8. CASE MtdPartWriteEnd
  BY <1>8 DEF MtdPartWriteEnd, OpenLoop, AfterWrite, Fail
<1>9. CASE VerifyPage \/ VerifyReadError \/ VerifyEnd
  BY <1>9 DEF VerifyPage, VerifyReadError, VerifyEnd, VerifyResult, Fail
<1>10. CASE MtdPartCheckCRC32 \/ Crash \/ Rerun
  BY <1>10 DEF MtdPartCheckCRC32, Crash, Rerun, Fail
<1>11. CASE ReplaceFile \/ Terminated \/ UNCHANGED vars
  BY <1>3, <1>11 DEF ReplaceFile, Terminated, vars
<1> QED
  BY <1>4, <1>5, <1>6, <1>7, <1>8, <1>9, <1>10, <1>11 DEF Next, Step

-----------------------------------------------------------------------------
(* The units of a piece are those of the file, from its position on.       *)
LEMMA ChunkUnits ==
  ASSUME NEW s \in Seq(Unit), NEW n \in Nat, n < Len(s),
         NEW k \in 1..Len(Chunk(s, n))
  PROVE  n + k \in 1..Len(s) /\ Chunk(s, n)[k] = s[n + k]
<1> DEFINE m == Least(n + PageSize, Len(s))
<1>1. Len(s) \in Nat /\ m \in Nat /\ m <= Len(s) /\ n + 1 <= m
  BY GeometryAssumption, LenProperties DEF Least
<1>2. /\ Len(SubSeq(s, n + 1, m)) = m - n
      /\ \A j \in 1..(m - n) : SubSeq(s, n + 1, m)[j] = s[n + j]
  <2>1. n + 1 \in 1..(Len(s) + 1) /\ m \in n..Len(s)
    BY <1>1
  <2> QED
    BY <1>1, <2>1, SubSeqProperties
<1>3. k \in 1..(m - n)
  BY <1>2 DEF Chunk
<1> QED
  BY <1>1, <1>2, <1>3 DEF Chunk

(* A fresh page takes what is written to it, unless a clean marker is      *)
(* where the file has other data.                                          *)
LEMMA FreshTakes ==
  ASSUME NEW c \in Seq(Unit), Len(c) \in 1..PageSize,
         \A k \in 1..Len(c) : c[k] # BAD,
         partWriteCleanMarker /\ ~IsNAND /\ cIsJFFS2 => c[1] = CM
  PROVE  \/ ProgramPage(FreshPage, Fill(c)) = Fill(c)
         \/ /\ MarkerOverData
            /\ \E k \in 1..Len(c) : ProgramPage(FreshPage, Fill(c))[k] # c[k]
<1> DEFINE buf == Fill(c)
<1>1. /\ buf \in Page /\ buf = [k \in 1..PageSize |-> buf[k]]
      /\ \A k \in 1..Len(c) : buf[k] = c[k]
      /\ 1 \in 1..Len(c) /\ 1 \in 1..PageSize
  <2>1. Len(c) \in Nat /\ PageSize \in Nat
    BY GeometryAssumption, LenProperties
  <2>2. \A k \in 1..Len(c) : buf[k] = c[k]
    BY <2>1 DEF Fill
  <2>3. buf = [k \in 1..PageSize |-> buf[k]]
    BY DEF Fill
  <2>4. 1 \in 1..Len(c) /\ 1 \in 1..PageSize
    BY <2>1
  <2>5. buf \in Page
    BY FillType
  <2> QED
    BY <2>2, <2>3, <2>4, <2>5
<1>2. \A x : ProgramUnit(FF, x) = x
  BY Zenon DEF ProgramUnit
<1>3. ProgramUnit(CM, CM) = CM /\ \A x : x # CM /\ x # BAD => ProgramUnit(CM, x) # x
  BY DEF ProgramUnit, CM, FF, BAD
<1> HIDE DEF buf
<1>4. CASE partWriteCleanMarker /\ ~IsNAND
  <2>1. FreshPage = [k \in 1..PageSize |-> IF k = 1 THEN CM ELSE FF]
    BY <1>4, GeometryAssumption DEF FreshPage, ErasedPage
  <2>2. ProgramPage(FreshPage, buf) = [k \in 1..PageSize |-> IF k = 1 THEN ProgramUnit(CM, buf[1]) ELSE buf[k]]
    BY <1>2, <2>1 DEF ProgramPage
  <2>3. CASE c[1] = CM
    <3>1. ProgramPage(FreshPage, buf) = [k \in 1..PageSize |-> buf[k]]
      <4>1. buf[1] = CM
        BY <1>1, <2>3
      <4>2. ASSUME NEW k \in 1..PageSize
            PROVE  (IF k = 1 THEN ProgramUnit(CM, buf[1]) ELSE buf[k]) = buf[k]
        BY <1>3, <4>1
      <4> QED
        BY <2>2, <4>2
    <3> QED
      BY <1>1, <3>1 DEF buf
  <2>4. CASE c[1] # CM
    <3>1. ProgramPage(FreshPage, buf)[1] # c[1]
      <4>1. ProgramPage(FreshPage, buf)[1] = ProgramUnit(CM, buf[1])
        BY <1>1, <2>2
      <4>2. buf[1] = c[1] /\ c[1] # BAD
        BY <1>1
      <4> QED
        BY <1>3, <2>4, <4>1, <4>2
    <3> QED
      BY <1>1, <1>4, <2>4, <3>1 DEF MarkerOverData, buf
  <2> QED
    BY <2>3, <2>4
<1>5. CASE ~(partWriteCleanMarker /\ ~IsNAND)
  <2>1. FreshPage = [k \in 1..PageSize |-> FF]
    BY <1>5 DEF FreshPage, ErasedPage
  <2>2. ProgramPage(FreshPage, buf) = [k \in 1..PageSize |-> buf[k]]
    BY <1>2, <2>1 DEF ProgramPage
  <2> QED
    BY <1>1, <2>2 DEF buf
<1> QED
  BY <1>4, <1>5

(* The page MtdPartWrite is at, when it is tried for the first time, is    *)
(* one that MtdPartErase has erased.                                       *)
LEMMA FreshAtOff ==
  ASSUME TypeOK, FileInv, WriteInv, CanWrite, replaced = 0, ~opt.cDryRun
  PROVE  /\ total = PageSize * Rank(off)
         /\ off \in GoodPages /\ off \in Nat
         /\ EraseSize * BlockRank(Blk(off)) < Len(file)
         /\ i = 0 => flash[off] = FreshPage
         /\ \A k \in 1..Len(Chunk(src, total)) : Chunk(src, total)[k] # BAD
         /\ partWriteCleanMarker /\ ~IsNAND /\ cIsJFFS2 => Chunk(src, total)[1] = CM
<1>1. /\ off \in Pages /\ off \in Nat /\ Blk(off) \notin bad /\ total < Len(src) /\ pc = "write"
      /\ total \in Nat /\ Len(src) \in Nat /\ src \in Seq(Unit) /\ off \in GoodPages
  BY WriteOperands, LenProperties
  DEF CanWrite, MtdPartIsBadBlock, TypeOK, CounterType, FileType, Pages, GoodPages
<1>2. src = file /\ iFileSize = Len(file) /\ iFileSize <= iSize /\ file \in Images
  BY <1>1 DEF FileInv, AfterInit
<1>3. total = PageSize * Rank(off)
  BY <1>1 DEF WriteInv
<1>4. EraseSize * BlockRank(Blk(off)) < Len(file)
  BY <1>1, <1>2, <1>3, BlockBeforePage
<1>5. EraseSize * BlockRank(Blk(off)) < EraseLimit
  <2>1. EraseSize * BlockRank(Blk(off)) \in Nat
    BY <1>1, BlockBeforePage
  <2>2. iSize \in Nat /\ iFileSize \in Nat
    BY DEF TypeOK, CounterType
  <2> QED
    BY <1>2, <1>4, <2>1, <2>2 DEF EraseLimit
<1>6. i = 0 => flash[off] = FreshPage
  BY <1>1, <1>5 DEF WriteInv
<1>7. \A k \in 1..Len(Chunk(src, total)) : Chunk(src, total)[k] # BAD
  <2>1. ASSUME NEW k \in 1..Len(Chunk(src, total)) PROVE Chunk(src, total)[k] # BAD
    <3>1. total + k \in 1..Len(src) /\ Chunk(src, total)[k] = src[total + k]
      BY <1>1, ChunkUnits
    <3>2. \A j \in 1..Len(file) : file[j] # BAD
      BY <1>2, InputAssumption
    <3> QED
      BY <1>2, <3>1, <3>2
  <2> QED
    BY <2>1
<1>8. ASSUME partWriteCleanMarker /\ ~IsNAND /\ cIsJFFS2 PROVE Chunk(src, total)[1] = CM
  <2>1. JFFS2BlocksOK(file)
    BY <1>1, <1>8 DEF FileInv
  <2>2. EraseSize = PageSize
    BY <1>8, NorPages
  <2>3. (total + 1 - 1) % EraseSize = 0
    <3>1. Rank(off) \in Nat /\ PageSize \in Nat \ {0}
      BY <1>1, RankType, GeometryAssumption
    <3>2. \A r \in Nat : (PageSize * r) % PageSize = 0
      <4> SUFFICES ASSUME NEW r \in Nat PROVE (PageSize * r) % PageSize = 0
        OBVIOUS
      <4> DEFINE x == PageSize * r
                 q == x \div PageSize
                 m == x % PageSize
      <4>1. x \in Nat /\ q \in Int /\ m \in Int /\ x = PageSize * q + m /\ 0 <= m /\ m < PageSize
        BY <3>1, Z3
      <4>2. \A a, b \in Int : a + 1 <= b => PageSize * a \in Int /\ PageSize * a + PageSize <= PageSize * b
        BY <3>1, Z3
      <4>3. PageSize * q \in Int /\ PageSize * r \in Int /\ x = PageSize * r
        BY <3>1, <4>1
      <4> HIDE DEF x, q, m
      <4>4. ~(q + 1 <= r) /\ ~(r + 1 <= q)
        BY <3>1, <4>1, <4>2, <4>3
      <4>5. q = r
        BY <4>1, <4>4
      <4>6. m = 0
        BY <4>1, <4>3, <4>5
      <4> QED
        BY <4>6 DEF m, x
    <3>3. total + 1 - 1 = PageSize * Rank(off)
      BY <1>1, <1>3
    <3> QED
      BY <2>2, <3>1, <3>2, <3>3
  <2>4. total + 1 \in BlockStarts(file) /\ total + 1 \in 1..Len(file)
    BY <1>1, <1>2, <2>3 DEF BlockStarts
  <2>5. file[total + 1] = CM
    BY <1>8, <2>1, <2>4 DEF JFFS2BlocksOK
  <2>6. 1 \in 1..Len(Chunk(src, total))
    BY <1>1, ChunkType
  <2> QED
    BY <1>1, <1>2, <2>5, <2>6, ChunkUnits
<1> QED
  BY <1>1, <1>3, <1>4, <1>6, <1>7, <1>8

-----------------------------------------------------------------------------
(* The good pages before a page are pages of the partition.                *)
LEMMA EarlierPages ==
  ASSUME NEW p \in Pages, NEW q \in GoodBefore(p)
  PROVE  q \in Pages /\ q \in Nat /\ p \in Nat /\ q + 1 <= p /\ q # p /\ Blk(q) \notin bad
<1>1. NBlocks * PagesPerBlock - 1 \in Int
  BY GeometryAssumption
<1> QED
  BY <1>1 DEF GoodBefore, Pages

(* A page that is left alone stays written.                                *)
LEMMA WrittenStays ==
  ASSUME NEW p, bad' = bad, opt' = opt, src' = src, flash'[p] = flash[p], silent => silent',
         PageWritten(p)
  PROVE  PageWritten(p)'
<1>1. /\ Rank(p)' = Rank(p) /\ (MarkerOverData' <=> MarkerOverData)
      /\ \A c : Fill(c)' = Fill(c)
  BY SameOrder, SameOptions
<1>2. Chunk(src, PageSize * Rank(p))' = Chunk(src, PageSize * Rank(p))
  BY <1>1 DEF Chunk
<1>3. Damaged => Damaged'
  BY <1>1, Zenon DEF Damaged
<1> QED
  BY <1>1, <1>2, <1>3 DEF PageWritten

(* A page has been written, and the loop goes on to the next one.          *)
LEMMA WriteAdvance ==
  ASSUME TypeOK, FileInv, WriteInv, CanWrite, NextPage(Len(Chunk(src, total))),
         UNCHANGED <<bad, opt, iSize, iFileSize, replaced>>, silent => silent',
         replaced = 0 /\ ~opt.cDryRun =>
            /\ \A p \in Pages : p # off => flash'[p] = flash[p]
            /\ \/ flash'[off] = Fill(Chunk(src, total))
               \/ Damaged' /\ \E k \in 1..Len(Chunk(src, total)) : flash'[off][k] # Chunk(src, total)[k]
  PROVE  WriteInv'
<1>1. /\ off \in Pages /\ off \in Nat /\ Blk(off) \notin bad /\ total < Len(src) /\ pc = "write"
      /\ total \in Nat /\ Len(src) \in Nat /\ src \in Seq(Unit) /\ src' = src
      /\ off' = off + 1 /\ total' = total + Len(Chunk(src, total)) /\ i' = 0
  BY WriteOperands, LenProperties
  DEF CanWrite, NextPage, MtdPartIsBadBlock, TypeOK, CounterType, FileType, Pages
<1>2. total = PageSize * Rank(off)
  BY <1>1 DEF WriteInv
<1>3. /\ GoodPages' = GoodPages /\ \A b : BlockRank(b)' = BlockRank(b)
      /\ \A p : GoodBefore(p)' = GoodBefore(p) /\ Rank(p)' = Rank(p)
  BY SameOrder
<1>4. EraseLimit' = EraseLimit /\ FreshPage' = FreshPage
  BY SameOptions DEF EraseLimit
<1>5. Rank(off + 1) = Rank(off) + 1 /\ GoodBefore(off + 1) = GoodBefore(off) \cup {off}
  BY <1>1, RankNext DEF GoodBefore
<1>6. Rank(off)' = Rank(off + 1) /\ GoodBefore(off)' = GoodBefore(off + 1)
  BY <1>1 DEF Rank, GoodBefore
<1>7. \/ total' = PageSize * Rank(off)'
      \/ total' = Len(src') /\ total' <= PageSize * Rank(off)'
  <2>1. PageSize * Rank(off + 1) = total + PageSize
    <3>1. \A r \in Nat : PageSize * (r + 1) = PageSize * r + PageSize
      BY GeometryAssumption
    <3> QED
      BY <1>1, <1>2, <1>5, <3>1, RankType
  <2> QED
    BY SMTT(30), <1>1, <1>6, <2>1, ChunkType, GeometryAssumption DEF Least
<1>8. ASSUME replaced = 0, ~opt.cDryRun, NEW p \in GoodPages,
             p > off + 1 \/ p = off + 1, EraseSize * BlockRank(Blk(p)) < EraseLimit
      PROVE  flash'[p] = FreshPage
  <2>1. p \in Pages /\ p > off /\ p # off
    BY <1>1, <1>8 DEF GoodPages, Pages
  <2> QED
    BY <1>1, <1>8, <2>1 DEF WriteInv
<1>9. ASSUME replaced = 0, ~opt.cDryRun, NEW p \in GoodBefore(off + 1)
      PROVE  PageWritten(p)'
  <2>1. CASE p = off
    <3>1. Chunk(src, PageSize * Rank(p))' = Chunk(src, total)
      BY <1>1, <1>2, <1>3, <2>1 DEF Chunk
    <3>2. \A c : Fill(c)' = Fill(c)
      BY SameOptions
    <3> QED
      BY <1>9, <2>1, <3>1, <3>2 DEF PageWritten
  <2>2. CASE p # off
    <3>1. p \in GoodBefore(off) /\ p \in Nat /\ p \in Pages /\ p + 1 <= off /\ Blk(p) \notin bad
      <4>1. p \in GoodBefore(off)
        BY <1>5, <1>9, <2>2
      <4> QED
        BY <1>1, <4>1, EarlierPages
    <3>2. PageSize * Rank(p + 1) <= PageSize * Rank(off)
      BY <1>1, <3>1, RankMonotonic
    <3>3. Rank(p) \in Nat /\ Rank(p + 1) = Rank(p) + 1
      BY <3>1, RankType, RankNext
    <3>4. PageSize * Rank(p) < total
      <4>1. \A r \in Nat : PageSize * (r + 1) = PageSize * r + PageSize /\ PageSize * r \in Nat
        BY GeometryAssumption
      <4>2. PageSize * Rank(p + 1) = PageSize * Rank(p) + PageSize /\ PageSize * Rank(p) \in Nat
        BY <3>3, <4>1
      <4>3. PageSize * Rank(p) + PageSize <= total /\ total \in Nat
        BY <1>1, <1>2, <3>2, <4>2
      <4> QED
        BY <4>2, <4>3, GeometryAssumption
    <3>5. PageWritten(p) /\ flash'[p] = flash[p]
      BY <1>1, <1>9, <2>2, <3>1, <3>4 DEF WriteInv
    <3> QED
      BY <1>1, <3>5, WrittenStays
  <2> QED
    BY <2>1, <2>2
<1> QED
  BY <1>1, <1>3, <1>4, <1>6, <1>7, <1>8, <1>9 DEF WriteInv

(* The write loop starts on what the erase loop has erased.                *)
LEMMA WriteStarts ==
  ASSUME TypeOK, EraseInv, MtdPartErase, total >= EraseLimit
  PROVE  WriteInv'
<1>1. /\ pc = "erase" /\ total = EraseSize * BlockRank(start) /\ start \in Nat
      /\ off' = 0 /\ total' = 0 /\ i' = 0
      /\ UNCHANGED <<flash, bad, opt, iSize, iFileSize>>
      /\ total \in Nat
  <2>1. EraseLimit \in Nat /\ total \in Nat /\ start \in Nat
    BY DEF EraseLimit, TypeOK, CounterType
  <2>2. OpenLoop("write", file) /\ UNCHANGED <<flash, oob>>
    BY <2>1 DEF MtdPartErase
  <2> QED
    BY <2>1, <2>2 DEF MtdPartErase, EraseInv, OpenLoop, sizes
<1>2. EraseLimit \in Nat
  BY DEF EraseLimit, TypeOK, CounterType
<1>3. /\ GoodPages' = GoodPages /\ \A b : BlockRank(b)' = BlockRank(b)
      /\ \A p : GoodBefore(p)' = GoodBefore(p) /\ Rank(p)' = Rank(p)
  BY <1>1, SameOrder
<1>4. EraseLimit' = EraseLimit /\ FreshPage' = FreshPage
  BY <1>1, SameOptions DEF EraseLimit
<1>5. Rank(off)' = 0 /\ GoodBefore(off)' = {}
  <2>1. GoodBefore(off)' = {}
    BY <1>1 DEF GoodBefore
  <2> QED
    BY <2>1, FS_EmptySet DEF Rank
<1>6. ASSUME ~opt.cDryRun, NEW p \in GoodPages, EraseSize * BlockRank(Blk(p)) < EraseLimit
      PROVE  flash[p] = FreshPage
  <2>1. p \in Nat /\ Blk(p) \in Nat /\ Blk(p) \notin bad
    BY BlkType DEF GoodPages, Pages, Blocks
  <2>2. BlockRank(Blk(p)) \in Nat /\ BlockRank(start) \in Nat
    BY <1>1, <2>1, BlockRankType
  <2>3. EraseSize * BlockRank(Blk(p)) < EraseSize * BlockRank(start)
    <3>1. EraseSize * BlockRank(Blk(p)) \in Nat
      BY <2>1, BlockBeforePage
    <3> QED
      BY <1>1, <1>2, <1>6, <3>1
  <2>4. BlockRank(Blk(p)) < BlockRank(start)
    <3>1. \A a, b \in Nat : EraseSize * a < EraseSize * b => a < b
      BY Positive, Z3
    <3> QED
      BY <2>2, <2>3, <3>1
  <2> QED
    BY <1>1, <1>6, <2>1, <2>4, BlockRankLess DEF EraseInv
<1> QED
  BY <1>1, <1>3, <1>4, <1>5, <1>6, GeometryAssumption DEF WriteInv

LEMMA WriteInvStep == TypeOK /\ FileInv /\ EraseInv /\ WriteInv /\ [Next]_vars => WriteInv'
<1> SUFFICES ASSUME TypeOK, FileInv, EraseInv, WriteInv, [Next]_vars, pc' = "write" PROVE WriteInv'
  BY DEF WriteInv
<1> USE DEF hw, loop, sizes, crcs, bounds
<1>1. CASE MtdPartInit \/ MtdPartVerifyFile
  BY <1>1 DEF MtdPartInit, MtdPartVerifyFile, OpenLoop, Fail
<1>2. CASE MtdPartErase
  <2>1. total >= EraseLimit
    BY <1>2 DEF MtdPartErase, EraseGoodBlock, EraseSkipBad, Fail
  <2> QED
    BY <1>2, <2>1, WriteStarts
<1>3. CASE MtdPartEraseError
  BY <1>3 DEF MtdPartEraseError, Fail
<1>4. CASE WriteSkipBad
  <2>1. /\ off \in Nat /\ Blk(off) \in bad /\ pc = "write" /\ off' = off + 1 /\ total' = total /\ i' = 0
        /\ UNCHANGED <<flash, bad, opt, iSize, iFileSize, src, silent, replaced>> /\ total \in Nat
    BY <1>4 DEF WriteSkipBad, NextPage, MtdPartIsBadBlock, TypeOK, CounterType
  <2>2. Rank(off + 1) = Rank(off) /\ GoodBefore(off + 1) = GoodBefore(off)
    BY <2>1, RankNext DEF GoodBefore
  <2>3. Rank(off)' = Rank(off) /\ GoodBefore(off)' = GoodBefore(off)
    BY <2>1, <2>2 DEF Rank, GoodBefore
  <2>4. EraseLimit' = EraseLimit /\ FreshPage' = FreshPage
    BY <2>1, SameOptions DEF EraseLimit
  <2>5. /\ GoodPages' = GoodPages /\ \A b : BlockRank(b)' = BlockRank(b)
        /\ \A p : Rank(p)' = Rank(p)
    BY <2>1, SameOrder
  <2>6. \A p \in GoodPages : p \in Nat /\ (p > off + 1 \/ p = off + 1 => p > off)
    BY <2>1 DEF GoodPages, Pages
  <2>7. \A p : PageWritten(p) => PageWritten(p)'
    BY <2>1, WrittenStays
  <2> QED
    BY <2>1, <2>3, <2>4, <2>5, <2>6, <2>7 DEF WriteInv
<1>5. CASE WritePage
  <2>1. /\ CanWrite /\ NextPage(Len(Chunk(src, total)))
        /\ UNCHANGED <<bad, opt, iSize, iFileSize, replaced, silent>>
    BY <1>5 DEF WritePage
  <2>2. ASSUME replaced = 0, ~opt.cDryRun
        PROVE  /\ \A p \in Pages : p # off => flash'[p] = flash[p]
               /\ \/ flash'[off] = Fill(Chunk(src, total))
                  \/ Damaged' /\ \E k \in 1..Len(Chunk(src, total)) : flash'[off][k] # Chunk(src, total)[k]
    <3> DEFINE c == Chunk(src, total)
               page == ProgramPage(flash[off], Fill(c))
    <3>1. flash' = [flash EXCEPT ![off] = page] /\ (opt.cMarkBadBlocks => page = Fill(c))
      BY <1>5, <2>2 DEF WritePage
    <3>2. /\ c \in Seq(Unit) /\ Len(c) \in 1..PageSize /\ flash \in [Pages -> Page] /\ off \in Pages
      BY <2>1, WriteOperands DEF TypeOK, HardwareType
    <3>3. \/ page = Fill(c)
          \/ MarkerOverData /\ ~opt.cMarkBadBlocks /\ \E k \in 1..Len(c) : page[k] # c[k]
      <4>1. CASE opt.cMarkBadBlocks
        BY <3>1, <4>1
      <4>2. CASE ~opt.cMarkBadBlocks
        <5>1. i = 0
          BY <2>1, <4>2 DEF WriteInv, CanWrite, TypeOK, CounterType
        <5>2. flash[off] = FreshPage
          BY <2>1, <2>2, <5>1, FreshAtOff
        <5>3. /\ \A k \in 1..Len(c) : c[k] # BAD
              /\ partWriteCleanMarker /\ ~IsNAND /\ cIsJFFS2 => c[1] = CM
          BY <2>1, <2>2, FreshAtOff
        <5> HIDE DEF c
        <5> QED
          BY <3>2, <4>2, <5>2, <5>3, FreshTakes
      <4> QED
        BY <4>1, <4>2
    <3>4. flash'[off] = page /\ \A p \in Pages : p # off => flash'[p] = flash[p]
      BY <3>1, <3>2
    <3>5. MarkerOverData /\ ~opt.cMarkBadBlocks => Damaged'
      BY <2>1, SameOptions DEF Damaged
    <3> QED
      BY <3>3, <3>4, <3>5
  <2> QED
    BY <2>1, <2>2, WriteAdvance
<1>6. CASE WritePageSilent
  <2>1. /\ CanWrite /\ NextPage(Len(Chunk(src, total))) /\ silent'
        /\ UNCHANGED <<bad, opt, iSize, iFileSize, replaced>>
        /\ flash' = [flash EXCEPT ![off] = BrokenPage]
    BY <1>6 DEF WritePageSilent
  <2>2. /\ flash \in [Pages -> Page] /\ off \in Pages /\ Len(Chunk(src, total)) \in 1..PageSize
    BY <2>1, WriteOperands DEF TypeOK, HardwareType
  <2>3. flash'[off] = BrokenPage /\ \A p \in Pages : p # off => flash'[p] = flash[p]
    BY <2>1, <2>2
  <2>4. ASSUME replaced = 0, ~opt.cDryRun
        PROVE  \E k \in 1..Len(Chunk(src, total)) : flash'[off][k] # Chunk(src, total)[k]
    <3>1. 1 \in 1..Len(Chunk(src, total)) /\ 1 \in 1..PageSize
      BY <2>2, GeometryAssumption
    <3>2. Chunk(src, total)[1] # BAD
      BY <2>1, <2>4, <3>1, FreshAtOff
    <3>3. flash'[off][1] = BAD
      BY <2>3, <3>1 DEF BrokenPage
    <3> QED
      BY <3>1, <3>2, <3>3
  <2>5. Damaged'
    BY <2>1 DEF Damaged
  <2> QED
    BY <2>1, <2>3, <2>4, <2>5, WriteAdvance
<1>7. CASE WritePageError
  <2>1. /\ opt.cMarkBadBlocks /\ CanWrite /\ FailedAttempt /\ i' = i + 1 /\ pc = "write"
        /\ UNCHANGED <<bad, opt, iSize, iFileSize, src, off, total, silent, replaced>>
    BY <1>7 DEF WritePageError, Fail
  <2>2. /\ off \in Pages /\ off \in Nat /\ i \in Nat /\ flash \in [Pages -> Page]
    BY <2>1, WriteOperands DEF TypeOK, CounterType, HardwareType
  <2>3. \A p \in Pages : p # off => flash'[p] = flash[p]
    BY <2>1, <2>2 DEF FailedAttempt
  <2>4. EraseLimit' = EraseLimit /\ FreshPage' = FreshPage
    BY <2>1, SameOptions DEF EraseLimit
  <2>5. /\ GoodPages' = GoodPages /\ \A b : BlockRank(b)' = BlockRank(b)
        /\ \A p : Rank(p)' = Rank(p) /\ GoodBefore(p)' = GoodBefore(p)
    BY <2>1, SameOrder
  <2>6. Rank(off)' = Rank(off) /\ GoodBefore(off)' = GoodBefore(off)
    BY <2>1 DEF Rank, GoodBefore
  <2>7. \A p \in GoodPages : p > off => p \in Pages /\ p # off
    BY <2>2 DEF GoodPages, Pages
  <2>8. \A p \in GoodBefore(off) : p \in Pages /\ p # off
    BY <2>2, EarlierPages
  <2>9. \A p \in GoodBefore(off) : PageWritten(p) => PageWritten(p)'
    BY <2>1, <2>3, <2>8, WrittenStays
  <2>10. ~(i' = 0) /\ ~(i + 1 = 0)
    BY <2>1, <2>2
  <2> QED
    BY <2>1, <2>3, <2>4, <2>5, <2>6, <2>7, <2>9, <2>10 DEF WriteInv
<1>8. CASE MtdPartWriteEnd
  BY <1>8 DEF MtdPartWriteEnd, OpenLoop, AfterWrite, Fail
<1>9. CASE VerifyPage \/ VerifyReadError \/ VerifyEnd
  BY <1>9 DEF VerifyPage, VerifyReadError, VerifyEnd, VerifyResult, Fail
<1>10. CASE MtdPartCheckCRC32 \/ Crash \/ Rerun
  BY <1>10 DEF MtdPartCheckCRC32, Crash, Rerun, Fail
<1>11. CASE ReplaceFile
  <2>1. /\ replaced' # 0 /\ pc = "write"
        /\ UNCHANGED <<bad, opt, src, off, total, i>>
    BY <1>11 DEF ReplaceFile, TypeOK, CounterType
  <2>2. Rank(off)' = Rank(off)
    BY <2>1 DEF Rank, GoodBefore
  <2> QED
    BY <2>1, <2>2 DEF WriteInv
<1>12. CASE Terminated \/ UNCHANGED vars
  <2>1. UNCHANGED <<pc, replaced, bad, opt, src, off, total, i, flash, silent, iSize, iFileSize>>
    BY <1>12 DEF Terminated, vars
  <2>2. /\ Rank(off)' = Rank(off) /\ GoodBefore(off)' = GoodBefore(off)
        /\ GoodPages' = GoodPages /\ (\A b : BlockRank(b)' = BlockRank(b))
        /\ (\A p : Rank(p)' = Rank(p)) /\ EraseLimit' = EraseLimit /\ FreshPage' = FreshPage
        /\ \A p : PageWritten(p) => PageWritten(p)'
    <3>1. \A p : PageWritten(p) => PageWritten(p)'
      BY <2>1, WrittenStays
    <3> QED
      BY <2>1, <3>1, SameOrder, SameOptions DEF Rank, GoodBefore, EraseLimit
  <2> QED
    BY <2>1, <2>2 DEF WriteInv
<1> QED
  BY <1>1, <1>2, <1>3, <1>4, <1>5, <1>6, <1>7, <1>8, <1>9, <1>10, <1>11, <1>12 DEF Next, Step

-----------------------------------------------------------------------------
(* When the write loop ends, the whole file is written.                    *)
LEMMA WriteEnds ==
  ASSUME TypeOK, FileInv, WriteInv, MtdPartWriteEnd, iFileSize = total, Updated
  PROVE  /\ iFileSize <= PageSize * Rank(LastPage)
         /\ \A p \in GoodPages : PageSize * Rank(p) < iFileSize => PageWritten(p)
<1>1. /\ pc = "write" /\ off \in Nat /\ off <= LastPage /\ LastPage \in Nat /\ total \in Nat
      /\ src \in Seq(Unit) /\ Len(src) \in Nat /\ total <= Len(src)
  BY Positive, LenProperties DEF MtdPartWriteEnd, TypeOK, CounterType, FileType
<1>2. /\ PageSize * Rank(off) \in Nat /\ PageSize * Rank(LastPage) \in Nat
      /\ PageSize * Rank(off) <= PageSize * Rank(LastPage)
  BY <1>1, RankType, RankMonotonic
<1>3. total <= PageSize * Rank(off)
  BY <1>1, <1>2 DEF WriteInv
<1>4. ASSUME NEW p \in GoodPages, PageSize * Rank(p) < total
      PROVE  PageWritten(p)
  <2>1. p \in Nat /\ Blk(p) \notin bad
    BY DEF GoodPages, Pages
  <2>2. PageSize * Rank(p) \in Nat
    BY <2>1, RankType
  <2>3. ~(off <= p)
    BY <1>1, <1>2, <1>3, <1>4, <2>1, <2>2, RankMonotonic
  <2>4. p \in GoodBefore(off)
    BY <1>1, <2>1, <2>3 DEF GoodBefore
  <2> QED
    BY <1>1, <1>4, <2>4 DEF WriteInv, Updated
<1> QED
  BY <1>1, <1>2, <1>3, <1>4

(* A step that leaves the flash, the bad blocks and the file alone.        *)
LEMMA DoneStays ==
  ASSUME DoneInv, UNCHANGED <<flash, bad, opt, iFileSize, silent, replaced>>,
         pc \in {"verify", "checkCRC", "done"}, src' = src, Updated',
         pc' = "done" => (IF opt.cVerify THEN verified' ELSE opt.cHasChecksum => FlashMatches(file)')
  PROVE  DoneInv'
<1>1. Updated /\ GoodPages' = GoodPages /\ (\A p : Rank(p)' = Rank(p)) /\ Rank(LastPage)' = Rank(LastPage)
  BY SameOrder DEF Updated, Rank, GoodBefore, LastPage
<1>2. \A p : PageWritten(p) => PageWritten(p)'
  BY WrittenStays
<1> QED
  BY <1>1, <1>2 DEF DoneInv

LEMMA DoneInvStep == TypeOK /\ FileInv /\ WriteInv /\ DoneInv /\ [Next]_vars => DoneInv'
<1> SUFFICES ASSUME TypeOK, FileInv, WriteInv, DoneInv, [Next]_vars, Updated',
                    pc' \in {"verify", "checkCRC", "done"}
             PROVE  DoneInv'
  BY DEF DoneInv
<1> USE DEF hw, loop, sizes, crcs, bounds
<1>1. opt' = opt
  BY OptStays
<1>2. ~opt.cVerifyOnly /\ ~opt.cDryRun /\ replaced' = 0
  BY <1>1 DEF Updated
<1>3. CASE MtdPartInit
  BY <1>2, <1>3 DEF MtdPartInit, OpenLoop
<1>4. CASE MtdPartVerifyFile \/ MtdPartErase \/ MtdPartEraseError
  BY <1>4 DEF MtdPartVerifyFile, MtdPartErase, MtdPartEraseError, EraseGoodBlock, EraseSkipBad, OpenLoop, Fail
<1>5. CASE WriteSkipBad \/ WritePage \/ WritePageSilent \/ WritePageError
  BY <1>5 DEF WriteSkipBad, WritePage, WritePageSilent, WritePageError, CanWrite, Fail
<1>6. CASE MtdPartWriteEnd
  <2>1. /\ iFileSize = total /\ OpenLoop(AfterWrite, file)
        /\ UNCHANGED <<flash, bad, file, opt, iFileSize, silent, replaced>>
    BY <1>6 DEF MtdPartWriteEnd, Fail
  <2>2. Updated /\ src' = src
    BY <1>2, <1>6, <2>1 DEF Updated, OpenLoop, FileInv, AfterInit, MtdPartWriteEnd
  <2>3. /\ iFileSize <= PageSize * Rank(LastPage)
        /\ \A p \in GoodPages : PageSize * Rank(p) < iFileSize => PageWritten(p)
    BY <1>6, <2>1, <2>2, WriteEnds
  <2>4. GoodPages' = GoodPages /\ (\A p : Rank(p)' = Rank(p)) /\ Rank(LastPage)' = Rank(LastPage)
    BY <2>1, SameOrder DEF Rank, GoodBefore, LastPage
  <2>5. \A p : PageWritten(p) => PageWritten(p)'
    BY <2>1, <2>2, WrittenStays
  <2>6. pc' = "done" => ~opt.cVerify /\ ~opt.cHasChecksum
    BY <2>1 DEF OpenLoop, AfterWrite
  <2> QED
    BY <2>1, <2>3, <2>4, <2>5, <2>6 DEF DoneInv
<1>7. CASE VerifyPage
  <2>1. /\ pc = "verify" /\ pc' = "verify"
        /\ UNCHANGED <<flash, bad, opt, iFileSize, silent, replaced, src>>
    BY <1>2, <1>7 DEF VerifyPage, VerifyResult, NextPage
  <2> QED
    BY <2>1, DoneStays
<1>8. CASE VerifyReadError
  <2>1. /\ pc = "verify" /\ pc' = "verify"
        /\ UNCHANGED <<flash, bad, opt, iFileSize, silent, replaced, src>>
    BY <1>8 DEF VerifyReadError, Fail
  <2> QED
    BY <2>1, DoneStays
<1>9. CASE VerifyEnd
  <2>1. /\ pc = "verify" /\ opt.cVerify /\ (pc' = "done" => verified')
        /\ UNCHANGED <<flash, bad, opt, iFileSize, silent, replaced, src>>
    BY <1>2, <1>9 DEF VerifyEnd, VerifyResult, FileInv
  <2> QED
    BY <2>1, DoneStays
<1>10. CASE MtdPartCheckCRC32
  <2>1. /\ pc = "checkCRC" /\ ~opt.cVerify /\ FlashMatches(uiCRC32)
        /\ UNCHANGED <<flash, bad, opt, file, uiCRC32, iFileSize, silent, replaced, src>>
    BY <1>10 DEF MtdPartCheckCRC32, Fail, FileInv
  <2>2. uiCRC32 = file
    BY <1>2, <2>1 DEF FileInv
  <2>3. FlashMatches(file)' <=> FlashMatches(file)
    BY <2>1 DEF FlashMatches, GoodPages, Rank, GoodBefore
  <2> QED
    BY <2>1, <2>2, <2>3, DoneStays
<1>11. CASE Crash \/ Rerun \/ ReplaceFile
  BY <1>2, <1>11 DEF Crash, Rerun, ReplaceFile, TypeOK, CounterType
<1>12. CASE Terminated \/ UNCHANGED vars
  <2>1. UNCHANGED <<flash, bad, opt, file, iFileSize, silent, replaced, src, pc, verified>>
    BY <1>12 DEF Terminated, vars
  <2>2. FlashMatches(file)' <=> FlashMatches(file)
    BY <2>1 DEF FlashMatches, GoodPages, Rank, GoodBefore
  <2>3. pc' = "done" => (IF opt.cVerify THEN verified' ELSE opt.cHasChecksum => FlashMatches(file)')
    BY <1>2, <2>1, <2>2, Zenon DEF DoneInv, Updated
  <2> QED
    BY <2>1, <2>3, DoneStays
<1> QED
  BY <1>3, <1>4, <1>5, <1>6, <1>7, <1>8, <1>9, <1>10, <1>11, <1>12 DEF Next, Step

-----------------------------------------------------------------------------
(* What holds at every step of every run.                                  *)
UpdateInv == TypeOK /\ VerifyInv /\ FileInv /\ EraseInv /\ WriteInv /\ DoneInv

THEOREM UpdateInvariance == Spec => []UpdateInv
<1>1. Init => UpdateInv
  <2> SUFFICES ASSUME Init PROVE UpdateInv
    OBVIOUS
  <2>1. TypeOK
    BY InitType
  <2>2. VerifyInv /\ FileInv /\ EraseInv /\ WriteInv /\ DoneInv
    BY DEF Init, VerifyInv, FileInv, AfterInit, EraseInv, WriteInv, DoneInv
  <2> QED
    BY <2>1, <2>2 DEF UpdateInv
<1>2. UpdateInv /\ [Next]_vars => UpdateInv'
  <2>1. TypeOK /\ [Next]_vars => TypeOK'
    BY HardwareStep, FileStep, FlagStep, CounterStep DEF TypeOK
  <2> QED
    BY <2>1, VerifyStep, FileInvStep, EraseInvStep, WriteInvStep, DoneInvStep DEF UpdateInv
<1> QED
  BY <1>1, <1>2, PTL DEF Spec

(* What is written matches the file, if no damage went unnoticed.          *)
LEMMA FillMatches ==
  ASSUME NEW c \in Seq(Unit), Len(c) \in 1..PageSize
  PROVE  PageMatches(Fill(c), c)
<1>1. Len(c) \in Nat /\ PageSize \in Nat /\ Len(c) <= PageSize
  BY GeometryAssumption, LenProperties
<1>2. CASE cIsJFFS2
  BY <1>1, <1>2 DEF PageMatches, Fill
<1>3. CASE ~cIsJFFS2
  BY <1>1, <1>3 DEF PageMatches, Fill
<1> QED
  BY <1>2, <1>3

LEMMA SuccessFlashed == UpdateInv => SuccessMeansFlashed
<1> SUFFICES ASSUME UpdateInv, pc = "done", ~opt.cVerifyOnly, ~opt.cDryRun, replaced = 0,
                    Damaged => opt.cVerify \/ opt.cHasChecksum
             PROVE  FlashHolds(file, Len(file)) /\ (~Damaged => Padded(file))
  BY DEF SuccessMeansFlashed
<1>1. /\ TypeOK /\ Updated /\ DoneInv /\ src = file /\ iFileSize = Len(file)
      /\ file \in Seq(Unit) /\ Len(file) \in Nat
  BY LenProperties DEF UpdateInv, Updated, FileInv, AfterInit, TypeOK, FileType
<1>2. ASSUME ~Damaged, NEW p \in GoodPages, PageSize * Rank(p) < Len(file)
      PROVE  flash[p] = Fill(Chunk(file, PageSize * Rank(p)))
  BY <1>1, <1>2 DEF DoneInv, PageWritten
<1>3. ~Damaged => Padded(file)
  <2> SUFFICES ASSUME ~Damaged, NEW p \in GoodPages, PageSize * Rank(p) < Len(file),
                      NEW k \in (Len(Chunk(file, PageSize * Rank(p))) + 1)..PageSize
               PROVE  flash[p][k] =
                        IF cIsJFFS2 /\ Len(Chunk(file, PageSize * Rank(p))) + NodeSize < PageSize
                        THEN PAD ELSE FF
    BY DEF Padded
  <2> DEFINE c == Chunk(file, PageSize * Rank(p))
  <2>1. flash[p] = Fill(c)
    BY <1>2
  <2>2. Len(c) \in 1..PageSize /\ Len(c) \in Nat
    <3>1. PageSize * Rank(p) \in Nat
      BY RankType DEF GoodPages, Pages
    <3> QED
      BY <1>1, <3>1, ChunkType, LenProperties
  <2> HIDE DEF c
  <2>3. k \in 1..PageSize /\ ~(k <= Len(c))
    BY <2>2, GeometryAssumption DEF c
  <2>4. Fill(c)[k] = IF cIsJFFS2 /\ Len(c) + NodeSize < PageSize THEN PAD ELSE FF
    BY <2>3 DEF Fill
  <2> QED
    BY <2>1, <2>4 DEF c
<1>4. FlashHolds(file, Len(file))
  <2>1. CASE opt.cVerify
    BY <1>1, <2>1 DEF DoneInv, UpdateInv, VerifyInv
  <2>2. CASE ~opt.cVerify
    <3>1. Damaged => FlashMatches(file)
      BY <1>1, <2>2 DEF DoneInv
    <3>2. ASSUME NEW p \in GoodPages, PageSize * Rank(p) < Len(file)
          PROVE  PageMatches(flash[p], Chunk(file, PageSize * Rank(p)))
      <4> DEFINE n == PageSize * Rank(p)
                 c == Chunk(file, n)
      <4>1. n \in Nat /\ n < Len(file)
        BY <3>2, RankType DEF GoodPages, Pages
      <4>2. c \in Seq(Unit) /\ Len(c) \in 1..PageSize /\ Len(c) \in Nat
        BY <1>1, <4>1, ChunkType, LenProperties
      <4>3. flash[p] = Fill(c) \/ (Damaged /\ \E k \in 1..Len(c) : flash[p][k] # c[k])
        BY <1>1, <3>2 DEF DoneInv, PageWritten
      <4>4. ASSUME Damaged, NEW k \in 1..Len(c) PROVE flash[p][k] = c[k]
        <5>1. n + k \in 1..Len(file) /\ c[k] = file[n + k]
          BY <1>1, <4>1, <4>4, ChunkUnits
        <5>2. k \in 1..PageSize /\ n + k <= iFileSize
          BY <1>1, <4>2, <5>1, GeometryAssumption
        <5>3. flash[p][k] = file[n + k]
          BY <3>1, <4>4, <5>2 DEF FlashMatches
        <5> QED
          BY <5>1, <5>3
      <4>5. flash[p] = Fill(c)
        BY <4>3, <4>4
      <4> QED
        BY <4>2, <4>5, FillMatches
    <3> QED
      BY <1>1, <3>2 DEF DoneInv, FlashHolds
  <2> QED
    BY <2>1, <2>2
<1> QED
  BY <1>3, <1>4

(***************************************************************************)
(* An update that ends with EXIT_SUCCESS has put the file on the flash     *)
(* (when the file was left alone, and a damage that went unnoticed while   *)
(* writing had -v or -c to catch it), and padded its last page (when there *)
(* was no such damage), on every geometry, with every set of bad blocks    *)
(* and after any number of failed or killed attempts.                      *)
(***************************************************************************)
THEOREM SuccessCorrect == Spec => []SuccessMeansFlashed
<1> QED
  BY UpdateInvariance, SuccessFlashed, PTL

-----------------------------------------------------------------------------
(* Where a step changes the flash: in the block that is being erased, or   *)
(* at the page that is being written.                                      *)
LEMMA FlashChanges ==
  ASSUME TypeOK, [Next]_vars, NEW p \in Pages, flash'[p] # flash[p]
  PROVE  \/ /\ MtdPartErase \/ MtdPartEraseError \/ Crash
            /\ pc = "erase" /\ total < EraseLimit /\ Blk(p) = start /\ start \notin bad
         \/ CanWrite /\ ~opt.cDryRun /\ p = off
<1> USE DEF hw
<1>1. flash \in [Pages -> Page]
  BY DEF TypeOK, HardwareType
<1>2. CASE MtdPartErase
  <2>1. EraseGoodBlock /\ start \notin bad /\ start < NBlocks /\ total < EraseLimit /\ pc = "erase"
    BY <1>2 DEF MtdPartErase, EraseSkipBad, MtdPartIsBadBlock
  <2>2. start \in Blocks
    BY <2>1, GeometryAssumption DEF TypeOK, CounterType, Blocks
  <2>3. flash' = EraseMarked(EraseBlock(flash, start), start)
    BY <2>1 DEF EraseGoodBlock
  <2>4. Blk(p) = start
    BY <1>1, <2>2, <2>3, ErasedFresh
  <2> QED
    BY <1>2, <2>1, <2>4
<1>3. CASE MtdPartEraseError
  <2>1. Blk(p) = start
    BY <1>1, <1>3 DEF MtdPartEraseError
  <2> QED
    BY <1>3, <2>1 DEF MtdPartEraseError, MtdPartIsBadBlock
<1>4. CASE WritePage
  <2>1. CanWrite /\ ~opt.cDryRun
    BY <1>4 DEF WritePage
  <2>2. flash' = [flash EXCEPT ![off] = ProgramPage(flash[off], Fill(Chunk(src, total)))]
    BY <1>4, <2>1 DEF WritePage
  <2>3. p = off
    BY <1>1, <2>2
  <2> QED
    BY <2>1, <2>3
<1>5. CASE WritePageSilent
  <2>1. p = off
    BY <1>1, <1>5 DEF WritePageSilent
  <2> QED
    BY <1>5, <2>1 DEF WritePageSilent
<1>6. CASE WritePageError
  <2>1. p = off
    BY <1>1, <1>6 DEF WritePageError, FailedAttempt
  <2> QED
    BY <1>6, <2>1 DEF WritePageError
<1>7. CASE Crash
  <2>1. CASE TornErase
    <3>1. Blk(p) = start
      BY <1>1, <2>1 DEF TornErase
    <3> QED
      BY <1>7, <2>1, <3>1 DEF TornErase, MtdPartIsBadBlock
  <2>2. CASE TornWrite
    <3>1. p = off
      BY <1>1, <2>2 DEF TornWrite
    <3> QED
      BY <2>2, <3>1 DEF TornWrite
  <2> QED
    BY <1>7, <2>1, <2>2 DEF Crash
<1> QED
  BY <1>2, <1>3, <1>4, <1>5, <1>6, <1>7
  DEF Next, Step, MtdPartInit, MtdPartVerifyFile, WriteSkipBad, MtdPartWriteEnd, VerifyPage,
      VerifyReadError, VerifyEnd, MtdPartCheckCRC32, Crash, Rerun, ReplaceFile, Terminated, vars

LEMMA ErasedFirst ==
  ASSUME UpdateInv, [Next]_vars, replaced = 0, pc # "erase",
         NEW p \in Pages, flash'[p] # flash[p]
  PROVE  Programmable(p)
<1>1. CanWrite /\ ~opt.cDryRun /\ p = off
  BY FlashChanges DEF UpdateInv
<1>2. CASE i = 0
  <2>1. flash[p] = FreshPage
    BY <1>1, <1>2, FreshAtOff DEF UpdateInv
  <2> QED
    BY <2>1 DEF FreshPage, Programmable
<1>3. CASE i # 0
  BY <1>1, <1>3 DEF Programmable, UpdateInv, TypeOK, CounterType
<1> QED
  BY <1>2, <1>3

(***************************************************************************)
(* The erase loop, which counts blocks, and the write loop, which counts   *)
(* pages, agree: no page is programmed that has not been erased in this    *)
(* invocation, unless it is being retried or carries its clean marker.     *)
(***************************************************************************)
THEOREM ErasedFirstCorrect == Spec => ErasedBeforeProgrammed
<1>1. UpdateInv /\ [Next]_vars
      => (replaced = 0 /\ pc # "erase" =>
            \A p \in Pages : flash'[p] # flash[p] => Programmable(p))
  BY ErasedFirst
<1>2. UpdateInv /\ [Next]_vars
      => [replaced = 0 /\ pc # "erase" =>
            \A p \in Pages : flash'[p] # flash[p] => Programmable(p)]_vars
  BY <1>1
<1> QED
  BY <1>2, UpdateInvariance, PTL DEF Spec, ErasedBeforeProgrammed

LEMMA OnlyNeeded ==
  ASSUME UpdateInv, [Next]_vars, replaced = 0, ~partEraseAll,
         NEW p \in Pages, flash'[p] # flash[p]
  PROVE  Blk(p) \notin bad /\ EraseSize * BlockRank(Blk(p)) < iFileSize
<1>1. CASE pc = "erase" /\ total < EraseLimit /\ Blk(p) = start /\ start \notin bad
  BY <1>1 DEF UpdateInv, EraseInv, EraseLimit
<1>2. CASE CanWrite /\ ~opt.cDryRun /\ p = off
  <2>1. EraseSize * BlockRank(Blk(off)) < Len(file)
    BY <1>2, FreshAtOff DEF UpdateInv
  <2>2. iFileSize = Len(file)
    BY <1>2 DEF UpdateInv, FileInv, AfterInit, CanWrite
  <2> QED
    BY <1>2, <2>1, <2>2 DEF CanWrite, MtdPartIsBadBlock
<1> QED
  BY <1>1, <1>2, FlashChanges DEF UpdateInv

(***************************************************************************)
(* An update that is not told to erase everything leaves the bad blocks,   *)
(* and the good ones the image does not reach, as they were.               *)
(***************************************************************************)
THEOREM OnlyNeededCorrect == Spec => OnlyNeededBlocksChange
<1>1. UpdateInv /\ [Next]_vars
      => [replaced = 0 /\ ~partEraseAll =>
            \A p \in Pages : flash'[p] # flash[p] =>
               Blk(p) \notin bad /\ EraseSize * BlockRank(Blk(p)) < iFileSize]_vars
  BY OnlyNeeded
<1> QED
  BY <1>1, UpdateInvariance, PTL DEF Spec, OnlyNeededBlocksChange

-----------------------------------------------------------------------------
(***************************************************************************)
(* Clean markers on NOR, where no block is ever bad and a page is a block: *)
(* MtdPartErase writes one to every block; MtdPartWrite leaves those alone *)
(* that the image does not reach, and where the image has a marker itself  *)
(* what it programs over the block starts with the same one.               *)
(***************************************************************************)
MarksNor == partWriteCleanMarker /\ ~opt.cVerifyOnly /\ ~opt.cDryRun

AllMarked ==
    \A p \in Pages : NeedsMarker(p) /\ (pc = "write" /\ i > 0 => p # off) => flash[p][1] = CM

MarkInv ==
    /\ bad = {}
    /\ pc \in {"verifyFile", "erase"} => iSize = EraseSize * NBlocks
    /\ pc = "write" /\ i > 0 => off < LastPage /\ total < Len(src)
    /\ MarksNor /\ replaced = 0 /\ pc \in {"write", "verify", "checkCRC", "done"} => AllMarked

(* Which blocks need a marker follows from the command, the file and what  *)
(* has been damaged unnoticed.                                             *)
LEMMA SameMarkers ==
  ASSUME UNCHANGED <<opt, file, iFileSize, bad>>, silent => silent'
  PROVE  (MarksNor' <=> MarksNor) /\ \A p \in Pages : NeedsMarker(p)' => NeedsMarker(p)
<1>1. (MarksNor' <=> MarksNor) /\ (cIsJFFS2' <=> cIsJFFS2)
  BY SameOptions DEF MarksNor
<1>2. ASSUME NEW p \in Pages PROVE NeedsMarker(p)' => NeedsMarker(p)
  BY <1>1 DEF NeedsMarker, BlockRank
<1> QED
  BY <1>1, <1>2

(* The erase loop ends behind the last block.                              *)
LEMMA AllBlocksErased ==
  ASSUME ~IsNAND, UpdateInv, MarkInv, MtdPartErase, pc' = "write", MarksNor, replaced = 0
  PROVE  \A p \in Pages : flash[p][1] = CM
<1>1. /\ pc = "erase" /\ total >= EraseLimit /\ iSize = EraseSize * NBlocks /\ bad = {}
      /\ total = EraseSize * BlockRank(start) /\ start \in 0..NBlocks /\ start \in Nat
      /\ NBlocks \in Nat
  BY GeometryAssumption
  DEF MtdPartErase, EraseGoodBlock, EraseSkipBad, Fail, MarkInv, UpdateInv, EraseInv, TypeOK, CounterType
<1>2. EraseLimit = iSize
  BY DEF EraseLimit, partEraseAll, partWriteCleanMarker, MarksNor
<1>3. BlockRank(start) = start
  <2>1. 0..(start - 1) \ bad = 0..(start - 1) /\ 0 \in Int /\ start - 1 \in Int
    BY <1>1
  <2>2. Cardinality(0..(start - 1)) = IF 0 > start - 1 THEN 0 ELSE (start - 1) - 0 + 1
    BY <2>1, FS_Interval
  <2>3. BlockRank(start) = Cardinality(0..(start - 1))
    BY <2>1 DEF BlockRank
  <2> QED
    BY <1>1, <2>2, <2>3
<1>4. start = NBlocks
  <2>1. \A a, b \in Nat : EraseSize * a >= EraseSize * b => a >= b
    BY Positive, Z3
  <2> QED
    BY <1>1, <1>2, <1>3, <2>1
<1>5. FreshPage[1] = CM
  <2>1. 1 \in 1..PageSize
    BY GeometryAssumption
  <2> QED
    BY <2>1 DEF FreshPage, ErasedPage, MarksNor
<1>6. ASSUME NEW p \in Pages PROVE flash[p] = FreshPage
  <2>1. Blk(p) \in Blocks /\ Blk(p) \notin bad
    BY <1>1, BlkType
  <2>2. p \in GoodPages /\ Blk(p) < start
    BY <1>1, <1>4, <2>1 DEF GoodPages, Blocks
  <2> QED
    BY <1>1, <2>2 DEF UpdateInv, EraseInv, MarksNor
<1> QED
  BY <1>5, <1>6

(* The page being written needs a marker only when the image has one there.*)
LEMMA NeededAtOff ==
  ASSUME ~IsNAND, UpdateInv, MarkInv, MarksNor, CanWrite, replaced = 0
  PROVE  /\ EraseSize * BlockRank(off) + 1 <= iFileSize
         /\ NeedsMarker(off) => ~silent /\ Chunk(src, total)[1] = CM
<1>1. TypeOK /\ FileInv /\ WriteInv /\ ~opt.cDryRun /\ bad = {} /\ pc = "write"
  BY DEF UpdateInv, MarksNor, MarkInv, CanWrite
<1>2. /\ total = PageSize * Rank(off) /\ off \in Nat /\ off \in Pages
      /\ EraseSize * BlockRank(Blk(off)) < Len(file)
      /\ cIsJFFS2 => Chunk(src, total)[1] = CM
  BY <1>1, FreshAtOff DEF MarksNor, GoodPages
<1>3. src = file /\ iFileSize = Len(file)
  BY <1>1 DEF FileInv, AfterInit
<1>4. EraseSize = PageSize /\ Blk(off) = off /\ \A q \in 0..(off - 1) : Blk(q) = q
  BY <1>2, NorPages
<1>5. Rank(off) = BlockRank(off)
  <2>1. GoodBefore(off) = 0..(off - 1) \ bad
    BY <1>1, <1>4 DEF GoodBefore
  <2> QED
    BY <2>1 DEF Rank, BlockRank
<1>6. total \in Nat /\ total < Len(src) /\ src \in Seq(Unit) /\ Len(src) \in Nat
  BY <1>1, LenProperties DEF CanWrite, TypeOK, CounterType, FileType
<1>7. Chunk(src, total)[1] = file[total + 1]
  <2>1. 1 \in 1..Len(Chunk(src, total))
    BY <1>6, ChunkType
  <2> QED
    BY <1>3, <1>6, <2>1, ChunkUnits
<1>8. EraseSize * BlockRank(off) = total
  BY <1>2, <1>4, <1>5
<1> QED
  BY <1>2, <1>3, <1>6, <1>7, <1>8 DEF NeedsMarker

(* A page that is written starts with its marker again.                    *)
LEMMA WrittenMarked ==
  ASSUME ~IsNAND, UpdateInv, MarkInv, WritePage, MarksNor, replaced = 0
  PROVE  /\ NeedsMarker(off) => flash'[off][1] = CM
         /\ \A p \in Pages : p # off => flash'[p] = flash[p]
<1> DEFINE c == Chunk(src, total)
           page == ProgramPage(flash[off], Fill(c))
<1>1. /\ CanWrite /\ ~opt.cDryRun /\ pc = "write"
      /\ flash' = [flash EXCEPT ![off] = page] /\ (opt.cMarkBadBlocks => page = Fill(c))
      /\ TypeOK /\ FileInv /\ WriteInv
  BY DEF WritePage, MarksNor, UpdateInv, CanWrite
<1>2. /\ off \in Pages /\ c \in Seq(Unit) /\ Len(c) \in 1..PageSize
      /\ flash \in [Pages -> Page]
  BY <1>1, WriteOperands DEF TypeOK, HardwareType
<1>3. flash'[off] = page /\ \A p \in Pages : p # off => flash'[p] = flash[p]
  BY <1>1, <1>2
<1>4. NeedsMarker(off) => c[1] = CM
  BY <1>1, NeededAtOff
<1> HIDE DEF c
<1>5. NeedsMarker(off) => Fill(c)[1] = CM
  <2>1. 1 \in 1..PageSize /\ 1 <= Len(c)
    BY <1>2, GeometryAssumption
  <2> QED
    BY <1>4, <2>1 DEF Fill
<1>6. NeedsMarker(off) => page[1] = CM
  <2>1. CASE opt.cMarkBadBlocks
    BY <1>1, <1>5, <2>1
  <2>2. CASE ~opt.cMarkBadBlocks
    <3>1. i = 0
      BY <1>1, <2>2 DEF WriteInv, TypeOK, CounterType
    <3>2. NeedsMarker(off) => flash[off][1] = CM
      BY <1>1, <1>2, <3>1 DEF MarkInv, AllMarked
    <3>3. 1 \in 1..PageSize
      BY GeometryAssumption
    <3>4. NeedsMarker(off) => page[1] = ProgramUnit(CM, CM)
      BY <1>5, <3>2, <3>3 DEF ProgramPage
    <3> QED
      BY <3>4 DEF ProgramUnit, CM, FF
  <2> QED
    BY <2>1, <2>2
<1> QED
  BY <1>3, <1>6

(* A step after the write loop leaves the markers where they are.          *)
LEMMA MarksStay ==
  ASSUME ~IsNAND, MarkInv, UNCHANGED <<flash, bad, opt, file, iFileSize, silent, replaced>>,
         pc' \notin {"verifyFile", "erase", "write"},
         pc' \in {"verify", "checkCRC", "done"} /\ ~opt.cVerifyOnly =>
            pc \in {"verify", "checkCRC", "done"} \/ (pc = "write" /\ i = 0)
  PROVE  MarkInv'
<1>1. bad' = {}
  BY DEF MarkInv
<1>2. (MarksNor' <=> MarksNor) /\ \A p \in Pages : NeedsMarker(p)' => NeedsMarker(p)
  BY SameMarkers
<1>3. ASSUME MarksNor, replaced = 0, pc' \in {"verify", "checkCRC", "done"} PROVE AllMarked'
  <2>1. /\ pc \in {"write", "verify", "checkCRC", "done"}
        /\ ~(pc = "write" /\ i > 0)
    BY <1>3 DEF MarksNor
  <2>2. \A p \in Pages : NeedsMarker(p) => flash[p][1] = CM
    BY <1>3, <2>1 DEF MarkInv, AllMarked
  <2> QED
    BY <1>2, <2>2 DEF AllMarked
<1> QED
  BY <1>1, <1>2, <1>3 DEF MarkInv

LEMMA MarkInvStep ==
  ASSUME ~IsNAND, UpdateInv, MarkInv, [Next]_vars
  PROVE  MarkInv'
<1> USE DEF hw, loop, sizes, crcs, bounds
<1>1. /\ opt' = opt /\ bad = {} /\ TypeOK
  BY OptStays DEF MarkInv, UpdateInv
<1>2. ASSUME UNCHANGED <<file, iFileSize, bad>>, silent => silent'
      PROVE  (MarksNor' <=> MarksNor) /\ \A p \in Pages : NeedsMarker(p)' => NeedsMarker(p)
  BY <1>1, <1>2, SameMarkers
<1>3. CASE MtdPartInit
  <2>1. /\ iSize' = EraseSize * (NBlocks - Cardinality(bad)) /\ bad' = bad /\ replaced' = replaced
        /\ pc' \in {"refused", "verify", "verifyFile", "erase"}
        /\ pc' = "verify" => opt.cVerifyOnly
    BY <1>3, Zenon DEF MtdPartInit, OpenLoop
  <2>2. Cardinality(bad) = 0 /\ NBlocks - 0 = NBlocks
    BY <1>1, FS_EmptySet, GeometryAssumption
  <2>3. ~(MarksNor' /\ pc' = "verify")
    BY <1>1, <2>1 DEF MarksNor
  <2> QED
    BY <1>1, <2>1, <2>2, <2>3 DEF MarkInv
<1>4. CASE MtdPartVerifyFile
  <2>1. /\ pc = "verifyFile" /\ pc' \in {"erase", "failed"}
        /\ UNCHANGED <<iSize, bad, replaced>>
    BY <1>4 DEF MtdPartVerifyFile, OpenLoop, Fail
  <2> QED
    BY <1>1, <2>1 DEF MarkInv
<1>5. CASE MtdPartErase
  <2>1. /\ pc = "erase" /\ pc' \in {"erase", "failed", "write"}
        /\ UNCHANGED <<iSize, bad, replaced, silent, file, iFileSize>>
        /\ pc' = "write" => i' = 0 /\ UNCHANGED flash
    BY <1>5 DEF MtdPartErase, EraseGoodBlock, EraseSkipBad, OpenLoop, Fail
  <2>2. ASSUME MarksNor, replaced = 0, pc' = "write" PROVE AllMarked'
    BY <1>5, <2>1, <2>2, AllBlocksErased DEF AllMarked
  <2>3. pc' = "write" => ~(i' > 0)
    BY <2>1
  <2> QED
    BY <1>1, <1>2, <2>1, <2>2, <2>3 DEF MarkInv
<1>6. CASE MtdPartEraseError
  BY <1>1, <1>6 DEF MtdPartEraseError, Fail, MarkInv
<1>7. CASE WriteSkipBad
  BY <1>1, <1>7 DEF WriteSkipBad, MtdPartIsBadBlock
<1>8. CASE WritePage
  <2>1. /\ pc = "write" /\ pc' = "write" /\ i' = 0
        /\ UNCHANGED <<bad, replaced, silent, file, iFileSize>>
    BY <1>8 DEF WritePage, CanWrite, NextPage
  <2>2. ASSUME MarksNor, replaced = 0 PROVE AllMarked'
    <3>1. /\ NeedsMarker(off) => flash'[off][1] = CM
          /\ \A p \in Pages : p # off => flash'[p] = flash[p]
      BY <1>8, <2>2, WrittenMarked
    <3>2. \A p \in Pages : NeedsMarker(p) /\ p # off => flash[p][1] = CM
      BY <2>1, <2>2 DEF MarkInv, AllMarked
    <3>3. \A p \in Pages : NeedsMarker(p)' => NeedsMarker(p)
      BY <1>2, <2>1
    <3> QED
      BY <3>1, <3>2, <3>3 DEF AllMarked
  <2>3. ~(i' > 0)
    BY <2>1
  <2> QED
    BY <1>1, <1>2, <2>1, <2>2, <2>3 DEF MarkInv
<1>9. CASE WritePageSilent
  <2>1. /\ CanWrite /\ pc = "write" /\ pc' = "write" /\ i' = 0 /\ silent'
        /\ UNCHANGED <<bad, replaced, file, iFileSize>>
        /\ flash' = [flash EXCEPT ![off] = BrokenPage]
    BY <1>9 DEF WritePageSilent, CanWrite, NextPage
  <2>2. ASSUME MarksNor, replaced = 0 PROVE AllMarked'
    <3>1. \A p \in Pages : p # off => flash'[p] = flash[p]
      BY <1>1, <2>1 DEF TypeOK, HardwareType
    <3>2. \A p \in Pages : NeedsMarker(p) /\ p # off => flash[p][1] = CM
      BY <2>1, <2>2 DEF MarkInv, AllMarked
    <3>3. \A p \in Pages : NeedsMarker(p)' => NeedsMarker(p)
      BY <1>2, <2>1
    <3>4. ASSUME NEW p \in Pages, p = off PROVE ~NeedsMarker(p)'
      <4>1. EraseSize * BlockRank(p) + 1 <= iFileSize /\ iFileSize \in Nat
        BY <1>1, <2>1, <2>2, <3>4, NeededAtOff DEF TypeOK, CounterType
      <4>2. EraseSize * BlockRank(p) \in Nat
        <5>1. \A a, b \in Nat : a * b \in Nat
          BY Z3
        <5>2. p \in Nat
          BY DEF Pages
        <5>3. BlockRank(p) \in Nat /\ EraseSize \in Nat
          BY <5>2, Positive, BlockRankType
        <5> QED
          BY <5>1, <5>3
      <4>3. BlockRank(p)' = BlockRank(p)
        BY <2>1 DEF BlockRank
      <4> QED
        BY <2>1, <4>1, <4>2, <4>3 DEF NeedsMarker
    <3> QED
      BY <3>1, <3>2, <3>3, <3>4 DEF AllMarked
  <2>3. ~(i' > 0)
    BY <2>1
  <2> QED
    BY <1>1, <1>2, <2>1, <2>2, <2>3 DEF MarkInv
<1>10. CASE WritePageError
  <2>1. /\ CanWrite /\ FailedAttempt /\ bad' = bad
        /\ UNCHANGED <<replaced, silent, file, iFileSize>>
        /\ \/ pc' = "failed"
           \/ pc' = pc /\ i' = i + 1 /\ UNCHANGED <<src, off, total>>
    BY <1>1, <1>10 DEF WritePageError, Fail, MtdMarkBadBlock
  <2>2. CASE pc' = "failed"
    BY <1>1, <2>1, <2>2 DEF MarkInv
  <2>3. CASE pc' = pc /\ i' = i + 1 /\ UNCHANGED <<src, off, total>>
    <3>1. off \in Pages /\ flash \in [Pages -> Page] /\ i \in Nat /\ pc = "write"
      BY <1>1, <2>1, WriteOperands DEF CanWrite, TypeOK, HardwareType, CounterType
    <3>2. \A p \in Pages : p # off => flash'[p] = flash[p]
      BY <2>1, <3>1 DEF FailedAttempt
    <3>3. MarksNor /\ replaced = 0
          => \A p \in Pages : NeedsMarker(p) /\ p # off => flash[p][1] = CM
      BY <3>1 DEF MarkInv, AllMarked
    <3>4. i' > 0
      BY <2>3, <3>1
    <3>5. MarksNor /\ replaced = 0 => AllMarked'
      BY <1>2, <2>1, <2>3, <3>1, <3>2, <3>3, <3>4 DEF AllMarked
    <3>6. off < LastPage /\ total < Len(src) /\ LastPage' = LastPage
      BY <2>1 DEF CanWrite, LastPage
    <3> QED
      BY <1>1, <1>2, <2>1, <2>3, <3>1, <3>5, <3>6 DEF MarkInv
  <2> QED
    BY <2>1, <2>2, <2>3
<1>11. CASE MtdPartWriteEnd
  <2>1. /\ pc = "write" /\ pc' \in {"failed", "verify", "checkCRC", "done"}
        /\ UNCHANGED <<flash, bad, file, iFileSize, silent, replaced>>
        /\ off >= LastPage \/ total >= Len(src)
    BY <1>11, Zenon DEF MtdPartWriteEnd, OpenLoop, AfterWrite, Fail
  <2>2. off \in Int /\ LastPage \in Int /\ total \in Int /\ Len(src) \in Int /\ i \in Nat
    BY <1>1, Positive, LenProperties DEF TypeOK, CounterType, FileType
  <2>3. i = 0
    BY <2>1, <2>2 DEF MarkInv
  <2> QED
    BY <1>1, <2>1, <2>3, MarksStay
<1>12. CASE VerifyPage \/ VerifyEnd
  <2>1. /\ pc = "verify" /\ pc' \in {"verify", "done", "failed"}
        /\ UNCHANGED <<flash, bad, file, iFileSize, silent, replaced>>
    BY <1>12 DEF VerifyPage, VerifyEnd, VerifyResult, NextPage
  <2> QED
    BY <1>1, <2>1, MarksStay
<1>13. CASE VerifyReadError
  <2>1. /\ pc = "verify" /\ pc' \in {"verify", "failed"}
        /\ UNCHANGED <<flash, bad, file, iFileSize, silent, replaced>>
    BY <1>13 DEF VerifyReadError, Fail, MtdMarkBadBlock
  <2> QED
    BY <1>1, <2>1, MarksStay
<1>14. CASE MtdPartCheckCRC32
  <2>1. /\ pc = "checkCRC" /\ pc' \in {"done", "failed"}
        /\ UNCHANGED <<flash, bad, file, iFileSize, silent, replaced>>
    BY <1>14 DEF MtdPartCheckCRC32, Fail
  <2> QED
    BY <1>1, <2>1, MarksStay
<1>15. CASE Crash \/ Rerun
  BY <1>1, <1>15 DEF Crash, Rerun, MarkInv
<1>16. CASE ReplaceFile
  <2>1. /\ replaced' # 0 /\ UNCHANGED <<bad, iSize, pc, i, off, total, src>>
    BY <1>1, <1>16 DEF ReplaceFile, TypeOK, CounterType
  <2> QED
    BY <2>1 DEF MarkInv
<1>17. CASE Terminated \/ UNCHANGED vars
  <2>1. /\ UNCHANGED <<bad, replaced, pc, iSize, i, off, total, src, silent, flash>>
        /\ UNCHANGED <<file, iFileSize>>
    BY <1>17 DEF Terminated, vars
  <2>2. AllMarked => AllMarked'
    BY <1>2, <2>1 DEF AllMarked
  <2> QED
    BY <1>1, <1>2, <2>1, <2>2 DEF MarkInv
<1> QED
  BY <1>3, <1>4, <1>5, <1>6, <1>7, <1>8, <1>9, <1>10, <1>11, <1>12, <1>13, <1>14, <1>15, <1>16, <1>17
  DEF Next, Step

(***************************************************************************)
(* An update of a NOR partition with --clean-marker, or with a JFFS2       *)
(* image, that succeeds leaves a clean marker at the start of every block  *)
(* the image does not reach; with a JFFS2 image, and wherever another one  *)
(* has a marker of its own, also of the blocks under it, those included    *)
(* that were programmed again with -b after an error (unless the damage of *)
(* a page went unnoticed).  Nobody replaces the file meanwhile.  (On NAND  *)
(* the marker is all zeros, and the property does not hold.)               *)
(***************************************************************************)
THEOREM MarkersCorrect ==
  ASSUME ~IsNAND
  PROVE  Spec => []CleanMarkersWritten
<1>1. Init => MarkInv
  <2> SUFFICES ASSUME Init PROVE MarkInv
    OBVIOUS
  <2>1. bad = {} /\ pc = "start"
    BY InputAssumption DEF Init
  <2> QED
    BY <2>1 DEF MarkInv
<1>2. UpdateInv /\ MarkInv /\ [Next]_vars => MarkInv'
  BY MarkInvStep
<1>3. MarkInv => CleanMarkersWritten
  <2> SUFFICES ASSUME MarkInv, pc = "done", MarksNor, replaced = 0,
                      NEW b \in Blocks, NeedsMarker(b)
               PROVE  flash[b][1] = CM
    BY DEF CleanMarkersWritten, MarksNor
  <2>1. b \in Pages
    BY NorPages
  <2> QED
    BY <2>1 DEF MarkInv, AllMarked
<1> QED
  BY <1>1, <1>2, <1>3, UpdateInvariance, PTL DEF Spec

(***************************************************************************)
(* On NOR an update that succeeds, of a file left alone, leaves the        *)
(* contents, the padding of the last block (with a JFFS2 image its padding *)
(* node) and the clean markers that were asked for, as SuccessMeansFlashed *)
(* and CleanMarkersWritten say.                                            *)
(***************************************************************************)
THEOREM NorCorrect == Spec => []NorFlashed
<1>1. CASE IsNAND
  <2>1. NorFlashed
    BY <1>1 DEF NorFlashed
  <2> QED
    BY <2>1, PTL
<1>2. CASE ~IsNAND
  <2>1. Spec => []CleanMarkersWritten
    BY <1>2, MarkersCorrect
  <2>2. SuccessMeansFlashed /\ CleanMarkersWritten => NorFlashed
    BY DEF NorFlashed
  <2> QED
    BY <2>1, <2>2, SuccessCorrect, PTL
<1> QED
  BY <1>1, <1>2
=============================================================================
