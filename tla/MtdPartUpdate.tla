--------------------------- MODULE MtdPartUpdate ---------------------------
(***************************************************************************)
(* The flash engine of update_flash.c: what one invocation does to one raw *)
(* MTD partition (MtdPartInit, MtdPartVerifyFile, MtdPartErase,            *)
(* MtdPartWrite, MtdPartVerify, MtdPartCheckCRC32), page by page, with bad *)
(* blocks, write retries, bad-block marking (-b), flash errors, a kill or  *)
(* power failure at any step, and further invocations after a failed one.  *)
(*                                                                         *)
(* Data: a file is a sequence of units of UnitBytes bytes; a page holds    *)
(* PageSize units, an erase block PagesPerBlock pages.  A CRC32 is         *)
(* modelled by the data it was computed from (collisions are ignored).     *)
(***************************************************************************)
EXTENDS Integers, Sequences, FiniteSets

CONSTANTS
    NBlocks,        \* erase blocks of the partition (xInfo.size / erasesize)
    PagesPerBlock,  \* 1 on NOR, where iPageSize is the erase size
    PageSize,       \* units per page
    NodeSize,       \* whole units in the 12 bytes of a struct jffs2_unknown_node
    IsNAND,         \* cIsNAND
    OobAtomic,      \* is_nand_oob_atomic()
    MaxRetries,     \* cMaxRetries
    Data,           \* the units of images that are not JFFS2 nodes
    Images,         \* the contents the image file can have
    Options,        \* the command lines considered
    InitialBad,     \* the possible sets of blocks bad at the start
    WornBlocks,     \* the possible sets of blocks that can no longer be programmed
    MaxRuns,        \* bound: invocations of the program
    MaxFaults,      \* bound: transient flash errors
    MaxCrashes,     \* bound: kills and power failures
    MaxReplace      \* bound: times the image file is replaced

FF   == "FF"        \* FLASH_ERASED_BYTE
PAD  == "PAD"       \* a JFFS2 padding node and the zeros after it
NODE == "NODE"      \* a unit that starts with the JFFS2 magic
CM   == "CM"        \* a JFFS2 clean marker node
ZERO == "ZERO"      \* zero bytes
OLD  == "OLD"       \* what the partition held before
BAD  == "BAD"       \* anything else: a half-programmed or decayed unit

Unit  == Data \cup {FF, PAD, NODE, CM, ZERO, OLD, BAD}
Page  == [1..PageSize -> Unit]
Pages == 0..(NBlocks * PagesPerBlock - 1)
Blocks == 0..(NBlocks - 1)

BoolOptions == {"cVerifyOnly", "cVerify", "cHasChecksum", "cDryRun",
                "cNoImageTypeCheck", "cEraseAll", "cWriteCleanMarker",
                "cMarkBadBlocks", "jffs2Name"}

ASSUME GeometryAssumption ==
    /\ NBlocks \in Nat \ {0}
    /\ PagesPerBlock \in Nat \ {0}
    /\ PageSize \in Nat \ {0}
    /\ NodeSize \in Nat
    /\ IsNAND \in BOOLEAN
    /\ ~IsNAND => PagesPerBlock = 1
    /\ OobAtomic \in BOOLEAN
    /\ MaxRetries \in Nat \ {0}

ASSUME InputAssumption ==
    /\ Images \subseteq Seq(Unit) /\ \A s \in Images : \A k \in 1..Len(s) : s[k] # BAD
    /\ Options \subseteq [BoolOptions -> BOOLEAN]
    /\ InitialBad \subseteq SUBSET Blocks
    /\ ~IsNAND => InitialBad \subseteq {{}}
    /\ WornBlocks \subseteq SUBSET Blocks
    /\ {MaxRuns, MaxFaults, MaxCrashes, MaxReplace} \subseteq Nat

VARIABLES
    flash,      \* the contents of every page
    oob,        \* what the out-of-band area of every block holds
    bad,        \* the blocks the MTD layer reports bad
    worn,       \* the blocks whose programming no longer sticks
    file,       \* the image file as it is now
    opt,        \* the command line
    expected,   \* the data the checksum on the command line belongs to
    pc,         \* where the program is
    iSize,      \* good size of the partition, as counted by MtdPartInit
    iFileSize,  \* st_size of the file, as seen by MtdPartUseFile
    uiCRC32, cChecksumSet, cChecksumCalculated,
    src,        \* the file the current loop has open
    start,      \* xErase.start, in blocks
    off,        \* iCurrentOffs / iOffsMtd, in pages
    total,      \* iBytesErasedTotal (erase) or iBytesReadTotal, in units
    i,          \* the retry counter of the current page
    verified,   \* what the last MtdPartVerify returned
    runs, faults, crashes, replaced,
    silent      \* this invocation has programmed a page wrongly, unnoticed

hw    == <<flash, oob, bad, worn>>
env   == <<file, opt, expected, worn>>
crcs  == <<uiCRC32, cChecksumSet, cChecksumCalculated>>
sizes == <<iSize, iFileSize>>
loop  == <<src, start, off, total, i>>
bounds == <<runs, faults, crashes, replaced, silent>>
vars  == <<hw, file, opt, expected, pc, sizes, crcs, loop, verified, bounds>>

Blk(p) == p \div PagesPerBlock
EraseSize == PagesPerBlock * PageSize
Least(a, b) == IF a < b THEN a ELSE b
ErasedPage == [k \in 1..PageSize |-> FF]

(***************************************************************************)
(* MtdPartIsBadBlock, asked afresh for every block or page.                *)
(***************************************************************************)
MtdPartIsBadBlock(b) == b \in bad

(***************************************************************************)
(* MtdPartInit / main: JFFS2 files are recognised by name unless -i is     *)
(* given; they and --clean-marker force a complete erase, and clean        *)
(* markers are never written on platforms with an atomic OOB.              *)
(***************************************************************************)
cIsJFFS2 == opt.jffs2Name /\ ~opt.cNoImageTypeCheck
cleanMarkerOption == opt.cWriteCleanMarker /\ ~OobAtomic
jffs2Update == ~opt.cVerifyOnly /\ cIsJFFS2
partEraseAll == opt.cEraseAll \/ cleanMarkerOption \/ jffs2Update
partWriteCleanMarker == cleanMarkerOption \/ (jffs2Update /\ ~OobAtomic)

(***************************************************************************)
(* MtdPartInitCleanMarker builds the node only for NOR; on NAND the marker *)
(* stays as CLEAR() left it.                                               *)
(***************************************************************************)
xCleanMarker == IF IsNAND THEN ZERO ELSE CM

(***************************************************************************)
(* Flash hardware (external).  Programming can only clear bits: a unit     *)
(* that is not erased keeps its value when the same or all-ones is         *)
(* written, and becomes a mixture otherwise.                               *)
(***************************************************************************)
ProgramUnit(old, new) ==
    CASE old = FF -> new
      [] new \in {FF, old} -> old
      [] OTHER -> BAD
ProgramPage(old, new) == [k \in 1..PageSize |-> ProgramUnit(old[k], new[k])]
EraseBlock(f, b) == [p \in Pages |-> IF Blk(p) = b THEN ErasedPage ELSE f[p]]
BrokenPage == [k \in 1..PageSize |-> BAD]

-----------------------------------------------------------------------------
(***************************************************************************)
(* The file position is the number of units consumed so far, so the next   *)
(* read() returns the next page-sized piece, shorter at the end of file.   *)
(***************************************************************************)
Chunk(s, n) == SubSeq(s, n + 1, Least(n + PageSize, Len(s)))

(***************************************************************************)
(* MtdPartWrite's buffer: a short last piece is filled with erased bytes,  *)
(* or for JFFS2, when a node header fits, with a padding node.             *)
(***************************************************************************)
Fill_zero(c) == [k \in 1..PageSize |-> IF k <= Len(c) THEN c[k] ELSE PAD]
Fill(c) ==
    LET filler == IF cIsJFFS2 /\ Len(c) + NodeSize < PageSize THEN PAD ELSE FF
    IN  [k \in 1..PageSize |-> IF k <= Len(c) THEN c[k] ELSE filler]

(***************************************************************************)
(* MtdPartVerifyJFFS2Block on every erase-block-sized piece of the file:   *)
(* NAND images have a node at every block start; NOR images a clean marker *)
(* there and at none of the offsets 16, 32, 64... bytes from there that    *)
(* leave the 4 bytes of a NODE_SIZE in the piece.                          *)
(***************************************************************************)
BlockStarts(s) == {j \in 1..Len(s) : (j - 1) % EraseSize = 0}
UnitBytes == 16 \div (NodeSize + 1)
OffsetsTested(s, j) ==
    LET iSize_ == Least(EraseSize, Len(s) - j + 1)
    IN  {o \in 1..(iSize_ - 1) : /\ o * UnitBytes + 4 < iSize_ * UnitBytes
                                 /\ \E n \in 0..o : o = (NodeSize + 1) * 2^n}
JFFS2BlocksOK(s) ==
    \A j \in BlockStarts(s) :
        IF IsNAND THEN s[j] \in {NODE, CM, PAD}
        ELSE s[j] = CM /\ \A o \in OffsetsTested(s, j) : s[j + o] # CM

-----------------------------------------------------------------------------
Init ==
    /\ bad \in InitialBad
    /\ worn \in WornBlocks
    /\ flash = [p \in Pages |-> [k \in 1..PageSize |-> OLD]]
    /\ oob = [b \in Blocks |-> OLD]
    /\ file \in Images
    /\ opt \in Options
    /\ expected \in IF opt.cHasChecksum THEN Images ELSE {<<>>}
    /\ pc = "start"
    /\ iSize = 0 /\ iFileSize = 0
    /\ uiCRC32 = <<>> /\ cChecksumSet = FALSE /\ cChecksumCalculated = FALSE
    /\ src = <<>> /\ start = 0 /\ off = 0 /\ total = 0 /\ i = 0
    /\ verified = FALSE
    /\ runs = 1 /\ faults = 0 /\ crashes = 0 /\ replaced = 0 /\ silent = FALSE

(***************************************************************************)
(* error(), systemError(), exit(EXIT_FAILURE).                             *)
(***************************************************************************)
Fail == pc' = "failed"

(***************************************************************************)
(* A loop starts: its file is opened and its offsets are zero.             *)
(***************************************************************************)
OpenLoop(next, f) ==
    /\ pc' = next
    /\ src' = f
    /\ start' = 0 /\ off' = 0 /\ total' = 0 /\ i' = 0

(***************************************************************************)
(* main / MtdPartInit / MtdPartUseFile: count the bad blocks, take the     *)
(* file's size, refuse a file that does not fit, note the checksum given.  *)
(***************************************************************************)
MtdPartInit ==
    /\ pc = "start"
    /\ iSize' = EraseSize * (NBlocks - Cardinality(bad))
    /\ iFileSize' = Len(file)
    /\ cChecksumSet' = opt.cHasChecksum
    /\ cChecksumCalculated' = FALSE
    /\ uiCRC32' = expected
    /\ verified' = FALSE
    /\ \/ /\ iFileSize' > iSize'
          /\ pc' = "refused"
          /\ UNCHANGED loop
       \/ /\ iFileSize' <= iSize'
          /\ OpenLoop(CASE opt.cVerifyOnly -> "verify"
                        [] ~opt.cVerifyOnly /\ (opt.cHasChecksum \/ ~opt.cNoImageTypeCheck) -> "verifyFile"
                        [] OTHER -> "erase", file)
    /\ UNCHANGED <<hw, file, opt, expected, bounds>>

(***************************************************************************)
(* MtdPartVerifyFile: the checksum given must be the file's; without one   *)
(* the file's own checksum is noted.                                       *)
(***************************************************************************)
MtdPartVerifyFile ==
    /\ pc = "verifyFile"
    /\ \/ /\ cIsJFFS2 => JFFS2BlocksOK(file)
          /\ ~cChecksumSet
          /\ uiCRC32' = file /\ cChecksumSet' = TRUE /\ cChecksumCalculated' = TRUE
          /\ OpenLoop("erase", file)
       \/ /\ cIsJFFS2 => JFFS2BlocksOK(file)
          /\ cChecksumSet /\ uiCRC32 = file
          /\ OpenLoop("erase", file)
          /\ UNCHANGED crcs
       \/ /\ \/ cIsJFFS2 /\ ~JFFS2BlocksOK(file)
             \/ cChecksumSet /\ uiCRC32 # file
          /\ Fail
          /\ UNCHANGED <<crcs, loop>>
    /\ UNCHANGED <<hw, file, opt, expected, sizes, verified, bounds>>

-----------------------------------------------------------------------------
EraseLimit_down == IF partEraseAll THEN iSize ELSE (iFileSize \div EraseSize) * EraseSize
EraseLimit_all == iSize
EraseLimit == IF partEraseAll THEN iSize ELSE iFileSize

(***************************************************************************)
(* One turn of MtdPartErase's loop.  The clean marker goes to the OOB area *)
(* on NAND and over the first unit of the block on NOR.  Past the last     *)
(* block MEMGETBADBLOCK fails.                                             *)
(***************************************************************************)
EraseMarked_never(f, b) == f
EraseMarked(f, b) ==
    IF partWriteCleanMarker /\ ~IsNAND
    THEN [f EXCEPT ![b][1] = ProgramUnit(@, xCleanMarker)]
    ELSE f

EraseGoodBlock ==
    /\ total' = total + EraseSize
    /\ start' = start + 1
    /\ IF opt.cDryRun
       THEN UNCHANGED <<flash, oob>>
       ELSE /\ flash' = EraseMarked(EraseBlock(flash, start), start)
            /\ oob' = [oob EXCEPT ![start] =
                          IF partWriteCleanMarker /\ IsNAND THEN xCleanMarker ELSE FF]
    /\ UNCHANGED <<pc, src, off, i>>

EraseSkipBad_counted ==
    /\ start' = start + 1
    /\ total' = total + EraseSize
    /\ UNCHANGED <<flash, oob, pc, src, off, i>>
EraseSkipBad ==
    /\ start' = start + 1
    /\ UNCHANGED <<flash, oob, pc, src, off, total, i>>

MtdPartErase ==
    /\ pc = "erase"
    /\ \/ /\ total < EraseLimit /\ start < NBlocks
          /\ ~MtdPartIsBadBlock(start)
          /\ EraseGoodBlock
       \/ /\ total < EraseLimit /\ start < NBlocks
          /\ MtdPartIsBadBlock(start)
          /\ EraseSkipBad
       \/ /\ total < EraseLimit /\ start >= NBlocks
          /\ Fail
          /\ UNCHANGED <<flash, oob, loop>>
       \/ /\ total >= EraseLimit
          /\ OpenLoop("write", file)
          /\ UNCHANGED <<flash, oob>>
    /\ UNCHANGED <<bad, worn, file, opt, expected, sizes, crcs, verified, bounds>>

(***************************************************************************)
(* MEMERASE (or the marker write after it) reports an error: the block is  *)
(* left in an unknown state and the program gives up.                      *)
(***************************************************************************)
MtdPartEraseError ==
    /\ pc = "erase" /\ total < EraseLimit /\ start < NBlocks
    /\ ~MtdPartIsBadBlock(start) /\ ~opt.cDryRun
    /\ faults < MaxFaults /\ faults' = faults + 1
    /\ flash' = [p \in Pages |-> IF Blk(p) = start THEN BrokenPage ELSE flash[p]]
    /\ oob' = [oob EXCEPT ![start] = BAD]
    /\ Fail
    /\ UNCHANGED <<bad, worn, file, opt, expected, sizes, crcs, loop, verified,
                   runs, crashes, replaced, silent>>

-----------------------------------------------------------------------------
LastPage == NBlocks * PagesPerBlock

NextPage(n) ==
    /\ off' = off + 1
    /\ total' = total + n
    /\ i' = 0
    /\ UNCHANGED <<src, start>>

(***************************************************************************)
(* MtdPartWrite, after its loop: the sizes must agree; the checksum of     *)
(* what was read is noted unless one was calculated before.                *)
(***************************************************************************)
AfterWrite ==
    CASE opt.cVerify -> "verify"
      [] ~opt.cVerify /\ opt.cHasChecksum -> "checkCRC"
      [] OTHER -> "done"

MtdPartWriteEnd ==
    /\ pc = "write"
    /\ off >= LastPage \/ (~MtdPartIsBadBlock(Blk(off)) /\ total >= Len(src))
    /\ \/ /\ iFileSize # total
          /\ Fail
          /\ UNCHANGED <<crcs, loop>>
       \/ /\ iFileSize = total
          /\ IF cChecksumCalculated
             THEN UNCHANGED crcs
             ELSE /\ uiCRC32' = SubSeq(src, 1, total)
                  /\ cChecksumSet' = TRUE
                  /\ cChecksumCalculated' = TRUE
          /\ OpenLoop(AfterWrite, file)
    /\ UNCHANGED <<hw, file, opt, expected, sizes, verified, bounds>>

WriteSkipBad ==
    /\ pc = "write" /\ off < LastPage
    /\ MtdPartIsBadBlock(Blk(off))
    /\ NextPage(0)
    /\ UNCHANGED <<hw, file, opt, expected, pc, sizes, crcs, verified, bounds>>

CanWrite ==
    /\ pc = "write" /\ off < LastPage
    /\ ~MtdPartIsBadBlock(Blk(off))
    /\ total < Len(src)

(***************************************************************************)
(* One attempt to program the current page ends well, and with -b the page *)
(* reads back as written; or it is a dry run.                              *)
(***************************************************************************)
WritePage ==
    /\ CanWrite
    /\ LET buf  == Fill(Chunk(src, total))
           page == ProgramPage(flash[off], buf)
       IN  IF opt.cDryRun
           THEN flash' = flash
           ELSE /\ Blk(off) \notin worn
                /\ opt.cMarkBadBlocks => page = buf
                /\ flash' = [flash EXCEPT ![off] = page]
    /\ NextPage(Len(Chunk(src, total)))
    /\ UNCHANGED <<oob, bad, worn, file, opt, expected, pc, sizes, crcs,
                   verified, bounds>>

(***************************************************************************)
(* The page is programmed wrongly and nobody notices (no -b).              *)
(***************************************************************************)
WritePageSilent ==
    /\ CanWrite
    /\ ~opt.cDryRun /\ ~opt.cMarkBadBlocks
    /\ \/ Blk(off) \in worn /\ UNCHANGED faults
       \/ Blk(off) \notin worn /\ faults < MaxFaults /\ faults' = faults + 1
    /\ flash' = [flash EXCEPT ![off] = BrokenPage]
    /\ silent' = TRUE
    /\ NextPage(Len(Chunk(src, total)))
    /\ UNCHANGED <<oob, bad, worn, file, opt, expected, pc, sizes, crcs,
                   verified, runs, crashes, replaced>>

(***************************************************************************)
(* An attempt fails: pwrite reports it, or with -b the read-back fails or  *)
(* differs.  Without -b the program gives up; with it the page is tried    *)
(* cMaxRetries times, then the block is marked bad (which may itself fail, *)
(* and always does on NOR) and the program gives up.                       *)
(***************************************************************************)
FailedAttempt ==
    /\ \/ Blk(off) \in worn /\ UNCHANGED faults
          /\ flash' = [flash EXCEPT ![off] = BrokenPage]
       \/ Blk(off) \notin worn /\ faults < MaxFaults /\ faults' = faults + 1
          /\ \E p \in {flash[off], BrokenPage,
                       ProgramPage(flash[off], Fill(Chunk(src, total)))} :
                flash' = [flash EXCEPT ![off] = p]
       \/ /\ Blk(off) \notin worn /\ UNCHANGED faults /\ opt.cMarkBadBlocks
          /\ ProgramPage(flash[off], Fill(Chunk(src, total))) # Fill(Chunk(src, total))
          /\ flash' = [flash EXCEPT ![off] =
                          ProgramPage(flash[off], Fill(Chunk(src, total)))]

MtdMarkBadBlock_not(b) == UNCHANGED bad
MtdMarkBadBlock(b) ==
    \/ IsNAND /\ bad' = bad \cup {b}
    \/ (~IsNAND \/ MaxFaults > 0) /\ UNCHANGED bad

TryAgain_once_more == i < MaxRetries
TryAgain == i + 1 < MaxRetries

WritePageError ==
    /\ CanWrite
    /\ ~opt.cDryRun
    /\ FailedAttempt
    /\ \/ /\ ~opt.cMarkBadBlocks
          /\ Fail
          /\ UNCHANGED <<bad, loop>>
       \/ /\ opt.cMarkBadBlocks /\ TryAgain
          /\ i' = i + 1
          /\ UNCHANGED <<bad, pc, src, start, off, total>>
       \/ /\ opt.cMarkBadBlocks /\ ~TryAgain
          /\ MtdMarkBadBlock(Blk(off))
          /\ Fail
          /\ UNCHANGED loop
    /\ UNCHANGED <<oob, worn, file, opt, expected, sizes, crcs, verified,
                   runs, crashes, replaced, silent>>

-----------------------------------------------------------------------------
(***************************************************************************)
(* MtdPartVerify compares a page with a piece of szOrigImageFileName; what *)
(* follows a short last piece must be erased, except for JFFS2.            *)
(***************************************************************************)
PageMatches(page, c) ==
    /\ \A k \in 1..Len(c) : page[k] = c[k]
    /\ ~cIsJFFS2 => \A k \in (Len(c) + 1)..PageSize : page[k] = FF

VerifyResult(res) ==
    /\ verified' = res
    /\ pc' = IF res \/ opt.cVerifyOnly THEN "done" ELSE "failed"
    /\ UNCHANGED loop

VerifyPage ==
    /\ pc = "verify" /\ off < LastPage
    /\ \/ /\ MtdPartIsBadBlock(Blk(off))
          /\ NextPage(0)
          /\ UNCHANGED <<pc, verified>>
       \/ /\ ~MtdPartIsBadBlock(Blk(off)) /\ total < Len(src)
          /\ PageMatches(flash[off], Chunk(src, total))
          /\ NextPage(Len(Chunk(src, total)))
          /\ UNCHANGED <<pc, verified>>
       \/ /\ ~MtdPartIsBadBlock(Blk(off)) /\ total < Len(src)
          /\ ~PageMatches(flash[off], Chunk(src, total))
          /\ VerifyResult(FALSE)
    /\ UNCHANGED <<hw, file, opt, expected, sizes, crcs, bounds>>

VerifyEnd_any_size ==
    /\ pc = "verify"
    /\ off >= LastPage \/ (~MtdPartIsBadBlock(Blk(off)) /\ total >= Len(src))
    /\ VerifyResult(TRUE)
    /\ UNCHANGED <<hw, file, opt, expected, sizes, crcs, bounds>>
VerifyEnd ==
    /\ pc = "verify"
    /\ off >= LastPage \/ (~MtdPartIsBadBlock(Blk(off)) /\ total >= Len(src))
    /\ VerifyResult(iFileSize = total)
    /\ UNCHANGED <<hw, file, opt, expected, sizes, crcs, bounds>>

(***************************************************************************)
(* The page cannot be read: with -b it is tried cMaxRetries times and the  *)
(* block is then marked bad, without it the program gives up at once.      *)
(***************************************************************************)
VerifyReadError ==
    /\ pc = "verify" /\ off < LastPage
    /\ ~MtdPartIsBadBlock(Blk(off)) /\ total < Len(src)
    /\ faults < MaxFaults /\ faults' = faults + 1
    /\ LET retry == ~opt.cDryRun /\ opt.cMarkBadBlocks
       IN \/ /\ ~retry
             /\ Fail
             /\ UNCHANGED <<bad, loop>>
          \/ /\ retry /\ TryAgain
             /\ i' = i + 1
             /\ UNCHANGED <<bad, pc, src, start, off, total>>
          \/ /\ retry /\ ~TryAgain
             /\ MtdMarkBadBlock(Blk(off))
             /\ Fail
             /\ UNCHANGED loop
    /\ UNCHANGED <<flash, oob, worn, file, opt, expected, sizes, crcs,
                   verified, runs, crashes, replaced, silent>>

-----------------------------------------------------------------------------
(***************************************************************************)
(* The good pages before page p; Rank(p) is the place of a good page p in  *)
(* the order in which every loop of the program, and the boot loader,      *)
(* walks the partition.                                                    *)
(***************************************************************************)
GoodBefore(p) == {q \in 0..(p - 1) : Blk(q) \notin bad}
Rank(p) == Cardinality(GoodBefore(p))
GoodPages == {p \in Pages : Blk(p) \notin bad}

(***************************************************************************)
(* MtdPartCheckCRC32 reads the first iFileSize units of the good pages.    *)
(***************************************************************************)
FlashMatches(s) ==
    \A p \in GoodPages : \A k \in 1..PageSize :
        PageSize * Rank(p) + k <= iFileSize =>
            /\ PageSize * Rank(p) + k <= Len(s)
            /\ flash[p][k] = s[PageSize * Rank(p) + k]

MtdPartCheckCRC32 ==
    /\ pc = "checkCRC"
    /\ \/ Len(uiCRC32) = iFileSize /\ FlashMatches(uiCRC32) /\ pc' = "done"
          /\ UNCHANGED faults
       \/ ~(Len(uiCRC32) = iFileSize /\ FlashMatches(uiCRC32)) /\ Fail
          /\ UNCHANGED faults
       \/ faults < MaxFaults /\ faults' = faults + 1 /\ Fail
    /\ UNCHANGED <<hw, file, opt, expected, sizes, crcs, loop, verified,
                   runs, crashes, replaced, silent>>

-----------------------------------------------------------------------------
Running == pc \in {"start", "verifyFile", "erase", "write", "verify", "checkCRC"}

(***************************************************************************)
(* The process is killed or the power fails, between two operations on the *)
(* flash or in the middle of one: the block being erased or the page being *)
(* programmed is then left torn.                                           *)
(***************************************************************************)
TornErase ==
    /\ pc = "erase" /\ total < EraseLimit /\ start < NBlocks
    /\ ~MtdPartIsBadBlock(start) /\ ~opt.cDryRun
    /\ flash' = [p \in Pages |-> IF Blk(p) = start THEN BrokenPage ELSE flash[p]]
    /\ oob' = [oob EXCEPT ![start] = BAD]
TornWrite ==
    /\ CanWrite /\ ~opt.cDryRun
    /\ flash' = [flash EXCEPT ![off] = BrokenPage]
    /\ UNCHANGED oob

Crash ==
    /\ Running /\ crashes < MaxCrashes
    /\ crashes' = crashes + 1
    /\ pc' = "crashed"
    /\ TornErase \/ TornWrite \/ UNCHANGED <<flash, oob>>
    /\ UNCHANGED <<bad, worn, file, opt, expected, sizes, crcs, loop, verified,
                   runs, faults, replaced, silent>>

(***************************************************************************)
(* The same command is given again after a failure.                        *)
(***************************************************************************)
Rerun ==
    /\ pc \in {"failed", "crashed"} /\ runs < MaxRuns
    /\ runs' = runs + 1
    /\ pc' = "start"
    /\ silent' = FALSE
    /\ UNCHANGED <<hw, file, opt, expected, sizes, crcs, loop, verified,
                   faults, crashes, replaced>>

(***************************************************************************)
(* Somebody replaces the image file (a loop that has it open goes on       *)
(* reading the old one).                                                   *)
(***************************************************************************)
ReplaceFile ==
    /\ Running /\ replaced < MaxReplace
    /\ replaced' = replaced + 1
    /\ file' \in Images \ {file}
    /\ UNCHANGED <<hw, opt, expected, pc, sizes, crcs, loop, verified,
                   runs, faults, crashes, silent>>

Terminated == ~Running /\ (runs >= MaxRuns \/ pc \in {"done", "refused"}) /\ UNCHANGED vars

Step ==
    \/ MtdPartInit \/ MtdPartVerifyFile
    \/ MtdPartErase \/ MtdPartEraseError
    \/ WriteSkipBad \/ WritePage \/ WritePageSilent \/ WritePageError \/ MtdPartWriteEnd
    \/ VerifyPage \/ VerifyReadError \/ VerifyEnd
    \/ MtdPartCheckCRC32

Next == Step \/ Crash \/ Rerun \/ ReplaceFile \/ Terminated

(***************************************************************************)
(* A running process goes on; whoever started the update repeats it.       *)
(***************************************************************************)
Spec == Init /\ [][Next]_vars /\ WF_vars(Step) /\ WF_vars(Rerun)

-----------------------------------------------------------------------------
PcSet == {"start", "verifyFile", "erase", "write", "verify", "checkCRC",
          "done", "failed", "refused", "crashed"}

(***************************************************************************)
(* The type invariant: in particular offsets stay within the partition and *)
(* the open file, and the retry counter below its limit.                   *)
(***************************************************************************)
HardwareType ==
    /\ flash \in [Pages -> Page]
    /\ oob \in [Blocks -> Unit]
    /\ bad \subseteq Blocks /\ worn \subseteq Blocks
FileType ==
    /\ file \in Seq(Unit) /\ src \in Seq(Unit)
    /\ uiCRC32 \in Seq(Unit) /\ expected \in Seq(Unit)
FlagType ==
    /\ opt \in [BoolOptions -> BOOLEAN]
    /\ pc \in PcSet
    /\ cChecksumSet \in BOOLEAN /\ cChecksumCalculated \in BOOLEAN
    /\ verified \in BOOLEAN /\ silent \in BOOLEAN
CounterType ==
    /\ iSize \in Nat /\ iFileSize \in Nat
    /\ start \in 0..NBlocks /\ off \in 0..LastPage
    /\ total \in Nat /\ (pc \in {"write", "verify"} => total <= Len(src))
    /\ i \in 0..(MaxRetries - 1)
    /\ runs \in Nat /\ faults \in Nat /\ crashes \in Nat /\ replaced \in Nat
TypeOK == HardwareType /\ FileType /\ FlagType /\ CounterType

(***************************************************************************)
(* The good pages, in order, hold the first n units of s, and what follows *)
(* the last of them in its page is padding.                                *)
(***************************************************************************)
FlashHolds(s, n) ==
    /\ n <= Len(s)
    /\ n <= PageSize * Rank(LastPage)
    /\ \A p \in GoodPages :
          PageSize * Rank(p) < n =>
              PageMatches(flash[p], Chunk(s, PageSize * Rank(p)))

(***************************************************************************)
(* When MtdPartVerify returned 1 (-v or -V), the flash holds the file it   *)
(* compared with, whatever errors, kills, silent corruption, replaced      *)
(* files or marked blocks came before.                                     *)
(***************************************************************************)
VerifiedMeansFlashed ==
    pc = "done" /\ verified => FlashHolds(src, iFileSize)

(***************************************************************************)
(* What follows the end of s in its last page: a JFFS2 padding node where  *)
(* one fits, erased bytes otherwise.  MtdPartVerify does not look at the   *)
(* node ("JFFS2 is padded. This is not yet checked").                      *)
(***************************************************************************)
Padded(s) ==
    \A p \in GoodPages :
        LET n == PageSize * Rank(p)
            filler == IF cIsJFFS2 /\ Len(Chunk(s, n)) + NodeSize < PageSize THEN PAD ELSE FF
        IN  n < Len(s) => \A k \in (Len(Chunk(s, n)) + 1)..PageSize : flash[p][k] = filler

(***************************************************************************)
(* An update that ends with EXIT_SUCCESS has put the file on the flash,    *)
(* when the file was left alone and any unnoticed damage had a check to    *)
(* catch it; without such damage its last page is padded too.  It rests on *)
(* MtdPartErase having erased every page that MtdPartWrite visits, in this *)
(* invocation, around the same bad blocks.                                 *)
(***************************************************************************)
MarkerOverData == partWriteCleanMarker /\ ~IsNAND /\ ~cIsJFFS2
Damaged == silent \/ (MarkerOverData /\ ~opt.cMarkBadBlocks)

SuccessMeansFlashed ==
    (/\ pc = "done" /\ ~opt.cVerifyOnly /\ ~opt.cDryRun
     /\ replaced = 0
     /\ Damaged => opt.cVerify \/ opt.cHasChecksum)
    => FlashHolds(file, Len(file)) /\ (~Damaged => Padded(file))

(***************************************************************************)
(* Outside the erase loop only an erased page is programmed, or one being  *)
(* retried, or (on NOR) one that carries a clean marker: the erase loop    *)
(* counts blocks and the write loop counts pages, and they must agree.     *)
(***************************************************************************)
Programmable(p) ==
    \/ flash[p] = ErasedPage
    \/ p = off /\ i > 0
    \/ ~IsNAND /\ partWriteCleanMarker

ErasedBeforeProgrammed ==
    [][replaced = 0 /\ pc # "erase" =>
         \A p \in Pages : flash'[p] # flash[p] => Programmable(p)]_vars

(***************************************************************************)
(* Without -f, --clean-marker or JFFS2 the blocks the image does not need  *)
(* are left alone: the help text of -f says it erases "the partition, not  *)
(* only the parts being written".                                          *)
(***************************************************************************)
BlockRank(b) == Cardinality(0..(b - 1) \ bad)

OnlyNeededBlocksChange ==
    [][replaced = 0 /\ ~partEraseAll =>
         \A p \in Pages : flash'[p] # flash[p] =>
             Blk(p) \notin bad /\ EraseSize * BlockRank(Blk(p)) < iFileSize]_vars

(***************************************************************************)
(* With -b a partition whose blocks wear out is not a dead end: repeating  *)
(* the command retires one block after the other until the image is on the *)
(* flash or no longer fits.                                                *)
(***************************************************************************)
RepeatingRetiresWornBlocks ==
    (opt.cMarkBadBlocks /\ ~opt.cVerifyOnly) => <>(pc \in {"done", "refused"})

(***************************************************************************)
(* "flashes only when checksum matches" (help text of -c): what a          *)
(* successful update with -c has put on the flash has the checksum given.  *)
(***************************************************************************)
ChecksumHonoured ==
    pc = "done" /\ opt.cHasChecksum /\ ~opt.cVerifyOnly /\ ~opt.cDryRun
    => iFileSize = Len(expected) /\ FlashMatches(expected)

(***************************************************************************)
(* "writes clean markers to every partition" (help text of --clean-marker),*)
(* "and clean markers written" (JFFS2): every good block has one.  On NOR  *)
(* the image goes over them.  With a JFFS2 image every block has one       *)
(* nevertheless, with or without the option.  With any other image a block *)
(* has one when the image does not reach it, or begins it with a marker.   *)
(* (A block whose start the image has other data for is spoiled instead:   *)
(* MarkersDoNotSpoilImage.)  A block stored silently wrong is left out.    *)
(***************************************************************************)
NeedsMarker(b) ==
    LET first == EraseSize * BlockRank(b) + 1
    IN  \/ first > iFileSize
        \/ ~silent /\ (cIsJFFS2 \/ file[first] = CM)

CleanMarkersWritten ==
    pc = "done" /\ partWriteCleanMarker /\ ~opt.cVerifyOnly /\ ~opt.cDryRun /\ replaced = 0
    => \A b \in Blocks \ bad :
          IF IsNAND THEN silent \/ oob[b] = CM
          ELSE NeedsMarker(b) => flash[b][1] = CM

(* What success means on NOR: the contents, the padding of the last block  *)
(* and the clean markers, with a JFFS2 image and with any other.           *)
NorFlashed == ~IsNAND => SuccessMeansFlashed /\ CleanMarkersWritten

(***************************************************************************)
(* Writing clean markers does not spoil the image ("the NOR image already  *)
(* contains them").                                                        *)
(***************************************************************************)
MarkersDoNotSpoilImage ==
    pc = "done" /\ partWriteCleanMarker /\ ~opt.cVerifyOnly /\ ~opt.cDryRun
       /\ replaced = 0 /\ ~silent
    => FlashHolds(file, Len(file))

(***************************************************************************)
(* "verifies current contents, no updates are done" (help text of -V).     *)
(***************************************************************************)
VerifyOnlyChangesNothing ==
    [][opt.cVerifyOnly => UNCHANGED <<flash, oob, bad>>]_vars
=============================================================================
