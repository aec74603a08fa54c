---------------------------- MODULE MCPartitions ----------------------------
(***************************************************************************)
(* Two more partitions for MtdPartUpdate, beside the NAND partition of     *)
(* MCMtdPartUpdate: a NOR flash, whose page is the erase block and which   *)
(* takes clean markers, is the one of the module's own variables; a NAND   *)
(* of which any blocks are worn out has a second set of them.  One of the  *)
(* two is updated, and the other's variables are off.                      *)
(***************************************************************************)
EXTENDS MtdPartUpdate

VARIABLES
    partition,      \* "nor" or "worn"
    w_flash, w_oob, w_bad, w_worn, w_file, w_opt, w_expected, w_pc, w_iSize, w_iFileSize,
    w_uiCRC32, w_cChecksumSet, w_cChecksumCalculated, w_src, w_start, w_off, w_total, w_i,
    w_verified, w_runs, w_faults, w_crashes, w_replaced, w_silent

w_vars ==
    <<w_flash, w_oob, w_bad, w_worn, w_file, w_opt, w_expected, w_pc, w_iSize, w_iFileSize,
      w_uiCRC32, w_cChecksumSet, w_cChecksumCalculated, w_src, w_start, w_off, w_total, w_i,
      w_verified, w_runs, w_faults, w_crashes, w_replaced, w_silent>>

With(S) == [o \in BoolOptions |-> o \in S]

\* JFFS2 images, some padded to the end of their last block, one with a marker at
\* an offset that is tested and one at an offset that is not; and another image
NorImages == {<<CM, "a">>, <<CM, "a", "b", CM>>, <<CM, CM, "b", CM, "a">>,
              <<CM, "a", CM, CM>>, <<"a", "b", "b", "a">>}
NorOptions ==
    {With(S) : S \in {{"jffs2Name"}, {"jffs2Name", "cVerify"}, {"cVerify"},
                      {"cWriteCleanMarker", "cVerify"}, {"cMarkBadBlocks"},
                      {"cWriteCleanMarker", "cMarkBadBlocks"},
                      {"cWriteCleanMarker", "cHasChecksum"}, {}}}
NoneBad == {{}}

\* one block more bad than can be spared, and runs enough to find out
Worn == INSTANCE MtdPartUpdate WITH
    NBlocks <- 3, PagesPerBlock <- 2, PageSize <- 2, NodeSize <- 0,
    IsNAND <- TRUE, OobAtomic <- FALSE, MaxRetries <- 3, Data <- {"a", "b"},
    Images <- {<<NODE, "a">>, <<NODE, "a", "b">>},
    Options <- {With(S) : S \in {{"cMarkBadBlocks"}, {"cMarkBadBlocks", "cVerify"},
                                 {"cMarkBadBlocks", "jffs2Name"}}},
    InitialBad <- {{}} \cup {{b} : b \in 0 .. 2}, WornBlocks <- SUBSET (0 .. 2),
    MaxRuns <- 5, MaxFaults <- 0, MaxCrashes <- 1, MaxReplace <- 0,
    flash <- w_flash, oob <- w_oob, bad <- w_bad, worn <- w_worn, file <- w_file,
    opt <- w_opt, expected <- w_expected, pc <- w_pc, iSize <- w_iSize,
    iFileSize <- w_iFileSize, uiCRC32 <- w_uiCRC32, cChecksumSet <- w_cChecksumSet,
    cChecksumCalculated <- w_cChecksumCalculated, src <- w_src, start <- w_start,
    off <- w_off, total <- w_total, i <- w_i, verified <- w_verified, runs <- w_runs,
    faults <- w_faults, crashes <- w_crashes, replaced <- w_replaced, silent <- w_silent

Off == "off"
nor_off ==
    /\ flash = Off /\ oob = Off /\ bad = Off /\ worn = Off /\ file = Off /\ opt = Off
    /\ expected = Off /\ pc = Off /\ iSize = Off /\ iFileSize = Off /\ uiCRC32 = Off
    /\ cChecksumSet = Off /\ cChecksumCalculated = Off /\ src = Off /\ start = Off
    /\ off = Off /\ total = Off /\ i = Off /\ verified = Off /\ runs = Off
    /\ faults = Off /\ crashes = Off /\ replaced = Off /\ silent = Off
worn_off ==
    /\ w_flash = Off /\ w_oob = Off /\ w_bad = Off /\ w_worn = Off /\ w_file = Off
    /\ w_opt = With({}) /\ w_expected = Off /\ w_pc = Off /\ w_iSize = Off
    /\ w_iFileSize = Off /\ w_uiCRC32 = Off /\ w_cChecksumSet = Off
    /\ w_cChecksumCalculated = Off /\ w_src = Off /\ w_start = Off /\ w_off = Off
    /\ w_total = Off /\ w_i = Off /\ w_verified = Off /\ w_runs = Off
    /\ w_faults = Off /\ w_crashes = Off /\ w_replaced = Off /\ w_silent = Off

EitherInit == \/ partition = "nor" /\ Init /\ worn_off
              \/ partition = "worn" /\ Worn!Init /\ nor_off
EitherNext == \/ partition = "nor" /\ Next /\ UNCHANGED <<partition, w_vars>>
              \/ partition = "worn" /\ Worn!Next /\ UNCHANGED <<partition, vars>>
either_vars == <<partition, vars, w_vars>>

(* As in MtdPartUpdate: a running process goes on, and whoever started the *)
(* update repeats it.                                                      *)
EitherSpec ==
    /\ EitherInit /\ [][EitherNext]_either_vars
    /\ WF_either_vars(partition = "worn" /\ Worn!Step /\ UNCHANGED <<partition, vars>>)
    /\ WF_either_vars(partition = "worn" /\ Worn!Rerun /\ UNCHANGED <<partition, vars>>)

-----------------------------------------------------------------------------
(* With -b a partition whose blocks wear out is not a dead end: repeating  *)
(* the command retires one block after the other until the image is on the *)
(* flash or no longer fits.                                                *)
WornIsRetired == partition = "worn" => Worn!RepeatingRetiresWornBlocks
=============================================================================
