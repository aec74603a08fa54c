---------------------------- MODULE UpdateFlash ----------------------------
(***************************************************************************)
(* A whole run of update_flash (main, DoMtdUpdate, DoMtdVerify,            *)
(* DoPrintChecksums): several files for several partitions, optionally     *)
(* through copies in a temporary directory; the checks made before the     *)
(* flash is touched; the remounting of file systems; the external tools    *)
(* that write UBI and bootstream partitions; errors, kills and repeated    *)
(* invocations.  How one raw partition is written is MtdPartUpdate's       *)
(* subject: here erasing and writing it are one step each.                 *)
(***************************************************************************)
EXTENDS Integers, Sequences, FiniteSets

CONSTANTS
    Partitions,     \* the MTD partitions
    Files,          \* paths of image files
    BaseName,       \* Files -> their last path component
    FileType,       \* Files -> the type their name stands for
    PartType,       \* Partitions -> the type their name in /proc/mtd stands for
    Capacity,       \* the good size of a partition
    Units,          \* what image files consist of
    Contents,       \* what image files may hold: sequences of units
    CommandLines,   \* [opt, args] records
    InitialMounts,  \* possible initial mount tables: Partitions -> how mounted
    RootPart,       \* the partition whose block device root= names, or NoPart
    RootArgLast,    \* whether root= ends the kernel command line
    WritersKilled,  \* whether ubiformat may be killed by a signal
    MaxRuns,        \* bound: invocations
    MaxFaults,      \* bound: errors of external calls
    MaxCrashes,     \* bound: kills and power failures
    MaxReplace      \* bound: image files replaced meanwhile

\* Like image files these are sequences of units, of units no file has.
NoFile == <<"no file">>
Old    == <<"old">>     \* what a partition holds at the start
Torn   == <<"torn">>    \* erased, half-written or inconsistent
NoPart == "NoPart"

NamesOf == {BaseName[f] : f \in Files}
OptNames == {"tmpdir", "checksumOnly", "verifyOnly", "verify", "checksum",
             "dryRun", "noTypeCheck"}
\* how a partition is mounted, and by which name /proc/mounts lists it:
\* its block device, /dev/root, or the name of a UBI volume
MountStates == [by : {"mtdblock", "root", "ubi"}, how : {"none", "rw", "ro"}]
Types == {"FTUBoot", "FTKernel", "FTFPGA", "FTNVRAM", "FTJFFS2", "FTSQUASHFS",
          "FTUBI", "FTBootstream", "FTUnknown"}

ASSUME ConstantsAssumption ==
    /\ BaseName \in [Files -> NamesOf] /\ FileType \in [Files -> Types]
    /\ Capacity \in Nat
    /\ Contents \subseteq Seq(Units) /\ Units \cap {"no file", "old", "torn"} = {}
    /\ \A c \in CommandLines :
         /\ c.opt \in [OptNames -> BOOLEAN]
         /\ Len(c.args) \in Nat \ {0}
         /\ \A k \in 1..Len(c.args) :
              /\ c.args[k].file \in Files /\ c.args[k].part \in Partitions
              /\ c.args[k].crc \in Seq(Units)
    /\ InitialMounts \subseteq [Partitions -> MountStates]
    /\ RootArgLast \in BOOLEAN /\ WritersKilled \in BOOLEAN
    /\ {MaxRuns, MaxFaults, MaxCrashes, MaxReplace} \subseteq Nat

VARIABLES
    files,      \* the image files
    tmp,        \* the temporary directory
    flash,      \* the contents of every partition
    mount,      \* the mount table
    cmd,        \* the command line of this invocation
    pc, e,      \* where the program is, and the entry it works on
    mtd,        \* axMtdParts: one record per entry
    died,       \* history: a writer of this invocation was killed by a signal
    runs, faults, crashes, replaced

vars == <<files, tmp, flash, mount, cmd, pc, e, mtd, died, runs, faults, crashes, replaced>>
bounds == <<died, runs, faults, crashes, replaced>>

opt  == cmd.opt
args == cmd.args
Entries == 1..Len(args)
target == args[e].part
source == args[e].file

(***************************************************************************)
(* The fields of mtdPartition_t that later steps read.  A CRC32 is         *)
(* modelled by the data it belongs to.                                     *)
(***************************************************************************)
EmptyEntry == [inTmp |-> FALSE, size |-> 0, type |-> "FTUnknown",
               crc |-> <<>>, crcSet |-> FALSE, crcCalculated |-> FALSE]

(* szImageFileName: the copy in the temporary directory once there is one. *)
ImageData(k) ==
    IF mtd[k].inTmp THEN tmp[BaseName[args[k].file]] ELSE files[args[k].file]

(* A file written without O_TRUNC keeps the old bytes after the new ones.  *)
Overlay(new, old) ==
    IF old = NoFile \/ Len(old) <= Len(new) THEN new
    ELSE new \o SubSeq(old, Len(new) + 1, Len(old))

-----------------------------------------------------------------------------
Init ==
    /\ files \in [Files -> Contents]
    /\ tmp = [n \in NamesOf |-> NoFile]
    /\ flash = [p \in Partitions |-> Old]
    /\ mount \in InitialMounts
    /\ cmd \in CommandLines
    /\ pc = "init" /\ e = 1
    /\ mtd = [k \in 1..Len(cmd.args) |-> EmptyEntry]
    /\ died = FALSE
    /\ runs = 1 /\ faults = 0 /\ crashes = 0 /\ replaced = 0

Fail ==
    /\ pc' = "failed"
    /\ UNCHANGED e

(* The current loop goes on with the next entry, or the next loop starts.  *)
NextEntry(next) ==
    IF e < Len(args) THEN e' = e + 1 /\ UNCHANGED pc
                     ELSE e' = 1 /\ pc' = next

Fault ==
    /\ faults < MaxFaults /\ faults' = faults + 1
    /\ UNCHANGED <<died, runs, crashes, replaced>>

(***************************************************************************)
(* main: what is done once the command line has been read.                 *)
(***************************************************************************)
FirstLoop_no_crc ==    \* mutant: -i also leaves out the checksums
    CASE opt.checksumOnly -> "print"
      [] ~opt.checksumOnly /\ opt.verifyOnly -> "verifyOnly"
      [] ~opt.checksumOnly /\ ~opt.verifyOnly /\ opt.tmpdir -> "copy"
      [] ~opt.checksumOnly /\ ~opt.verifyOnly /\ ~opt.tmpdir /\ ~opt.noTypeCheck -> "verifyFile"
      [] OTHER -> "remount"
FirstLoop ==
    CASE opt.checksumOnly -> "print"
      [] ~opt.checksumOnly /\ opt.verifyOnly -> "verifyOnly"
      [] ~opt.checksumOnly /\ ~opt.verifyOnly /\ opt.tmpdir -> "copy"
      [] ~opt.checksumOnly /\ ~opt.verifyOnly /\ ~opt.tmpdir
           /\ (opt.checksum \/ ~opt.noTypeCheck) -> "verifyFile"
      [] OTHER -> "remount"

(***************************************************************************)
(* MtdPartDetermineAndCheckFileType: a partition with a name of its own    *)
(* takes only files of its type; -i skips the check and the detection.     *)
(***************************************************************************)
DetectedType(f) == IF opt.noTypeCheck THEN "FTUnknown" ELSE FileType[f]
TypeFits(f, p) == opt.noTypeCheck \/ PartType[p] \in {"FTUnknown", FileType[f]}

(* MtdPartInit, MtdPartUseFile and the checksum argument of one entry.     *)
MtdPartInit ==
    /\ pc = "init"
    /\ \/ /\ ~opt.checksumOnly
          /\ Len(files[source]) > Capacity \/ ~TypeFits(source, target)
          /\ Fail
          /\ UNCHANGED <<mtd, bounds>>
       \/ /\ Fail /\ Fault
          /\ UNCHANGED mtd
       \/ /\ opt.checksumOnly \/ (Len(files[source]) <= Capacity /\ TypeFits(source, target))
          /\ mtd' = [mtd EXCEPT ![e] =
                       [EmptyEntry EXCEPT !.size = Len(files[source]),
                                          !.type = IF opt.checksumOnly THEN "FTUnknown"
                                                   ELSE DetectedType(source),
                                          !.crc = args[e].crc,
                                          !.crcSet = opt.checksum]]
          /\ NextEntry(FirstLoop)
          /\ UNCHANGED bounds
    /\ UNCHANGED <<files, tmp, flash, mount, cmd>>

(***************************************************************************)
(* The end of MtdPartCopyFile and MtdPartVerifyFile: compare the checksum  *)
(* given, or note the one calculated.                                      *)
(***************************************************************************)
ChecksumAccepted(data, m) ==
    /\ mtd[e].crcSet => mtd[e].crc = data
    /\ mtd' = [mtd EXCEPT ![e] =
                 IF mtd[e].crcSet THEN m
                 ELSE [m EXCEPT !.crc = data, !.crcSet = TRUE, !.crcCalculated = TRUE]]

(***************************************************************************)
(* MtdPartCopyFile; a failing write(), or a block without the node header  *)
(* JFFS2 wants, leaves the part copied so far.                             *)
(***************************************************************************)
TmpAfterCopy(data) == [tmp EXCEPT ![BaseName[source]] = Overlay(data, @)]

MtdPartCopyFile ==
    /\ pc = "copy"
    /\ LET data == files[source]
       IN \/ /\ tmp' = TmpAfterCopy(data)
             /\ Len(data) = mtd[e].size
             /\ ChecksumAccepted(data, [mtd[e] EXCEPT !.inTmp = TRUE])
             /\ NextEntry("remount")
             /\ UNCHANGED bounds
          \/ /\ tmp' = TmpAfterCopy(data)
             /\ Len(data) # mtd[e].size \/ (mtd[e].crcSet /\ mtd[e].crc # data)
             /\ Fail
             /\ UNCHANGED <<mtd, bounds>>
          \/ /\ \E n \in 0..(Len(data) - 1) : tmp' = TmpAfterCopy(SubSeq(data, 1, n))
             /\ Fail /\ Fault
             /\ UNCHANGED mtd
    /\ UNCHANGED <<files, flash, mount, cmd>>

MtdPartVerifyFile ==
    /\ pc = "verifyFile"
    /\ \/ /\ ChecksumAccepted(files[source], mtd[e])
          /\ NextEntry("remount")
          /\ UNCHANGED bounds
       \/ /\ mtd[e].crcSet /\ mtd[e].crc # files[source]
          /\ Fail
          /\ UNCHANGED <<mtd, bounds>>
       \/ /\ Fail /\ Fault
          /\ UNCHANGED mtd
    /\ UNCHANGED <<files, tmp, flash, mount, cmd>>

-----------------------------------------------------------------------------
(***************************************************************************)
(* GetRootDevice: the text after root= up to the next blank.  The kernel   *)
(* command line ends with a newline, so when root= comes last the result   *)
(* names no device.                                                        *)
(***************************************************************************)
GetRootDevice == IF RootArgLast THEN NoPart ELSE RootPart

(***************************************************************************)
(* MtdPartRemountAllReadOnly: an entry of /proc/mounts that names the      *)
(* partition's block device is unmounted, or if it is busy made read-only; *)
(* /dev/root, when root= names that device, is only made read-only.  Any   *)
(* other entry is passed over: a UBI volume on the partition stays mounted *)
(* as it is.                                                               *)
(***************************************************************************)
Mounted(p, by) == mount[p].how # "none" /\ mount[p].by = by
IsRootDev(p) == Mounted(p, "root") /\ GetRootDevice = p

MtdPartRemountAllReadOnly_root_only ==     \* mutant: looks for /dev/root alone
    /\ pc = "remount"
    /\ mount' = IF IsRootDev(target) THEN [mount EXCEPT ![target].how = "ro"] ELSE mount
    /\ NextEntry("erase")
    /\ UNCHANGED <<files, tmp, flash, cmd, mtd, bounds>>
MtdPartRemountAllReadOnly ==
    /\ pc = "remount"
    /\ \/ /\ ~Mounted(target, "mtdblock") /\ ~IsRootDev(target)
          /\ NextEntry("erase")
          /\ UNCHANGED <<mount, bounds>>
       \/ /\ IsRootDev(target)
          /\ mount' = [mount EXCEPT ![target].how = "ro"]
          /\ NextEntry("erase")
          /\ UNCHANGED bounds
       \/ /\ Mounted(target, "mtdblock")
          /\ \E m \in {"none", "ro"} : mount' = [mount EXCEPT ![target].how = m]
          /\ NextEntry("erase")
          /\ UNCHANGED bounds
       \/ /\ Fail /\ Fault
          /\ UNCHANGED mount
    /\ UNCHANGED <<files, tmp, flash, cmd, mtd>>

-----------------------------------------------------------------------------
(***************************************************************************)
(* DoMtdUpdate, its main loop: erase, write, check each partition in turn. *)
(***************************************************************************)
Erase ==
    /\ pc = "erase"
    /\ \/ /\ flash' = IF mtd[e].type = "FTUBI" \/ opt.dryRun THEN flash
                      ELSE [flash EXCEPT ![target] = Torn]
          /\ pc' = "write" /\ UNCHANGED <<e, bounds>>
       \/ /\ mtd[e].type # "FTUBI" /\ ~opt.dryRun
          /\ flash' = [flash EXCEPT ![target] = Torn]
          /\ Fail /\ Fault
    /\ UNCHANGED <<files, tmp, mount, cmd, mtd>>

AfterPart == IF e < Len(args) THEN "erase" ELSE IF opt.tmpdir THEN "unlink" ELSE "done"
NextPart_not_reset == pc' = AfterPart /\ e' = e + 1     \* mutant
NextPart == pc' = AfterPart /\ e' = IF e < Len(args) THEN e + 1 ELSE 1

(***************************************************************************)
(* kobs-ng for bootstream partitions, ubiformat for UBI images.  Of        *)
(* ubiformat only the exit status is looked at (WEXITSTATUS), and that of  *)
(* a process killed by a signal is 0.                                      *)
(***************************************************************************)
External(k) == PartType[args[k].part] = "FTBootstream" \/ mtd[k].type = "FTUBI"

WriteExternally ==
    /\ pc = "write" /\ External(e)
    /\ \/ /\ flash' = [flash EXCEPT ![target] = ImageData(e)]
          /\ NextPart
          /\ UNCHANGED bounds
       \/ /\ \E c \in {Torn, flash[target]} : flash' = [flash EXCEPT ![target] = c]
          /\ Fail /\ Fault
       \/ /\ WritersKilled /\ PartType[target] # "FTBootstream"
          /\ \E c \in {Torn, flash[target]} : flash' = [flash EXCEPT ![target] = c]
          /\ NextPart
          /\ died' = TRUE
          /\ faults < MaxFaults /\ faults' = faults + 1
          /\ UNCHANGED <<runs, crashes, replaced>>
    /\ UNCHANGED <<files, tmp, mount, cmd, mtd>>

(***************************************************************************)
(* MtdPartWrite copies the image file to its end, then compares sizes.     *)
(***************************************************************************)
Written(data) == IF opt.dryRun THEN flash ELSE [flash EXCEPT ![target] = data]
NeedsCheck == opt.verify \/ opt.checksum

MtdPartWrite ==
    /\ pc = "write" /\ ~External(e)
    /\ \/ /\ Len(ImageData(e)) = mtd[e].size
          /\ flash' = Written(ImageData(e))
          /\ mtd' = IF mtd[e].crcCalculated THEN mtd
                    ELSE [mtd EXCEPT ![e].crc = ImageData(e), ![e].crcSet = TRUE,
                                     ![e].crcCalculated = TRUE]
          /\ IF NeedsCheck THEN pc' = "check" /\ UNCHANGED e ELSE NextPart
          /\ UNCHANGED bounds
       \/ /\ Len(ImageData(e)) # mtd[e].size
          /\ flash' = Written(Torn)
          /\ Fail
          /\ UNCHANGED <<mtd, bounds>>
       \/ /\ ~opt.dryRun
          /\ flash' = Written(Torn)
          /\ Fail /\ Fault
          /\ UNCHANGED mtd
    /\ UNCHANGED <<files, tmp, mount, cmd>>

(***************************************************************************)
(* MtdPartVerify against the original file (-v), or MtdPartCheckCRC32 (-c).*)
(***************************************************************************)
FlashIs(data) == flash[target] = data /\ Len(data) = mtd[e].size

Check_image_file ==     \* mutant: compares with the copy that was flashed
    /\ pc = "check"
    /\ IF FlashIs(IF opt.verify THEN ImageData(e) ELSE mtd[e].crc) THEN NextPart ELSE Fail
    /\ UNCHANGED <<files, tmp, flash, mount, cmd, mtd, bounds>>
Check ==
    /\ pc = "check"
    /\ \/ /\ FlashIs(IF opt.verify THEN files[source] ELSE mtd[e].crc)
          /\ NextPart
          /\ UNCHANGED bounds
       \/ /\ ~FlashIs(IF opt.verify THEN files[source] ELSE mtd[e].crc)
          /\ Fail
          /\ UNCHANGED bounds
       \/ Fail /\ Fault
    /\ UNCHANGED <<files, tmp, flash, mount, cmd, mtd>>

(***************************************************************************)
(* The temporary files are removed; one already gone is no error.          *)
(***************************************************************************)
Unlink ==
    /\ pc = "unlink"
    /\ \/ /\ tmp' = [tmp EXCEPT ![BaseName[source]] = NoFile]
          /\ NextEntry("done")
          /\ UNCHANGED bounds
       \/ /\ tmp[BaseName[source]] # NoFile
          /\ Fail /\ Fault
          /\ UNCHANGED tmp
    /\ UNCHANGED <<files, flash, mount, cmd, mtd>>

-----------------------------------------------------------------------------
(* DoMtdVerify: the result of MtdPartVerify is only printed.               *)
DoMtdVerify ==
    /\ pc = "verifyOnly"
    /\ \/ NextEntry("done") /\ UNCHANGED bounds
       \/ Fail /\ Fault
    /\ UNCHANGED <<files, tmp, flash, mount, cmd, mtd>>

DoPrintChecksums ==
    /\ pc = "print"
    /\ \/ /\ mtd[e].crcSet => mtd[e].crc = files[source]
          /\ NextEntry("done")
          /\ UNCHANGED bounds
       \/ /\ mtd[e].crcSet /\ mtd[e].crc # files[source]
          /\ Fail
          /\ UNCHANGED bounds
       \/ Fail /\ Fault
    /\ UNCHANGED <<files, tmp, flash, mount, cmd, mtd>>

-----------------------------------------------------------------------------
Running == pc \notin {"done", "failed"}

(***************************************************************************)
(* The process is killed or the power fails; a step under way on the flash *)
(* may have torn the partition, and a copy may be partly written.          *)
(***************************************************************************)
Crash ==
    /\ Running /\ crashes < MaxCrashes
    /\ crashes' = crashes + 1
    /\ pc' = "failed" /\ UNCHANGED e
    /\ \/ UNCHANGED <<flash, tmp>>
       \/ /\ pc \in {"erase", "write"} /\ ~opt.dryRun
          /\ flash' = [flash EXCEPT ![target] = Torn]
          /\ UNCHANGED tmp
       \/ /\ pc = "copy"
          /\ \E n \in 0..(Len(files[source]) - 1) :
                tmp' = TmpAfterCopy(SubSeq(files[source], 1, n))
          /\ UNCHANGED flash
    /\ UNCHANGED <<files, mount, cmd, mtd, died, runs, faults, replaced>>

(* The same or another command is given after a failure.                   *)
Rerun ==
    /\ pc = "failed" /\ runs < MaxRuns
    /\ runs' = runs + 1
    /\ cmd' \in CommandLines
    /\ pc' = "init" /\ e' = 1
    /\ mtd' = [k \in 1..Len(cmd'.args) |-> EmptyEntry]
    /\ died' = FALSE
    /\ UNCHANGED <<files, tmp, flash, mount, faults, crashes, replaced>>

ReplaceFile ==
    /\ Running /\ replaced < MaxReplace
    /\ replaced' = replaced + 1
    /\ \E f \in Files, c \in Contents :
         c # files[f] /\ files' = [files EXCEPT ![f] = c]
    /\ UNCHANGED <<tmp, flash, mount, cmd, pc, e, mtd, died, runs, faults, crashes>>

Terminated == ~Running /\ (pc = "done" \/ runs >= MaxRuns) /\ UNCHANGED vars

Next ==
    \/ MtdPartInit \/ MtdPartCopyFile \/ MtdPartVerifyFile
    \/ MtdPartRemountAllReadOnly
    \/ Erase \/ WriteExternally \/ MtdPartWrite \/ Check \/ Unlink
    \/ DoMtdVerify \/ DoPrintChecksums
    \/ Crash \/ Rerun \/ ReplaceFile \/ Terminated

Spec == Init /\ [][Next]_vars

-----------------------------------------------------------------------------
PcSet == {"init", "print", "verifyOnly", "copy", "verifyFile", "remount",
          "erase", "write", "check", "unlink", "done", "failed"}

(* The type invariant.                                                     *)
EntryType == [inTmp : BOOLEAN, size : Nat, type : Types,
              crc : Seq(Units) \cup {NoFile}, crcSet : BOOLEAN, crcCalculated : BOOLEAN]
TypeOK ==
    /\ files \in [Files -> Contents]
    /\ tmp \in [NamesOf -> Seq(Units) \cup {NoFile}]
    /\ flash \in [Partitions -> Seq(Units) \cup {NoFile, Old, Torn}]
    /\ mount \in [Partitions -> MountStates]
    /\ cmd \in CommandLines
    /\ pc \in PcSet /\ e \in Entries
    /\ mtd \in [Entries -> EntryType]
    /\ died \in BOOLEAN /\ replaced \in Nat

Updating == ~opt.checksumOnly /\ ~opt.verifyOnly

(* Of several entries for a partition the last one counts.                 *)
IsLast(k) == \A j \in Entries : args[j].part = args[k].part => j <= k

(***************************************************************************)
(* Nothing else is copied under the name of entry k's file: not by this    *)
(* command, and where an external tool takes the file whatever its size    *)
(* has become, not by an earlier one either.                               *)
(***************************************************************************)
CopyIsOwn(k) ==
    \A f \in IF External(k) THEN Files ELSE {args[j].file : j \in Entries} :
        BaseName[f] = BaseName[args[k].file] => f = args[k].file
CheckedAgain(k) == opt.verify /\ ~External(k)

(***************************************************************************)
(* When update_flash ends with EXIT_SUCCESS, every partition named on the  *)
(* command line holds the file named for it: no step of another entry, no  *)
(* stale or overwritten temporary file has got in between.  Files with the *)
(* same base name are excepted, unless -v catches the mix-up, and so is an *)
(* ubiformat that was killed by a signal (see External).                   *)
(***************************************************************************)
SuccessMeansAllFlashed ==
    pc = "done" /\ Updating /\ ~opt.dryRun /\ replaced = 0 /\ ~died
    => \A k \in Entries :
         IsLast(k) /\ (opt.tmpdir => CopyIsOwn(k) \/ CheckedAgain(k))
         => flash[args[k].part] = files[args[k].file]

(***************************************************************************)
(* "verify checksum before starting to update": when one of the checksums  *)
(* given is wrong, no partition is touched, not even those of the entries  *)
(* whose checksum is right.                                                *)
(***************************************************************************)
WrongChecksumTouchesNothing ==
    [][(/\ replaced = 0 /\ opt.checksum
        /\ \E k \in Entries : args[k].crc # files[args[k].file])
       => flash' = flash]_vars

(***************************************************************************)
(* "make it read-only so no one can destroy the data": no partition is     *)
(* rewritten while a file system on it is mounted read-write under a name  *)
(* that tells the partition, its block device or a /dev/root that root=    *)
(* explains.  File systems on UBI volumes are not covered: see             *)
(* NothingMountedWhileWritten.                                             *)
(***************************************************************************)
NamesPartition(p) == mount[p].by = "mtdblock" \/ (mount[p].by = "root" /\ RootPart = p)
NotMountedWhileWritten ==
    [][\A p \in Partitions :
         flash'[p] # flash[p] /\ NamesPartition(p) => mount[p].how # "rw"]_vars

(***************************************************************************)
(* UpdateFlash implements FlashUpdate, as long as nobody replaces the      *)
(* files: the checks come first, and success is not reported too early.    *)
(* The refinement is for command lines that update every partition, from   *)
(* copies nothing else is mixed up with.                                   *)
(***************************************************************************)
OwnName(f) == \A g \in Files : BaseName[g] = BaseName[f] => g = f
PlainUpdates ==
    \A c \in CommandLines :
      /\ ~c.opt.checksumOnly /\ ~c.opt.verifyOnly /\ ~c.opt.dryRun
      /\ \A p \in Partitions : \E k \in 1..Len(c.args) : c.args[k].part = p
      /\ c.opt.tmpdir => \A k \in 1..Len(c.args) :
           \/ OwnName(c.args[k].file)
           \/ /\ c.opt.verify
              /\ PartType[c.args[k].part] # "FTBootstream" /\ FileType[c.args[k].file] # "FTUBI"

Wanted(p) == files[args[CHOOSE k \in Entries : args[k].part = p /\ IsLast(k)].file]
AbstractStatus ==
    CASE pc \in {"init", "copy", "verifyFile", "remount"} -> "checking"
      [] pc \in {"erase", "write", "check", "unlink"} -> "updating"
      [] pc = "done" -> "succeeded"
      [] OTHER -> "failed"
AbstractContents ==
    [p \in Partitions |-> IF flash[p] = Old THEN "old"
                        ELSE IF flash[p] = Wanted(p) THEN "new" ELSE "torn"]

Abstract == INSTANCE FlashUpdate
    WITH Targets <- Partitions, contents <- AbstractContents, status <- AbstractStatus
AbstractSpec == Abstract!Spec

(***************************************************************************)
(* "don't erase or write to the flash" (help text of --dry-run).           *)
(***************************************************************************)
DryRunChangesNothing == [][opt.dryRun => flash' = flash]_vars

(***************************************************************************)
(* "make it read-only so no one can destroy the data", of every mount.     *)
(***************************************************************************)
NothingMountedWhileWritten ==
    [][\A p \in Partitions : flash'[p] # flash[p] => mount[p].how # "rw"]_vars

(***************************************************************************)
(* "Flashing:  complete" (printed when ubiformat ends): the partition then *)
(* holds the image, whatever ended ubiformat.                              *)
(***************************************************************************)
CompleteMeansFlashed ==
    [][pc = "write" /\ External(e) /\ pc' \notin {"write", "failed"}
       => flash'[target] = ImageData(e)]_vars

(***************************************************************************)
(* "flashes only when checksum matches" (help text of -c).                 *)
(***************************************************************************)
ChecksumHonoured ==
    pc = "done" /\ Updating /\ opt.checksum /\ ~opt.dryRun
    => \A k \in Entries : IsLast(k) => flash[args[k].part] = args[k].crc

(***************************************************************************)
(* "checksum is checked or calculated while copying to tmp": what the      *)
(* update is about to take from the temporary directory is what was        *)
(* checked.                                                                *)
(***************************************************************************)
TmpCopyIsChecked ==
    pc = "erase" /\ e = 1 /\ opt.tmpdir
    => \A k \in Entries : ImageData(k) = mtd[k].crc
=============================================================================
